------------------------ MODULE StoragedScaleProofs ------------------------
(***************************************************************************)
(* Proofs about StoragedScale, for any number of ordinals, any set of      *)
(* spaces and any bounds: types and the records of jobs; that a careful    *)
(* scale-in loses no data (CarefulInv) and no volume with data             *)
(* (ReclaimInv); and that a careful cluster is complete when it is settled *)
(* (SettledInv).                                                           *)
(***************************************************************************)
EXTENDS StoragedScaleInv, SequenceTheorems, FiniteSetTheorems, TLAPS

\* Changing the state of a job keeps the list of jobs well typed
LEMMA JobStateType ==
    ASSUME NEW s \in Seq(JobType), NEW i \in 1 .. Len(s), NEW st \in JobState
    PROVE  /\ [s EXCEPT ![i].state = st] \in Seq(JobType)
           /\ Len([s EXCEPT ![i].state = st]) = Len(s)
           /\ \A k \in 1 .. Len(s) :
                /\ [s EXCEPT ![i].state = st][k].space = s[k].space
                /\ [s EXCEPT ![i].state = st][k].hosts = s[k].hosts
                /\ k # i => [s EXCEPT ![i].state = st][k] = s[k]
           /\ [s EXCEPT ![i].state = st][i].state = st
<1> DEFINE e == [s[i] EXCEPT !.state = st]
<1>1. s[i] \in JobType
  BY ElementOfSeq
<1>2. e \in JobType
  BY <1>1 DEF JobType
<1>3. [s EXCEPT ![i].state = st] = [s EXCEPT ![i] = e]
  OBVIOUS
<1>4. [s EXCEPT ![i] = e] \in Seq(JobType) /\ Len([s EXCEPT ![i] = e]) = Len(s)
  BY <1>2, ExceptSeq
<1>5. e.space = s[i].space /\ e.hosts = s[i].hosts /\ e.state = st
  BY <1>1 DEF JobType
<1>6. \A k \in 1 .. Len(s) : [s EXCEPT ![i] = e][k] = IF k = i THEN e ELSE s[k]
  BY <1>2, ExceptSeq
<1> QED
  BY <1>3, <1>4, <1>5, <1>6

\* The changes to a status keep its type, and touch the fields they name
LEMMA StatusUpdates ==
    ASSUME NEW c \in StatusType
    PROVE  /\ \A p \in Phases : /\ InPhase(c, p) \in StatusType
                                /\ InPhase(c, p).job = c.job
                                /\ InPhase(c, p).removed = c.removed
                                /\ InPhase(c, p).phase = p
           /\ WithHosts(c) \in StatusType
           /\ WithHosts(c).job = c.job
           /\ WithHosts(c).removed = c.removed
           /\ WithHosts(c).phase = c.phase
           /\ ScaledOut(c) \in StatusType
           /\ ScaledOut(c).job = NoJob
           /\ ScaledOut(c).removed = c.removed
           /\ ScaledIn(c) \in StatusType
           /\ ScaledIn(c).job = NoJob
           /\ ScaledIn(c).removed = {}
           /\ ScaledIn(c).phase = "Running"
           /\ ScaledOut(c).phase = "Running"
<1>1. NoJob \in JobRef /\ "Running" \in Phases
  BY DEF JobRef, Phases
<1> QED
  BY <1>1 DEF StatusType, InPhase, WithHosts, ScaledOut, ScaledIn

LEMMA SpaceUpdates ==
    ASSUME NEW c \in StatusType, NEW s \in Spaces
    PROVE  /\ WithBalanced(c, s) \in StatusType
           /\ WithBalanced(c, s).job = c.job
           /\ WithBalanced(c, s).removed = c.removed
           /\ WithBalanced(c, s).phase = c.phase
           /\ WithRemoved(c, s) \in StatusType
           /\ WithRemoved(c, s).job = c.job
           /\ WithRemoved(c, s).removed = c.removed \cup {s}
           /\ WithRemoved(c, s).phase = c.phase
<1>1. c.balanced \subseteq Spaces /\ c.removed \subseteq Spaces
  BY DEF StatusType
<1> QED
  BY <1>1 DEF StatusType, WithBalanced, WithRemoved

LEMMA JobUpdate ==
    ASSUME NEW c \in StatusType, NEW s \in Spaces, NEW j \in Nat \ {0}
    PROVE  /\ WithJob(c, s, j) \in StatusType
           /\ WithJob(c, s, j).job # NoJob
           /\ WithJob(c, s, j).job.space = s
           /\ WithJob(c, s, j).job.id = j
           /\ WithJob(c, s, j).removed = c.removed
           /\ WithJob(c, s, j).phase = c.phase
<1>1. [space |-> s, id |-> j] \in JobRef /\ [space |-> s, id |-> j] # NoJob
  BY SpacesAssumption DEF JobRef, NoJob
<1> QED
  BY <1>1 DEF StatusType, WithJob

LEMMA NewStatusType ==
    NewStatus \in StatusType /\ NewStatus.job = NoJob /\ NewStatus.removed = {}
  BY DEF NewStatus, StatusType, Phases, JobRef

\* A new job for space s
LEMMA NewJob ==
    ASSUME NEW js \in Seq(JobType), NEW s \in Spaces, NEW H \in SUBSET Ordinals,
           NEW new, new = Append(js, [space |-> s, hosts |-> H, state |-> "running"])
    PROVE  /\ new \in Seq(JobType)
           /\ Len(new) = Len(js) + 1
           /\ \A k \in 1 .. Len(js) : new[k] = js[k]
           /\ new[Len(js) + 1].space = s
           /\ new[Len(js) + 1].hosts = H
           /\ new[Len(js) + 1].state = "running"
<1> DEFINE e == [space |-> s, hosts |-> H, state |-> "running"]
<1>1. e \in JobType /\ e.space = s /\ e.hosts = H /\ e.state = "running"
  BY DEF JobType, JobState
<1> HIDE DEF e
<1>2. new = Append(js, e)
  BY DEF e
<1> QED
  BY <1>1, <1>2, AppendProperties

---------------------------------------------------------------------------
LEMMA RefInvInit == Init => RefInv
<1> SUFFICES ASSUME Init PROVE RefInv
  OBVIOUS
<1>1. cache \in [spec : Replicas, status : StatusType] /\ cache.status = NewStatus
  BY NewStatusType DEF Init, Api
<1>2. jobs \in Seq(JobType)
  BY EmptySeq DEF Init
<1>5. 0 \in 0 .. MaxReplicas /\ 0 \in 0 .. MaxPatches /\ 0 \in 0 .. MaxFaults
  BY ReplicasAssumption, BoundAssumption
<1>6. /\ pods \in [Ordinals -> PodState] /\ pvcs \in [Ordinals -> PVCState]
      /\ parts \in [Ordinals -> SUBSET Spaces] /\ pc \in PC
  BY DEF Init, PodState, PVCState, PC
<1>3. TypeOK
  BY <1>1, <1>2, <1>5, <1>6, NewStatusType DEF Init, TypeOK
<1>4. JobRecorded
  BY <1>1, NewStatusType DEF Init, JobRecorded, Submitted
<1> QED
  BY <1>3, <1>4 DEF RefInv, Init

LEMMA RefInvNext == RefInv /\ [Next]_vars => RefInv'
<1> SUFFICES ASSUME RefInv, [Next]_vars PROVE RefInv'
  OBVIOUS
<1> USE DEF local, metad, kube, api
<1>t. /\ MaxReplicas \in Nat \ {0} /\ MaxFaults \in Nat /\ MaxPatches \in Nat
      /\ jobs \in Seq(JobType) /\ Len(jobs) \in Nat
      /\ nc \in StatusType /\ status \in StatusType
      /\ cache.spec \in Replicas /\ cache.status \in StatusType
      /\ want \in 0 .. MaxReplicas /\ old \in 0 .. MaxReplicas
  BY ReplicasAssumption, BoundAssumption, LenProperties DEF RefInv, TypeOK
<1>i. /\ Replicas \subseteq 0 .. MaxReplicas /\ 0 \in 0 .. MaxReplicas
      /\ UNCHANGED faults \/ Fault => faults' \in 0 .. MaxFaults
      /\ Len(jobs) + 1 \in Nat \ {0}
  <2>1. faults \in 0 .. MaxFaults
    BY DEF RefInv, TypeOK
  <2> QED
    BY <1>t, <2>1 DEF Replicas, Fault
<1>a. /\ InPhase(nc, "ScaleIn") \in StatusType /\ InPhase(nc, "ScaleIn").job = nc.job
      /\ InPhase(nc, "ScaleOut") \in StatusType /\ InPhase(nc, "ScaleOut").job = nc.job
      /\ InPhase(nc, "Running") \in StatusType /\ InPhase(nc, "Running").job = nc.job
      /\ WithHosts(nc) \in StatusType /\ WithHosts(nc).job = nc.job
      /\ ScaledOut(nc) \in StatusType /\ ScaledOut(nc).job = NoJob
      /\ ScaledIn(nc) \in StatusType /\ ScaledIn(nc).job = NoJob
  BY <1>t, StatusUpdates DEF Phases
<1>b. \A s \in Spaces : /\ WithBalanced(nc, s) \in StatusType
                        /\ WithBalanced(nc, s).job = nc.job
                        /\ WithRemoved(nc, s) \in StatusType
                        /\ WithRemoved(nc, s).job = nc.job
  BY <1>t, SpaceUpdates
\* The steps of a pass that submit and change no job
<1>k. ASSUME nc' \in StatusType, nc'.job \in {nc.job, NoJob}, status' \in {status, nc'},
             pc' \in PC, pc # "idle", UNCHANGED faults \/ Fault,
             sts' \in Replicas, hosts' \subseteq Ordinals, pvcs' \in [Ordinals -> PVCState],
             listed' \subseteq Spaces, targets' \subseteq Ordinals,
             UNCHANGED <<spec, cache, pods, spaces, parts, jobs, want, old, ready, patches>>
      PROVE  RefInv'
  <2>1. status' \in StatusType /\ faults' \in 0 .. MaxFaults
    BY <1>k, <1>i, <1>t
  <2>2. TypeOK'
    BY <1>k, <2>1 DEF RefInv, TypeOK
  <2>3. Submitted(nc.job)'
    BY <1>k DEF RefInv, JobRecorded, Submitted
  <2>4. Submitted(status.job)'
    BY <1>k, <2>3 DEF RefInv, JobRecorded, Submitted
  <2>5. Submitted(cache.status.job)'
    BY <1>k DEF RefInv, JobRecorded, Submitted
  <2>6. want' \in Replicas
    BY <1>k DEF RefInv
  <2> QED
    BY <2>2, <2>3, <2>4, <2>5, <2>6 DEF RefInv, JobRecorded
<1>1. CASE StartReconcile
  <2>1. PICK seen \in {Api, cache} :
           /\ UNCHANGED faults \/ Fault
           /\ want' = seen.spec
           /\ nc' = IF seen.status.phase = "" THEN InPhase(seen.status, "Running")
                                              ELSE seen.status
    BY <1>1 DEF StartReconcile
  <2>2. seen.spec \in Replicas /\ seen.status \in StatusType /\ Submitted(seen.status.job)
    BY <1>t DEF Api, RefInv, TypeOK, JobRecorded
  <2>3. nc' \in StatusType /\ nc'.job = seen.status.job
    BY <2>1, <2>2, StatusUpdates DEF Phases
  <2>4. ready' \in BOOLEAN
    BY <1>1 DEF StartReconcile
  <2>5. UNCHANGED <<spec, status, cache, sts, pods, pvcs, hosts, spaces, parts, jobs,
                    listed, targets, patches>> /\ old' = sts /\ pc' = "hosts"
    BY <1>1 DEF StartReconcile
  <2>6. want' \in Replicas /\ want' \in 0 .. MaxReplicas /\ old' \in 0 .. MaxReplicas
    BY <1>i, <2>1, <2>2, <2>5 DEF RefInv, TypeOK
  <2>7. pc' \in PC /\ pc' # "idle"
    BY <2>5 DEF PC
  <2>8. faults' \in 0 .. MaxFaults
    BY <1>i, <2>1
  <2>9. TypeOK'
    BY <2>3, <2>4, <2>5, <2>6, <2>7, <2>8 DEF RefInv, TypeOK
  <2>10. JobRecorded'
    BY <2>2, <2>3, <2>5 DEF RefInv, JobRecorded, Submitted
  <2> QED
    BY <2>6, <2>9, <2>10 DEF RefInv
<1>2. CASE AddStorageHosts
  <2>1. hosts' \subseteq Ordinals
    <3>1. hosts' \subseteq hosts \cup 0 .. want - 1
      BY <1>2, <1>t DEF AddStorageHosts
    <3>2. 0 .. want - 1 \subseteq Ordinals
      BY <1>t DEF Ordinals
    <3> QED
      BY <3>1, <3>2 DEF RefInv, TypeOK
  <2> QED
    BY <1>2, <2>1, <1>a DEF AddStorageHosts, RefInv, TypeOK, JobRecorded, Submitted, PC
<1>3. CASE Scale
  <2>1. /\ nc' \in StatusType /\ nc'.job \in {nc.job, NoJob} /\ status' \in {status, nc'}
        /\ pc' \in PC /\ pc # "idle"
        /\ UNCHANGED faults \/ Fault
        /\ UNCHANGED <<spec, cache, sts, pods, pvcs, hosts, spaces, parts, jobs, want, old, ready, listed, targets, patches>>
    BY <1>3, <1>a, <1>b, <1>t DEF Scale, Save, PC
  <2> QED
    BY <2>1, <1>k DEF RefInv, TypeOK
<1>4. CASE SaveJob
  <2>1. /\ nc' \in StatusType /\ nc'.job \in {nc.job, NoJob} /\ status' \in {status, nc'}
        /\ pc' \in PC /\ pc # "idle"
        /\ UNCHANGED faults \/ Fault
        /\ UNCHANGED <<spec, cache, sts, pods, pvcs, hosts, spaces, parts, jobs, want, old, ready, listed, targets, patches>>
    BY <1>4, <1>a, <1>b, <1>t DEF SaveJob, PC
  <2> QED
    BY <2>1, <1>k DEF RefInv, TypeOK
<1>5. CASE ScaleOut
  <2>1. /\ nc' \in StatusType /\ nc'.job \in {nc.job, NoJob} /\ status' \in {status, nc'}
        /\ pc' \in PC /\ pc # "idle"
        /\ UNCHANGED faults \/ Fault
        /\ UNCHANGED <<spec, cache, sts, pods, pvcs, hosts, spaces, parts, jobs, want, old, ready, targets, patches>>
    BY <1>5, <1>a, <1>b, <1>t DEF ScaleOut, PC
  <2>2. listed' \in {listed, spaces}
    BY <1>5 DEF ScaleOut
  <2> QED
    BY <2>1, <2>2, <1>k DEF RefInv, TypeOK
<1>6. CASE ScaleIn
  <2>1. /\ nc' \in StatusType /\ nc'.job \in {nc.job, NoJob} /\ status' \in {status, nc'}
        /\ pc' \in PC /\ pc # "idle"
        /\ UNCHANGED faults \/ Fault
        /\ UNCHANGED <<spec, cache, sts, pods, pvcs, hosts, spaces, parts, jobs, want, old, ready, patches>>
    BY <1>6, <1>a, <1>b, <1>t DEF ScaleIn, PC
  <2>2. listed' = spaces
    BY <1>6 DEF ScaleIn
  <2>3. targets' \subseteq Ordinals
    <3>1. want .. old - 1 \subseteq Ordinals
      BY <1>t DEF Ordinals
    <3>2. targets' \subseteq (want .. old - 1) \/ targets' = targets
      BY <1>6 DEF ScaleIn
    <3> QED
      BY <3>1, <3>2 DEF RefInv, TypeOK
  <2> QED
    BY <2>1, <2>2, <2>3, <1>k DEF RefInv, TypeOK
<1>7. CASE DropHosts
  <2>1. /\ nc' \in StatusType /\ nc'.job \in {nc.job, NoJob} /\ status' \in {status, nc'}
        /\ pc' \in PC /\ pc # "idle"
        /\ UNCHANGED faults \/ Fault
        /\ UNCHANGED <<spec, cache, sts, pods, pvcs, spaces, parts, jobs, want, old, ready, listed, targets, patches>>
    BY <1>7, <1>a, <1>b, <1>t DEF DropHosts, PC
  <2>2. hosts' \subseteq hosts
    BY <1>7 DEF DropHosts
  <2> QED
    BY <2>1, <2>2, <1>k DEF RefInv, TypeOK
<1>8. CASE BalanceLeaders
  <2>1. listed \subseteq Spaces
    BY DEF RefInv, TypeOK
  <2>2. /\ nc' \in StatusType /\ nc'.job = nc.job /\ status' \in {status, nc'}
        /\ pc' \in PC /\ pc # "idle"
        /\ UNCHANGED faults \/ Fault
        /\ UNCHANGED <<spec, cache, sts, pods, pvcs, hosts, spaces, parts, jobs, want, old,
                       ready, listed, targets, patches>>
    BY <1>8, <1>b, <1>t, <2>1 DEF BalanceLeaders, Save, PC
  <2> QED
    BY <2>2, <1>k DEF RefInv, TypeOK
<1>9. CASE PVCMark
  <2>1. /\ nc' \in StatusType /\ nc'.job \in {nc.job, NoJob} /\ status' \in {status, nc'}
        /\ pc' \in PC /\ pc # "idle"
        /\ UNCHANGED faults \/ Fault
        /\ UNCHANGED <<spec, cache, sts, pods, hosts, spaces, parts, jobs, want, old, ready, listed, targets, patches>>
    BY <1>9, <1>a, <1>b, <1>t DEF PVCMark, PC
  <2>2. pvcs' \in [Ordinals -> PVCState]
    BY <1>9 DEF PVCMark, RefInv, TypeOK, PVCState
  <2> QED
    BY <2>1, <2>2, <1>k DEF RefInv, TypeOK
<1>10. CASE ScaleInDone
  <2>1. /\ nc' \in StatusType /\ nc'.job \in {nc.job, NoJob} /\ status' \in {status, nc'}
        /\ pc' \in PC /\ pc # "idle"
        /\ UNCHANGED faults \/ Fault
        /\ UNCHANGED <<spec, cache, sts, pods, pvcs, hosts, spaces, parts, jobs, want, old, ready, listed, targets, patches>>
    BY <1>10, <1>a, <1>b, <1>t DEF ScaleInDone, Save, PC
  <2> QED
    BY <2>1, <1>k DEF RefInv, TypeOK
<1>11. CASE UpdateWorkload
  <2>1. /\ nc' \in StatusType /\ nc'.job \in {nc.job, NoJob} /\ status' \in {status, nc'}
        /\ pc' \in PC /\ pc # "idle"
        /\ UNCHANGED faults \/ Fault
        /\ UNCHANGED <<spec, cache, pods, pvcs, hosts, spaces, parts, jobs, want, old, ready, listed, targets, patches>>
    BY <1>11, <1>a, <1>b, <1>t DEF UpdateWorkload, PC
  <2>2. sts' \in Replicas
    BY <1>11 DEF UpdateWorkload, RefInv
  <2> QED
    BY <2>1, <2>2, <1>k DEF RefInv, TypeOK
<1>12. CASE ReclaimPV
  <2>1. /\ nc' \in StatusType /\ nc'.job \in {nc.job, NoJob} /\ status' \in {status, nc'}
        /\ pc' \in PC /\ pc # "idle"
        /\ UNCHANGED faults \/ Fault
        /\ UNCHANGED <<spec, cache, sts, pods, pvcs, hosts, spaces, parts, jobs, want, old, ready, listed, patches>>
    BY <1>12, <1>a, <1>b, <1>t DEF ReclaimPV, PC
  <2>2. targets' \subseteq Ordinals
    BY <1>12 DEF ReclaimPV
  <2> QED
    BY <2>1, <2>2, <1>k DEF RefInv, TypeOK
<1>13. CASE DeletePVC
  <2>1. /\ nc' \in StatusType /\ nc'.job \in {nc.job, NoJob} /\ status' \in {status, nc'}
        /\ pc' \in PC /\ pc # "idle"
        /\ UNCHANGED faults \/ Fault
        /\ UNCHANGED <<spec, cache, sts, pods, hosts, spaces, parts, jobs, want, old, ready, listed, targets, patches>>
    BY <1>13, <1>a, <1>b, <1>t DEF DeletePVC, PC
  <2>2. pvcs' \in [Ordinals -> PVCState]
    BY <1>13 DEF DeletePVC, RefInv, TypeOK, PVCState
  <2> QED
    BY <2>1, <2>2, <1>k DEF RefInv, TypeOK
<1>14. CASE CallFails
  <2>1. /\ nc' \in StatusType /\ nc'.job \in {nc.job, NoJob} /\ status' \in {status, nc'}
        /\ pc' \in PC /\ pc # "idle"
        /\ UNCHANGED faults \/ Fault
        /\ UNCHANGED <<spec, cache, sts, pods, pvcs, hosts, spaces, parts, jobs, want, old, ready, listed, targets, patches>>
    BY <1>14, <1>a, <1>b, <1>t DEF CallFails, PC
  <2> QED
    BY <2>1, <1>k DEF RefInv, TypeOK
<1>15. CASE EndReconcile
  <2>1. /\ nc' \in StatusType /\ nc'.job = NoJob /\ status' = nc
        /\ pc' = "idle" /\ pc' \in PC
        /\ want' = 0 /\ old' = 0 /\ ready' = FALSE /\ listed' = {} /\ targets' = {}
        /\ UNCHANGED faults \/ Fault
        /\ UNCHANGED <<spec, cache, sts, pods, pvcs, hosts, spaces, parts, jobs, patches>>
    BY <1>15, NewStatusType DEF EndReconcile, Forget, PC
  <2>2. TypeOK'
    BY <2>1, <1>i, <1>t DEF RefInv, TypeOK
  <2> QED
    BY <2>1, <2>2 DEF RefInv, JobRecorded, Submitted
<1>16. CASE Crash
  <2>1. /\ nc' \in StatusType /\ nc'.job = NoJob /\ status' = status
        /\ pc' = "idle" /\ pc' \in PC
        /\ want' = 0 /\ old' = 0 /\ ready' = FALSE /\ listed' = {} /\ targets' = {}
        /\ UNCHANGED faults \/ Fault
        /\ UNCHANGED <<spec, cache, sts, pods, pvcs, hosts, spaces, parts, jobs, patches>>
    BY <1>16, NewStatusType DEF Crash, Forget, PC
  <2>2. TypeOK'
    BY <2>1, <1>i, <1>t DEF RefInv, TypeOK
  <2> QED
    BY <2>1, <2>2 DEF RefInv, JobRecorded, Submitted
<1>17. ASSUME NEW n \in Replicas, PatchReplicas(n) PROVE RefInv'
  BY <1>17, <1>t DEF PatchReplicas, RefInv, TypeOK, JobRecorded, Submitted
<1>18. ASSUME NEW s \in Spaces, CreateSpace(s) PROVE RefInv'
  <2>1. parts' \in [Ordinals -> SUBSET Spaces] /\ spaces' \subseteq Spaces
    BY <1>18 DEF CreateSpace, RefInv, TypeOK
  <2> QED
    BY <1>18, <2>1 DEF CreateSpace, RefInv, TypeOK, JobRecorded, Submitted
<1>19. CASE CacheSync
  <2>1. cache' \in [spec : Replicas, status : StatusType] /\ cache'.status = status
    BY <1>19, <1>t DEF CacheSync, Api, RefInv, TypeOK
  <2>2. UNCHANGED <<spec, status, sts, pods, pvcs, hosts, spaces, parts, jobs, pc, nc,
                    want, old, ready, listed, targets, patches, faults>>
    BY <1>19 DEF CacheSync
  <2>3. TypeOK'
    BY <2>1, <2>2 DEF RefInv, TypeOK
  <2>4. JobRecorded'
    BY <2>1, <2>2 DEF RefInv, JobRecorded, Submitted
  <2> QED
    BY <2>2, <2>3, <2>4 DEF RefInv
<1>20. ASSUME NEW o \in Ordinals,
              PodStart(o) \/ PodReady(o) \/ PodStop(o) \/ PodFail(o)
       PROVE  RefInv'
  <2>1. /\ UNCHANGED <<spec, status, cache, sts, hosts, spaces, parts, jobs, pc, nc,
                       want, old, ready, listed, targets, patches>>
        /\ UNCHANGED faults \/ Fault
    BY <1>20 DEF PodStart, PodReady, PodStop, PodFail, PodGone
  <2>2. pods' \in [Ordinals -> PodState] /\ pvcs' \in [Ordinals -> PVCState]
    BY <1>20 DEF PodStart, PodReady, PodStop, PodFail, PodGone, RefInv, TypeOK,
                 PodState, PVCState
  <2> QED
    BY <2>1, <2>2, <1>t DEF RefInv, TypeOK, JobRecorded, Submitted, Fault
<1>21. ASSUME NEW s \in Spaces, NEW H \in SUBSET Ordinals, SubmitJob(s, H), pc # "idle",
              UNCHANGED <<spec, cache, sts, pods, pvcs, hosts, spaces, parts, want, old,
                          ready, listed, targets, patches>>
       PROVE  RefInv'
  <2>1. /\ jobs' \in Seq(JobType)
        /\ Len(jobs') = Len(jobs) + 1
        /\ \A k \in 1 .. Len(jobs) : jobs'[k] = jobs[k]
        /\ jobs'[Len(jobs) + 1].space = s
    BY <1>21, <1>t, NewJob DEF SubmitJob
  <2>2. \A ref : Submitted(ref) => Submitted(ref)'
    BY <2>1, <1>t DEF Submitted
  <2>3. \/ nc' = WithJob(nc, s, Len(jobs) + 1)
        \/ nc' = nc
    BY <1>21 DEF SubmitJob
  <2>4. nc' \in StatusType /\ (nc' = nc \/ (nc'.job.space = s /\ nc'.job.id = Len(jobs) + 1))
    <3>2. /\ WithJob(nc, s, Len(jobs) + 1) \in StatusType
          /\ WithJob(nc, s, Len(jobs) + 1).job.space = s
          /\ WithJob(nc, s, Len(jobs) + 1).job.id = Len(jobs) + 1
      BY <1>i, <1>t, JobUpdate
    <3> QED
      BY <2>3, <3>2, <1>t
  <2>5. Submitted(nc.job)'
    <3>1. CASE nc' = nc
      BY <3>1, <2>2 DEF RefInv, JobRecorded, Submitted
    <3>2. CASE nc'.job.space = s /\ nc'.job.id = Len(jobs) + 1
      BY <3>2, <2>1, <1>t DEF Submitted
    <3> QED
      BY <2>4, <3>1, <3>2
  <2>6. /\ status' = status /\ pc' \in PC
        /\ UNCHANGED faults \/ Fault
    BY <1>21 DEF SubmitJob, PC
  <2>7. JobRecorded'
    <3>1. Submitted(status.job)' /\ Submitted(cache.status.job)'
      BY <1>21, <2>2, <2>6 DEF RefInv, JobRecorded, Submitted
    <3> QED
      BY <2>5, <3>1 DEF JobRecorded
  <2>8. TypeOK'
    BY <1>21, <1>t, <2>1, <2>4, <2>6 DEF RefInv, TypeOK, Fault
  <2> QED
    BY <1>21, <2>7, <2>8 DEF RefInv
<1>22. ASSUME NEW js \in Seq(JobType), Len(js) = Len(jobs),
              \A k \in 1 .. Len(jobs) : js[k].space = jobs[k].space,
              jobs' = js, parts' \in [Ordinals -> SUBSET Spaces],
              UNCHANGED faults \/ Fault, pc' \in {pc, "end"}, pc = "idle" => pc' = "idle",
              UNCHANGED <<spec, status, cache, sts, pods, pvcs, hosts, spaces, nc, want, old,
                          ready, listed, targets, patches>>
       PROVE  RefInv'
  <2>1. JobRecorded'
    BY <1>22 DEF RefInv, JobRecorded, Submitted
  <2>2. TypeOK'
    BY <1>22, <1>t DEF RefInv, TypeOK, Fault, PC
  <2> QED
    BY <1>22, <2>1, <2>2 DEF RefInv
<1>23. ASSUME NEW s \in Spaces, HasJob(s), RecoverJob \/ WaitForJob, pc # "idle",
              UNCHANGED <<spec, cache, sts, pods, pvcs, hosts, spaces, parts, want, old,
                          ready, listed, targets, patches>>
       PROVE  RefInv'
  <2>0. parts \in [Ordinals -> SUBSET Spaces]
    BY DEF RefInv, TypeOK
  <2>1. CASE WaitForJob
    BY <2>0, <2>1, <1>22, <1>23, <1>t DEF WaitForJob
  <2>2. CASE RecoverJob
    <3>1. nc.job.id \in 1 .. Len(jobs)
      BY <1>23 DEF HasJob, RefInv, JobRecorded, Submitted
    <3>2. /\ jobs' \in Seq(JobType) /\ Len(jobs') = Len(jobs)
          /\ \A k \in 1 .. Len(jobs) : jobs'[k].space = jobs[k].space
      <4>1. "running" \in JobState /\ jobs' = [jobs EXCEPT ![nc.job.id].state = "running"]
        BY <2>2 DEF RecoverJob, JobState
      <4> QED
        BY <3>1, <4>1, <1>t, JobStateType
    <3> QED
      BY <2>0, <2>2, <3>2, <1>22, <1>23 DEF RecoverJob
  <2> QED
    BY <1>23, <2>1, <2>2
<1>24. ASSUME NEW copy \in StatusType, copy.job \in {nc.job, NoJob}, NEW next \in PC,
              Save(copy, next), UNCHANGED jobs, pc # "idle",
              UNCHANGED <<spec, cache, sts, pods, pvcs, hosts, spaces, parts, want, old,
                          ready, listed, targets, patches>>
       PROVE  RefInv'
  <2>1. /\ nc' \in StatusType /\ nc'.job \in {nc.job, NoJob} /\ status' \in {status, nc'}
        /\ pc' \in PC
        /\ UNCHANGED faults \/ Fault
    BY <1>24 DEF Save, PC
  <2> QED
    BY <1>24, <2>1, <1>k DEF RefInv, TypeOK
<1>25. CASE ScaleOutBalance
  <2>1. /\ pc # "idle" /\ {"balance", "workload"} \subseteq PC
        /\ UNCHANGED <<spec, cache, sts, pods, pvcs, hosts, spaces, parts, want, old,
                       ready, listed, targets, patches>>
    BY <1>25 DEF ScaleOutBalance, PC
  <2>2. \/ \E s \in Spaces : BalanceSpace(s)
        \/ Save(ScaledOut(nc), "workload") /\ UNCHANGED jobs
    BY <1>25 DEF ScaleOutBalance, RefInv, TypeOK
  <2>3. ASSUME NEW s \in Spaces, BalanceSpace(s) PROVE RefInv'
    <3>1. \/ Save(WithBalanced(nc, s), "balance") /\ UNCHANGED jobs
          \/ HasJob(s) /\ (RecoverJob \/ WaitForJob)
          \/ SubmitJob(s, {})
      BY <2>3 DEF BalanceSpace
    <3>2. CASE Save(WithBalanced(nc, s), "balance") /\ UNCHANGED jobs
      BY <2>1, <3>2, <1>b, <1>24
    <3>3. CASE HasJob(s) /\ (RecoverJob \/ WaitForJob)
      BY <2>1, <3>3, <1>23
    <3>4. CASE SubmitJob(s, {})
      BY <2>1, <3>4, <1>21
    <3> QED
      BY <3>1, <3>2, <3>3, <3>4
  <2>4. CASE Save(ScaledOut(nc), "workload") /\ UNCHANGED jobs
    BY <2>1, <2>4, <1>a, <1>24
  <2> QED
    BY <2>2, <2>3, <2>4
<1>26. CASE ScaleInRemove
  <2>1. /\ pc # "idle" /\ "remove" \in PC /\ "drop" \in PC
        /\ UNCHANGED <<spec, cache, sts, pods, pvcs, hosts, spaces, parts, want, old,
                       ready, listed, targets, patches>>
    BY <1>26 DEF ScaleInRemove, PC
  <2>2. \/ \E s \in Spaces : RemoveHost(s)
        \/ pc' = "drop" /\ UNCHANGED <<jobs, nc, status, faults>>
    BY <1>26 DEF ScaleInRemove, RefInv, TypeOK
  <2>3. ASSUME NEW s \in Spaces, RemoveHost(s) PROVE RefInv'
    <3>1. \/ Save(WithRemoved(nc, s), "remove") /\ UNCHANGED jobs
          \/ HasJob(s) /\ (RecoverJob \/ WaitForJob)
          \/ SubmitJob(s, targets)
      BY <2>3 DEF RemoveHost
    <3>2. CASE Save(WithRemoved(nc, s), "remove") /\ UNCHANGED jobs
      BY <2>1, <3>2, <1>b, <1>24
    <3>3. CASE HasJob(s) /\ (RecoverJob \/ WaitForJob)
      BY <2>1, <3>3, <1>23
    <3>4. CASE SubmitJob(s, targets)
      <4>1. targets \in SUBSET Ordinals
        BY DEF RefInv, TypeOK
      <4> QED
        BY <2>1, <3>4, <4>1, <1>21
    <3> QED
      BY <3>1, <3>2, <3>3, <3>4
  <2>4. CASE pc' = "drop" /\ UNCHANGED <<jobs, nc, status, faults>>
    BY <2>1, <2>4, <1>t DEF RefInv, TypeOK, JobRecorded, Submitted
  <2> QED
    BY <2>2, <2>3, <2>4
<1>27. ASSUME NEW j \in 1 .. Len(jobs), FinishJob(j) \/ FailJob(j) PROVE RefInv'
  <2>1. PICK st \in JobState : jobs' = [jobs EXCEPT ![j].state = st]
    BY <1>27 DEF FinishJob, FailJob, JobState
  <2>2. /\ jobs' \in Seq(JobType) /\ Len(jobs') = Len(jobs)
        /\ \A k \in 1 .. Len(jobs) : jobs'[k].space = jobs[k].space
    BY <2>1, <1>t, JobStateType
  <2>3. jobs[j].space \in Spaces
    <3>1. jobs[j] \in JobType
      BY <1>t, ElementOfSeq
    <3> QED
      BY <3>1 DEF JobType
  <2>4. parts' \in [Ordinals -> SUBSET Spaces]
    <3>1. CASE FinishJob(j)
      <4>1. parts' = [o \in Ordinals |-> parts'[o]] /\ \A o \in Ordinals :
              parts'[o] \subseteq parts[o] \cup {jobs[j].space}
        BY <3>1 DEF FinishJob
      <4> QED
        BY <2>3, <4>1 DEF RefInv, TypeOK
    <3>2. CASE FailJob(j)
      BY <3>2 DEF FailJob, RefInv, TypeOK
    <3> QED
      BY <1>27, <3>1, <3>2
  <2>5. /\ UNCHANGED <<spec, status, cache, sts, pods, pvcs, hosts, spaces, nc, want, old,
                       ready, listed, targets, patches, pc>>
        /\ UNCHANGED faults \/ Fault
    BY <1>27 DEF FinishJob, FailJob
  <2> QED
    BY <2>2, <2>4, <2>5, <1>22
<1>28. CASE UNCHANGED vars
  BY <1>28, <1>t DEF vars, RefInv, TypeOK, JobRecorded, Submitted
<1> QED
  BY <1>1, <1>2, <1>3, <1>4, <1>5, <1>6, <1>7, <1>8, <1>9, <1>10, <1>11, <1>12, <1>13,
     <1>14, <1>15, <1>16, <1>17, <1>18, <1>19, <1>20, <1>25, <1>26, <1>27, <1>28
  DEF Next, Reconcile

\* The model is well typed: every variable stays in its type, whatever fails
THEOREM TypeCorrect == Spec => []TypeOK
<1>1. RefInv => TypeOK
  BY DEF RefInv
<1> QED
  BY <1>1, RefInvInit, RefInvNext, PTL DEF Spec

\* JobRecorded holds for any number of replicas, spaces, changes and faults: a
\* recorded job (LastBalanceJob) is always one that metad was given for that
\* space, so BalanceStatus never asks about a foreign job
THEOREM JobsRecorded == Spec => []JobRecorded
<1>1. RefInv => JobRecorded
  BY DEF RefInv
<1> QED
  BY <1>1, RefInvInit, RefInvNext, PTL DEF Spec

---------------------------------------------------------------------------
LEMMA DropInvNext == RefInv /\ DropInv /\ [Next]_vars => DropInv'
<1> SUFFICES ASSUME RefInv, DropInv, [Next]_vars PROVE DropInv'
  OBVIOUS
<1> USE DEF local, metad, kube, api
<1>t. want \in Int /\ old \in Int
  BY ReplicasAssumption DEF RefInv, TypeOK
<1>1. CASE StartReconcile
  BY <1>1 DEF StartReconcile, DropInv
<1>2. CASE AddStorageHosts
  BY <1>2 DEF AddStorageHosts, DropInv
<1>3. CASE Scale
  <2>1. /\ UNCHANGED <<want, old, sts, targets, hosts>>
        /\ \/ pc' \in {"in", "end"}
           \/ pc' = "out" /\ ~(want < old)
           \/ pc' = "workload" /\ want = old
        /\ pc = "scale"
    BY <1>3 DEF Scale, Save
  <2> QED
    BY <2>1, <1>t DEF DropInv
<1>4. CASE ScaleOut \/ ScaleOutBalance
  <2>1. /\ UNCHANGED <<want, old, sts, targets, hosts>>
        /\ pc \in {"out", "balance"} /\ pc' \in {"balance", "workload", "job", "end"}
    BY <1>4 DEF ScaleOut, ScaleOutBalance, BalanceSpace, Save, SubmitJob, RecoverJob, WaitForJob
  <2> QED
    BY <2>1, <1>t DEF DropInv
<1>5. CASE ScaleIn
  BY <1>5, <1>t DEF ScaleIn, DropInv
<1>6. CASE ScaleInRemove
  <2>1. /\ UNCHANGED <<want, old, sts, targets, hosts>>
        /\ pc = "remove" /\ pc' \in {"remove", "drop", "job", "end"}
    BY <1>6 DEF ScaleInRemove, RemoveHost, Save, SubmitJob, RecoverJob, WaitForJob
  <2> QED
    BY <2>1 DEF DropInv
<1>7. CASE DropHosts
  BY <1>7 DEF DropHosts, DropInv
<1>8. CASE BalanceLeaders \/ PVCMark \/ ScaleInDone
  <2>1. /\ UNCHANGED <<want, old, sts, targets, hosts>>
        /\ pc \in {"leader", "mark", "scaledIn"}
        /\ pc' \in {"leader", "mark", "scaledIn", "workload", "end"}
    BY <1>8 DEF BalanceLeaders, PVCMark, ScaleInDone, Save
  <2> QED
    BY <2>1 DEF DropInv
<1>9. CASE UpdateWorkload \/ ReclaimPV \/ DeletePVC \/ EndReconcile \/ SaveJob
           \/ CallFails \/ Crash
  <2>1. pc' \in {"idle", "reclaim", "delete", "end"}
    BY <1>9 DEF UpdateWorkload, ReclaimPV, DeletePVC, EndReconcile, SaveJob, CallFails,
                Crash, Forget
  <2> QED
    BY <2>1 DEF DropInv
<1>10. ASSUME UNCHANGED <<pc, want, old, sts, targets, hosts>> PROVE DropInv'
  BY <1>10 DEF DropInv
<1>11. ASSUME NEW n \in Replicas, PatchReplicas(n) PROVE DropInv'
  BY <1>10, <1>11 DEF PatchReplicas
<1>12. ASSUME NEW s \in Spaces, CreateSpace(s) PROVE DropInv'
  BY <1>10, <1>12 DEF CreateSpace
<1>13. CASE CacheSync
  BY <1>10, <1>13 DEF CacheSync
<1>14. ASSUME NEW o \in Ordinals,
              PodStart(o) \/ PodReady(o) \/ PodStop(o) \/ PodFail(o)
       PROVE  DropInv'
  BY <1>10, <1>14 DEF PodStart, PodReady, PodStop, PodFail, PodGone
<1>15. ASSUME NEW j \in 1 .. Len(jobs), FinishJob(j) \/ FailJob(j) PROVE DropInv'
  BY <1>10, <1>15 DEF FinishJob, FailJob
<1>16. CASE UNCHANGED vars
  BY <1>10, <1>16 DEF vars
<1> QED
  BY <1>1, <1>2, <1>3, <1>4, <1>5, <1>6, <1>7, <1>8, <1>9, <1>11, <1>12, <1>13, <1>14,
     <1>15, <1>16
  DEF Next, Reconcile

\* Only UpdateWorkload writes the StatefulSet's replicas
LEMMA OnlyUpdateWorkload == [Next]_vars => UpdateWorkload \/ sts' = sts
<1> SUFFICES ASSUME [Next]_vars PROVE UpdateWorkload \/ sts' = sts
  OBVIOUS
<1> USE DEF local, metad, kube, api
<1>1. CASE Reconcile
  BY <1>1 DEF Reconcile, StartReconcile, AddStorageHosts, Scale, SaveJob, ScaleOut,
     ScaleOutBalance, ScaleIn, ScaleInRemove, DropHosts, BalanceLeaders, PVCMark,
     ScaleInDone, ReclaimPV, DeletePVC, EndReconcile
<1>2. CASE CallFails \/ Crash \/ CacheSync
  BY <1>2 DEF CallFails, Crash, CacheSync
<1>3. ASSUME NEW n \in Replicas, PatchReplicas(n) PROVE sts' = sts
  BY <1>3 DEF PatchReplicas
<1>4. ASSUME NEW s \in Spaces, CreateSpace(s) PROVE sts' = sts
  BY <1>4 DEF CreateSpace
<1>5. ASSUME NEW o \in Ordinals,
             PodStart(o) \/ PodReady(o) \/ PodStop(o) \/ PodFail(o)
      PROVE  sts' = sts
  BY <1>5 DEF PodStart, PodReady, PodStop, PodFail, PodGone
<1>6. ASSUME NEW j \in 1 .. Len(jobs), FinishJob(j) \/ FailJob(j) PROVE sts' = sts
  BY <1>6 DEF FinishJob, FailJob
<1>7. CASE UNCHANGED vars
  BY <1>7 DEF vars
<1> QED
  BY <1>1, <1>2, <1>3, <1>4, <1>5, <1>6, <1>7 DEF Next

\* ShrinkAfterDrop for every instance, without any assumption about the user,
\* the cache, the pods or failures: no order of steps removes a replica from
\* the StatefulSet while a host the pass was to drop is still registered
THEOREM ShrinksAfterDrop == Spec => ShrinkAfterDrop
<1>1. Init => DropInv
  BY DEF Init, DropInv
<1>2. RefInv /\ DropInv /\ [Next]_vars => [sts' < sts => targets \cap hosts = {}]_vars
  <2> SUFFICES ASSUME RefInv, DropInv, [Next]_vars, sts' < sts
               PROVE  targets \cap hosts = {}
    OBVIOUS
  <2>1. sts \in Int
    BY DEF RefInv, TypeOK, Replicas
  <2>2. UpdateWorkload
    BY <2>1, OnlyUpdateWorkload
  <2>3. pc = "workload" /\ want < old
    BY <2>1, <2>2 DEF UpdateWorkload, DropInv
  <2> QED
    BY <2>3 DEF DropInv
<1> QED
  BY <1>1, <1>2, RefInvInit, RefInvNext, DropInvNext, PTL DEF Spec, ShrinkAfterDrop

-----------------------------------------------------------------------------
(* A careful scale-in loses no data, for any number of ordinals, spaces,   *)
(* jobs and failures: CarefulInv is inductive, and DropSafe and ShrinkSafe *)
(* follow from it.                                                         *)

LateSteps == {"drop", "leader", "mark", "scaledIn", "workload"}

\* Without surplus replicas, nothing is left to be emptied
LEMMA NoSurplus ==
    ASSUME Surplus = {}
    PROVE  (\A s : Emptied(s)) /\ (\A j : GoodJob(j))
  BY DEF Emptied, GoodJob, Covers

LEMMA NoSurplusNext ==
    ASSUME Surplus' = {}
    PROVE  (\A s : Emptied(s)') /\ (\A j : GoodJob(j)')
  BY DEF Emptied, GoodJob, Covers

\* Nobody asks for fewer replicas than there are
LEMMA SurplusEmpty ==
    ASSUME spec \in Int, sts \in Int, spec >= sts
    PROVE  Surplus = {}
  BY DEF Surplus

\* Steps that leave replicas, partitions and jobs alone
LEMMA EmptiedFrame ==
    ASSUME UNCHANGED <<spec, sts, parts, jobs>>
    PROVE  /\ Surplus' = Surplus
           /\ \A s : Emptied(s)' <=> Emptied(s)
           /\ \A j : GoodJob(j)' <=> GoodJob(j)
  BY DEF Emptied, GoodJob, Covers, Surplus

\* RecordInv after a step of the pass that changes its copy of the status, or
\* writes it, but neither replicas nor metad
LEMMA RecordFrame ==
    ASSUME RecordInv,
           UNCHANGED <<spec, sts, parts, jobs, spaces>>,
           nc'.job \in {nc.job, status.job, NoJob},
           \A s \in nc'.removed : Emptied(s),
           status' = status \/ status' = nc \/ status' = nc',
           pc' \in LateSteps /\ want' = spec => \A s \in spaces : Emptied(s)
    PROVE  RecordInv'
<1>1. /\ \A s : Emptied(s)' <=> Emptied(s)
      /\ \A j : GoodJob(j)' <=> GoodJob(j)
  BY EmptiedFrame
<1>2. nc'.job # NoJob => GoodJob(nc'.job.id)
  BY DEF RecordInv
<1>3. status'.job # NoJob => GoodJob(status'.job.id)
  BY <1>2 DEF RecordInv
<1>4. \A s \in status'.removed \cup nc'.removed : Emptied(s)
  BY DEF RecordInv
<1> QED
  BY <1>1, <1>2, <1>3, <1>4 DEF RecordInv, LateSteps

\* SavedInv after a step of the scaler
LEMMA SavedStep ==
    ASSUME SavedInv, pc \in Scaling, pc' \notin {"hosts", "scale"},
           status' \in {status, nc'}, pc' \in Scaling => nc'.phase = nc.phase
    PROVE  SavedInv'
  BY DEF SavedInv

\* SavedInv is inductive when passes read the status from the API server
LEMMA SavedInvNext ==
    ASSUME ~CacheLag, RefInv, SavedInv, [Next]_vars
    PROVE  SavedInv'
<1> USE DEF local
<1>t. /\ nc \in StatusType /\ status \in StatusType
      /\ listed \subseteq Spaces /\ jobs \in Seq(JobType) /\ Len(jobs) + 1 \in Nat \ {0}
      /\ {"Running", "ScaleIn", "ScaleOut"} \subseteq Phases
  BY LenProperties DEF RefInv, TypeOK, Phases
<1>u. /\ \A s \in Spaces : WithBalanced(nc, s).phase = nc.phase
      /\ \A s \in Spaces : WithRemoved(nc, s).phase = nc.phase
      /\ \A s \in Spaces : WithJob(nc, s, Len(jobs) + 1).phase = nc.phase
  BY <1>t DEF StatusType, WithBalanced, WithRemoved, WithJob
<1>1. CASE StartReconcile
  <2>1. PICK seen \in {Api, cache} :
           /\ seen = Api
           /\ nc' = IF seen.status.phase = "" THEN InPhase(seen.status, "Running")
                                              ELSE seen.status
    BY <1>1 DEF StartReconcile
  <2>2. nc' = IF status.phase = "" THEN InPhase(status, "Running") ELSE status
    BY <2>1 DEF Api
  <2>3. pc' = "hosts" /\ status' = status
    BY <1>1 DEF StartReconcile, api
  <2> QED
    BY <1>t, <2>2, <2>3, StatusUpdates DEF SavedInv, Scaling
<1>2. CASE AddStorageHosts
  <2>1. pc = "hosts" /\ pc' = "scale" /\ status' = status /\ nc' = WithHosts(nc)
    BY <1>2 DEF AddStorageHosts, api
  <2> QED
    BY <1>t, <2>1, StatusUpdates DEF SavedInv, Scaling
<1>3. CASE Scale
  <2>1. /\ pc = "scale"
        /\ \/ /\ nc' = InPhase(nc, "ScaleIn") \/ nc' = InPhase(nc, "ScaleOut")
              /\ (status' = nc' /\ pc' \in {"in", "out"}) \/ (status' = status /\ pc' = "end")
           \/ pc' = "workload" /\ nc' = nc /\ status' = status
    BY <1>3 DEF Scale, Save
  <2>2. \A p \in Phases :
           /\ InPhase(nc, p).phase = p /\ InPhase(nc, p).job = nc.job
           /\ InPhase(nc, p).removed = nc.removed
    BY <1>t DEF StatusType, InPhase
  <2>3. /\ pc' # "workload" => nc'.phase \in {"ScaleIn", "ScaleOut"}
        /\ nc'.job = nc.job /\ nc'.removed = nc.removed
    BY <1>t, <2>1, <2>2
  <2> QED
    BY <2>1, <2>3 DEF SavedInv, Scaling
<1>4. CASE SaveJob \/ ScaleOut \/ ScaleIn \/ DropHosts \/ PVCMark
  <2>1. /\ pc \in {"job", "out", "in", "drop", "mark"}
        /\ pc' \in {"end", "balance", "workload", "remove", "leader", "scaledIn"}
        /\ status' = status \/ (nc' = nc /\ status' = nc)
        /\ nc' = nc \/ pc' = "workload"
    BY <1>4 DEF SaveJob, ScaleOut, ScaleIn, DropHosts, PVCMark, api
  <2> QED
    BY <2>1, SavedStep DEF Scaling
<1>5. CASE ScaleOutBalance
  <2>1. /\ pc = "balance" /\ pc' \in {"job", "end", "balance", "workload"}
        /\ status' \in {status, nc'}
        /\ \/ nc' = nc \/ pc' \in {"workload", "end"}
           \/ \E s \in listed : nc' = WithBalanced(nc, s)
           \/ \E s \in listed : nc' = WithJob(nc, s, Len(jobs) + 1)
    BY <1>5 DEF ScaleOutBalance, BalanceSpace, SubmitJob, RecoverJob, WaitForJob, Save
  <2>2. nc'.phase = nc.phase \/ pc' \in {"workload", "end"}
    BY <1>t, <1>u, <2>1
  <2> QED
    BY <2>1, <2>2, SavedStep DEF Scaling
<1>6. CASE ScaleInRemove \/ BalanceLeaders \/ ScaleInDone
  <2>1. /\ pc \in {"remove", "leader", "scaledIn"}
        /\ pc' \in {"job", "end", "remove", "drop", "leader", "mark", "workload"}
        /\ status' \in {status, nc'}
        /\ \/ nc' = nc \/ pc' \in {"workload", "end"}
           \/ \E s \in listed : nc' \in {WithRemoved(nc, s), WithBalanced(nc, s)}
           \/ \E s \in listed : nc' = WithJob(nc, s, Len(jobs) + 1)
    BY <1>6 DEF ScaleInRemove, RemoveHost, SubmitJob, RecoverJob, WaitForJob, Save,
       BalanceLeaders, ScaleInDone
  <2>2. nc'.phase = nc.phase \/ pc' \in {"workload", "end"}
    BY <1>t, <1>u, <2>1
  <2> QED
    BY <2>1, <2>2, SavedStep DEF Scaling
<1>7. CASE UpdateWorkload \/ ReclaimPV \/ DeletePVC \/ CallFails
  <2>1. pc # "idle" /\ pc' \in {"reclaim", "delete", "end"} /\ UNCHANGED <<nc, status>>
    BY <1>7 DEF UpdateWorkload, ReclaimPV, DeletePVC, CallFails, api
  <2> QED
    BY <2>1 DEF SavedInv, Scaling
<1>8. CASE EndReconcile \/ Crash
  <2>1. pc' = "idle"
    BY <1>8 DEF EndReconcile, Crash, Forget
  <2> QED
    BY <2>1 DEF SavedInv, Scaling
<1>9. ASSUME UNCHANGED <<pc, nc, status>> PROVE SavedInv'
  BY <1>9 DEF SavedInv
<1>10. ASSUME NEW n \in Replicas, PatchReplicas(n) PROVE SavedInv'
  BY <1>9, <1>10 DEF PatchReplicas
<1>11. ASSUME NEW s \in Spaces, CreateSpace(s) PROVE SavedInv'
  BY <1>9, <1>11 DEF CreateSpace, api
<1>12. CASE CacheSync \/ UNCHANGED vars
  BY <1>9, <1>12 DEF CacheSync, vars
<1>13. ASSUME NEW o \in Ordinals,
              PodStart(o) \/ PodReady(o) \/ PodStop(o) \/ PodFail(o)
       PROVE  SavedInv'
  BY <1>9, <1>13 DEF PodStart, PodReady, PodStop, PodFail, PodGone, api
<1>14. ASSUME NEW j \in 1 .. Len(jobs), FinishJob(j) \/ FailJob(j) PROVE SavedInv'
  BY <1>9, <1>14 DEF FinishJob, FailJob, api
<1> QED
  BY <1>1, <1>2, <1>3, <1>4, <1>5, <1>6, <1>7, <1>8, <1>10, <1>11, <1>12, <1>13, <1>14
  DEF Next, Reconcile

\* A pass that scales works on the replicas the user asks for
LEMMA CurrentPass ==
    ASSUME CarefulInv, pc \in Scaling
    PROVE  want = spec
  BY DEF CarefulInv, PassInv, Outdated, Scaling, Quiet

LEMMA CarefulInvInit == Init => CarefulInv
<1> SUFFICES ASSUME Init PROVE CarefulInv
  OBVIOUS
<1>1. RefInv
  BY RefInvInit
<1>2. Surplus = {}
  BY DEF Init, Surplus, Replicas
<1>3. PassInv /\ DropInv /\ SavedInv
  BY <1>2 DEF Init, PassInv, DropInv, SavedInv, Scaling
<1>4. Len(jobs) = 0
  BY DEF Init
<1>5. SpaceInv
  BY <1>4 DEF Init, SpaceInv
<1>6. RecordInv
  BY NewStatusType DEF Init, RecordInv
<1> QED
  BY <1>1, <1>3, <1>5, <1>6 DEF CarefulInv

---------------------------------------------------------------------------
\* The pass: StartReconcile to UpdateWorkload, without the jobs
LEMMA CarefulPass ==
    ASSUME Careful, CarefulInv, RefInv', DropInv', SavedInv',
           \/ StartReconcile \/ AddStorageHosts \/ Scale \/ SaveJob \/ ScaleOut \/ ScaleIn
           \/ DropHosts \/ BalanceLeaders \/ PVCMark \/ ScaleInDone
           \/ ReclaimPV \/ DeletePVC \/ EndReconcile \/ CallFails \/ Crash
    PROVE  CarefulInv'
<1> USE DEF local, metad, kube, api
<1>t. /\ spec \in Int /\ sts \in Int /\ want \in Int /\ old \in Int
      /\ nc \in StatusType /\ status \in StatusType /\ listed \subseteq Spaces
  BY ReplicasAssumption DEF CarefulInv, RefInv, TypeOK, Replicas
<1>i. DropInv /\ PassInv /\ SpaceInv /\ RecordInv /\ RefInv /\ SavedInv
  BY DEF CarefulInv
<1>c. pc \in Scaling => want = spec
  BY CurrentPass
<1>u. UNCHANGED <<spec, sts, parts, jobs, spaces>>
  BY DEF StartReconcile, AddStorageHosts, Scale, SaveJob, ScaleOut, ScaleIn,
     DropHosts, BalanceLeaders, PVCMark, ScaleInDone, ReclaimPV, DeletePVC, EndReconcile,
     CallFails, Crash
<1>e. Surplus' = Surplus /\ (want >= old /\ want = spec /\ old = sts => \A s : Emptied(s))
  BY <1>u, <1>t, EmptiedFrame, SurplusEmpty, NoSurplus
<1>s. SpaceInv'
  BY <1>i, <1>u DEF SpaceInv
<1>p. UNCHANGED pods
  BY DEF StartReconcile, AddStorageHosts, Scale, SaveJob, ScaleOut, ScaleIn,
     DropHosts, BalanceLeaders, PVCMark, ScaleInDone, ReclaimPV, DeletePVC, EndReconcile,
     CallFails, Crash
<1>1. CASE StartReconcile
  <2>1. PICK seen \in {Api, cache} :
           /\ seen = Api
           /\ want' = seen.spec
           /\ nc' = IF seen.status.phase = "" THEN InPhase(seen.status, "Running")
                                              ELSE seen.status
    BY <1>1 DEF StartReconcile, Careful
  <2>2. want' = spec /\ nc'.job = status.job /\ nc'.removed = status.removed
    BY <2>1, <1>t, StatusUpdates DEF Api, Phases
  <2>3. pc' = "hosts" /\ status' = status
    BY <1>1 DEF StartReconcile
  <2>4. PassInv'
    BY <1>i, <1>e, <1>p, <1>u, <2>2, <2>3 DEF PassInv
  <2>5. RecordInv'
    BY <1>i, <1>u, <2>2, <2>3, RecordFrame DEF RecordInv, LateSteps
  <2> QED
    BY <1>s, <2>4, <2>5 DEF CarefulInv
<1>2. CASE AddStorageHosts
  <2>1. /\ pc' = "scale" /\ pc = "hosts" /\ UNCHANGED <<status, want, old>>
        /\ nc'.job = nc.job /\ nc'.removed = nc.removed
    BY <1>2, <1>t, StatusUpdates DEF AddStorageHosts
  <2>2. PassInv'
    BY <1>i, <1>e, <1>p, <1>u, <2>1 DEF PassInv, Outdated, Quiet
  <2>3. RecordInv'
    BY <1>i, <1>u, <2>1, RecordFrame DEF RecordInv, LateSteps
  <2> QED
    BY <1>s, <2>2, <2>3 DEF CarefulInv
<1>3. CASE Scale
  <2>a. /\ InPhase(nc, "ScaleIn").job = nc.job /\ InPhase(nc, "ScaleIn").removed = nc.removed
        /\ InPhase(nc, "ScaleOut").job = nc.job /\ InPhase(nc, "ScaleOut").removed = nc.removed
    BY <1>t, StatusUpdates DEF Phases
  <2>1. /\ pc = "scale" /\ UNCHANGED <<want, old, listed, targets>>
        /\ status' \in {status, nc'}
        /\ nc'.job = nc.job /\ nc'.removed = nc.removed
        /\ \/ pc' \in {"in", "out", "end"} /\ (want # old \/ nc.phase \in {"ScaleIn", "ScaleOut"})
           \/ pc' = "workload" /\ want = old /\ status' = status
    BY <1>3, <1>t, <2>a DEF Scale, Save
  <2>2. old = sts
    BY <1>i, <2>1 DEF DropInv
  <2>3. want = spec \/ (Outdated /\ pc' = "workload")
    BY <1>i, <2>1, <2>2 DEF PassInv, SavedInv, Outdated
  <2>4. PassInv'
    BY <1>t, <1>i, <1>e, <1>p, <1>u, <2>1, <2>3 DEF PassInv, Outdated, Quiet
  <2>5. pc' = "workload" /\ want = spec => \A s : Emptied(s)
    BY <1>t, <1>e, <2>1, <2>2
  <2>6. RecordInv'
    BY <1>i, <1>u, <2>1, <2>5, RecordFrame DEF RecordInv, LateSteps
  <2> QED
    BY <1>s, <2>4, <2>6 DEF CarefulInv
<1>4. CASE ScaleOut
  <2>1. /\ pc = "out" /\ UNCHANGED <<status, want, old, targets>>
        /\ nc'.job = nc.job /\ nc'.removed = nc.removed
        /\ \/ pc' = "balance" /\ listed' = spaces
           \/ pc' = "workload"
    <3>1. /\ InPhase(nc, "Running").job = nc.job
          /\ InPhase(nc, "Running").removed = nc.removed
      BY <1>t, StatusUpdates DEF Phases
    <3> QED
      BY <1>4, <3>1 DEF ScaleOut
  <2>2. want = spec /\ old = sts /\ want >= old
    BY <1>i, <1>c, <2>1 DEF DropInv, Scaling
  <2>3. PassInv'
    BY <1>t, <1>i, <1>e, <1>p, <1>u, <2>1, <2>2 DEF PassInv
  <2>4. RecordInv'
    BY <1>i, <1>u, <1>e, <2>1, <2>2, RecordFrame DEF RecordInv, LateSteps
  <2> QED
    BY <1>s, <2>3, <2>4 DEF CarefulInv
<1>5. CASE ScaleIn
  <2>1. /\ pc = "in" /\ UNCHANGED <<status, want, old, nc>> /\ listed' = spaces
        /\ \/ /\ old > want /\ pc' = "remove"
              /\ targets' = {o \in want .. old - 1 : pods[o] \in {"running", "ready"}}
           \/ ~(old > want) /\ pc' = "leader"
    BY <1>5 DEF ScaleIn
  <2>2. want = spec /\ old = sts
    BY <1>i, <1>c, <2>1 DEF DropInv, Scaling
  <2>3. old > want => targets' = Surplus
    BY <1>i, <2>1, <2>2 DEF PassInv, Surplus
  <2>4. PassInv'
    BY <1>t, <1>i, <1>e, <1>p, <1>u, <2>1, <2>2, <2>3 DEF PassInv
  <2>5. pc' = "leader" => \A s : Emptied(s)
    BY <1>t, <1>e, <2>1, <2>2
  <2>6. RecordInv'
    BY <1>i, <1>u, <2>1, <2>5, RecordFrame DEF RecordInv, LateSteps
  <2> QED
    BY <1>s, <2>4, <2>6 DEF CarefulInv
<1>6. CASE DropHosts \/ PVCMark
  <2>1. /\ pc \in {"drop", "mark"} /\ pc' \in {"leader", "scaledIn"}
        /\ UNCHANGED <<status, want, old, nc, targets>>
    BY <1>6 DEF DropHosts, PVCMark
  <2>2. PassInv'
    BY <1>i, <1>c, <1>e, <1>p, <1>u, <2>1 DEF PassInv, Scaling
  <2>3. RecordInv'
    BY <1>i, <1>u, <2>1, RecordFrame DEF RecordInv, LateSteps
  <2> QED
    BY <1>s, <2>2, <2>3 DEF CarefulInv
<1>7. CASE BalanceLeaders \/ ScaleInDone
  <2>1. /\ pc \in {"leader", "scaledIn"} /\ pc' \in {"leader", "mark", "workload", "end"}
        /\ UNCHANGED <<want, old, targets>> /\ status' \in {status, nc'}
        /\ nc'.job \in {nc.job, NoJob} /\ nc'.removed \in {nc.removed, {}}
    <3>1. \A s \in Spaces : /\ WithBalanced(nc, s).job = nc.job
                            /\ WithBalanced(nc, s).removed = nc.removed
      BY <1>t, SpaceUpdates
    <3>2. CASE BalanceLeaders
      BY <1>t, <3>1, <3>2 DEF BalanceLeaders, Save
    <3>3. CASE ScaleInDone
      BY <1>t, StatusUpdates, <3>3 DEF ScaleInDone, Save
    <3> QED
      BY <1>7, <3>2, <3>3
  <2>2. PassInv'
    BY <1>i, <1>c, <1>e, <1>p, <1>u, <2>1 DEF PassInv, Scaling
  <2>3. RecordInv'
    BY <1>i, <1>u, <2>1, RecordFrame DEF RecordInv, LateSteps
  <2> QED
    BY <1>s, <2>2, <2>3 DEF CarefulInv
<1>8. CASE SaveJob \/ ReclaimPV \/ DeletePVC \/ CallFails
  <2>1. /\ pc # "idle" /\ pc' \in {"delete", "end"}
        /\ UNCHANGED <<want, old, nc>> /\ status' \in {status, nc}
        /\ pc = "job" \/ status' = status
    BY <1>8 DEF SaveJob, ReclaimPV, DeletePVC, CallFails, api
  <2>2. PassInv'
    BY <1>i, <1>c, <1>e, <1>p, <1>u, <2>1 DEF PassInv, Outdated, Quiet, Scaling
  <2>3. RecordInv'
    BY <1>i, <1>u, <2>1, RecordFrame DEF RecordInv, LateSteps
  <2> QED
    BY <1>s, <2>2, <2>3 DEF CarefulInv
<1>9. CASE EndReconcile \/ Crash
  <2>1. pc' = "idle" /\ nc' = NewStatus /\ status' \in {status, nc}
    BY <1>9 DEF EndReconcile, Crash, Forget
  <2>2. PassInv'
    BY <1>i, <1>e, <1>p, <1>u, <2>1 DEF PassInv
  <2>3. RecordInv'
    BY <1>i, <1>u, <2>1, RecordFrame, NewStatusType DEF RecordInv, LateSteps
  <2> QED
    BY <1>s, <2>2, <2>3 DEF CarefulInv
<1> QED
  BY <1>1, <1>2, <1>3, <1>4, <1>5, <1>6, <1>7, <1>8, <1>9

---------------------------------------------------------------------------
\* The jobs that a pass submits and recovers

\* A new job that takes its space from the surplus replicas spoils nothing
LEMMA CarefulSubmit ==
    ASSUME CarefulInv, NEW s \in spaces, NEW H \in SUBSET Ordinals, SubmitJob(s, H),
           Surplus \subseteq H, UNCHANGED <<spec, sts, parts>>,
           NEW n, n = Len(jobs) + 1
    PROVE  /\ \A t : Emptied(t) => Emptied(t)'
           /\ \A i \in 1 .. Len(jobs) : GoodJob(i) => GoodJob(i)'
           /\ GoodJob(n)'
           /\ nc' = nc \/ (nc'.job.id = n /\ nc'.removed = nc.removed)
           /\ \A j \in 1 .. Len(jobs') : jobs'[j].space \in spaces
<1>t. /\ jobs \in Seq(JobType) /\ Len(jobs) \in Nat /\ nc \in StatusType
      /\ s \in Spaces /\ n \in Nat \ {0}
  BY LenProperties DEF CarefulInv, RefInv, TypeOK
<1>1. /\ Len(jobs') = n
      /\ \A k \in 1 .. Len(jobs) : jobs'[k] = jobs[k]
      /\ jobs'[n].space = s
      /\ jobs'[n].hosts = H
      /\ jobs'[n].state = "running"
  BY <1>t, NewJob DEF SubmitJob
<1>2. Surplus' = Surplus
  BY DEF Surplus
<1>3. Covers(n)' /\ \A k \in 1 .. Len(jobs) : Covers(k)' <=> Covers(k)
  BY <1>1, <1>2 DEF Covers
<1>4. \A t : Emptied(t) => Emptied(t)'
  BY <1>t, <1>1, <1>2, <1>3 DEF Emptied
<1>5. \A i \in 1 .. Len(jobs) : GoodJob(i) => GoodJob(i)'
  BY <1>t, <1>1, <1>3, <1>4 DEF GoodJob
<1>6. GoodJob(n)'
  BY <1>t, <1>1, <1>3 DEF GoodJob
<1>7. nc' = nc \/ (nc'.job.id = n /\ nc'.removed = nc.removed)
  <2>1. nc' = nc \/ nc' = WithJob(nc, s, n)
    BY DEF SubmitJob
  <2> QED
    BY <1>t, <2>1, JobUpdate
<1>8. \A j \in 1 .. Len(jobs') : jobs'[j].space \in spaces
  BY <1>t, <1>1 DEF CarefulInv, SpaceInv
<1> QED
  BY <1>4, <1>5, <1>6, <1>7, <1>8

\* A job that changes its state without moving partitions spoils nothing, if
\* it takes its space from the surplus replicas when it is made to run
LEMMA CarefulJobState ==
    ASSUME CarefulInv, NEW j \in 1 .. Len(jobs), NEW st \in {"running", "failed"},
           jobs' = [jobs EXCEPT ![j].state = st], st = "running" => Covers(j),
           UNCHANGED <<spec, sts, parts>>
    PROVE  /\ \A t : Emptied(t) => Emptied(t)'
           /\ \A i \in 1 .. Len(jobs) : GoodJob(i) => GoodJob(i)'
           /\ \A i \in 1 .. Len(jobs') : jobs'[i].space \in spaces
<1>t. jobs \in Seq(JobType) /\ Len(jobs) \in Nat /\ st \in JobState
  BY LenProperties DEF CarefulInv, RefInv, TypeOK, JobState
<1>1. /\ Len(jobs') = Len(jobs)
      /\ \A k \in 1 .. Len(jobs) : /\ jobs'[k].space = jobs[k].space
                                   /\ jobs'[k].hosts = jobs[k].hosts
                                   /\ k # j => jobs'[k] = jobs[k]
      /\ jobs'[j].state = st
  BY <1>t, JobStateType
<1>2. Surplus' = Surplus
  BY DEF Surplus
<1>3. \A k \in 1 .. Len(jobs) : Covers(k)' <=> Covers(k)
  BY <1>1, <1>2 DEF Covers
<1>4. \A t : Emptied(t) => Emptied(t)'
  <2> SUFFICES ASSUME NEW t, Emptied(t) PROVE Emptied(t)'
    OBVIOUS
  <2>1. ASSUME NEW k \in 1 .. Len(jobs), jobs[k].space = t, jobs'[k].state = "running"
        PROVE  Covers(k)
    BY <1>1, <2>1 DEF Emptied
  <2> QED
    BY <1>1, <1>2, <1>3, <2>1 DEF Emptied
<1>5. \A i \in 1 .. Len(jobs) : GoodJob(i) => GoodJob(i)'
  <2> SUFFICES ASSUME NEW i \in 1 .. Len(jobs), GoodJob(i) PROVE GoodJob(i)'
    OBVIOUS
  <2>1. jobs'[i].state = "finished" => jobs[i].state = "finished"
    BY <1>1
  <2> QED
    BY <1>t, <1>1, <1>3, <1>4, <2>1 DEF GoodJob
<1>6. \A i \in 1 .. Len(jobs') : jobs'[i].space \in spaces
  BY <1>1 DEF CarefulInv, SpaceInv
<1> QED
  BY <1>4, <1>5, <1>6

\* A finished job empties the surplus replicas, when it is one that a scale-in
\* recorded, and never fills them again after they have been emptied
LEMMA CarefulFinish ==
    ASSUME CarefulInv, NEW j \in 1 .. Len(jobs), FinishJob(j)
    PROVE  /\ \A t : Emptied(t) => Emptied(t)'
           /\ \A i \in 1 .. Len(jobs) : GoodJob(i) => GoodJob(i)'
           /\ SpaceInv'
<1>t. /\ jobs \in Seq(JobType) /\ Len(jobs) \in Nat /\ "finished" \in JobState
      /\ parts \in [Ordinals -> SUBSET Spaces] /\ Surplus \subseteq Ordinals
      /\ spec \in Int /\ sts \in Int
  BY LenProperties, ReplicasAssumption
  DEF CarefulInv, RefInv, TypeOK, JobState, Surplus, Ordinals, Replicas
<1>1. /\ Len(jobs') = Len(jobs)
      /\ \A k \in 1 .. Len(jobs) : /\ jobs'[k].space = jobs[k].space
                                   /\ jobs'[k].hosts = jobs[k].hosts
                                   /\ k # j => jobs'[k] = jobs[k]
      /\ jobs'[j].state = "finished"
  BY <1>t, JobStateType DEF FinishJob
<1>2. Surplus' = Surplus
  BY DEF Surplus, FinishJob, api, kube
<1>3. \A k \in 1 .. Len(jobs) : Covers(k)' <=> Covers(k)
  BY <1>1, <1>2 DEF Covers
<1>4. /\ \A t : t # jobs[j].space =>
           \A o \in Ordinals : t \in parts'[o] <=> t \in parts[o]
      /\ \A o \in jobs[j].hosts \cap Ordinals : jobs[j].space \notin parts'[o]
      /\ \A o \in Ordinals : parts'[o] \subseteq parts[o] \cup {jobs[j].space}
  BY <1>t DEF FinishJob
<1>5. jobs[j].state = "running"
  BY DEF FinishJob, RunsNext
<1>6. \A k \in 1 .. Len(jobs) : jobs'[k].state = "running" =>
                                 jobs[k].state = "running" /\ k # j
  BY <1>1
<1>7. ASSUME NEW t, Emptied(t) PROVE Emptied(t)'
  <2>1. \A o \in Surplus : t \notin parts'[o]
    <3>1. CASE jobs[j].space = t
      <4>1. Surplus \subseteq jobs[j].hosts
        BY <1>5, <1>7, <3>1 DEF Emptied, Covers
      <4> QED
        BY <1>t, <1>4, <3>1, <4>1
    <3>2. CASE jobs[j].space # t
      BY <1>t, <1>4, <1>7, <3>2 DEF Emptied
    <3> QED
      BY <3>1, <3>2
  <2> QED
    BY <1>1, <1>2, <1>3, <1>6, <1>7, <2>1 DEF Emptied
<1>8. ASSUME NEW i \in 1 .. Len(jobs), GoodJob(i) PROVE GoodJob(i)'
  <2>1. \A k \in i .. Len(jobs) : jobs[k].space = jobs[i].space => Covers(k)
    BY <1>8 DEF GoodJob
  <2>2. \A k \in i .. Len(jobs)' : jobs'[k].space = jobs'[i].space => Covers(k)'
    BY <1>t, <1>1, <1>3, <2>1
  <2>3. CASE i # j
    BY <1>1, <1>7, <1>8, <2>2, <2>3 DEF GoodJob
  <2>4. CASE i = j
    <3>1. \A o \in Surplus : jobs[j].space \notin parts'[o]
      BY <1>t, <1>4, <2>1, <2>4 DEF Covers
    <3>2. \A k \in 1 .. j - 1 : jobs[k].space = jobs[j].space => jobs[k].state # "running"
      BY DEF FinishJob, RunsNext
    <3>3. ASSUME NEW k \in 1 .. Len(jobs), jobs'[k].space = jobs'[j].space,
                 jobs'[k].state = "running"
          PROVE  Covers(k)'
      <4>1. jobs[k].space = jobs[j].space /\ jobs[k].state = "running"
        BY <1>1, <1>6, <3>3
      <4>2. k \in j .. Len(jobs)
        BY <1>t, <3>2, <4>1
      <4> QED
        BY <1>3, <2>1, <2>4, <4>1, <4>2
    <3>4. Emptied(jobs[j].space)'
      BY <1>1, <1>2, <3>1, <3>3 DEF Emptied
    <3> QED
      BY <1>1, <2>2, <2>4, <3>4 DEF GoodJob
  <2> QED
    BY <2>3, <2>4
<1>9. SpaceInv'
  <2>1. jobs[j].space \in spaces /\ spaces' = spaces
    BY DEF CarefulInv, SpaceInv, FinishJob
  <2> QED
    BY <1>1, <1>4, <2>1 DEF CarefulInv, SpaceInv
<1> QED
  BY <1>7, <1>8, <1>9

\* What is recorded stays true over a step of a job, and over the submission
\* of job n
LEMMA RecordJobs ==
    ASSUME CarefulInv, NEW n,
           \A t : Emptied(t) => Emptied(t)',
           \A i \in 1 .. Len(jobs) : GoodJob(i) => GoodJob(i)',
           nc' = nc \/ (nc'.job.id = n /\ nc'.removed = nc.removed /\ GoodJob(n)'),
           UNCHANGED <<status, spaces, want, spec>>,
           pc' \in LateSteps => pc \in LateSteps
    PROVE  RecordInv'
<1>i. RecordInv /\ JobRecorded
  BY DEF CarefulInv, RefInv
<1>1. status'.job # NoJob => GoodJob(status.job.id)'
  <2> SUFFICES ASSUME status.job # NoJob PROVE GoodJob(status.job.id)'
    OBVIOUS
  <2>1. status.job.id \in 1 .. Len(jobs) /\ GoodJob(status.job.id)
    BY <1>i DEF RecordInv, JobRecorded, Submitted
  <2> QED
    BY <2>1
<1>2. nc'.job # NoJob => GoodJob(nc.job.id)'
  <2>1. CASE nc' = nc
    <3> SUFFICES ASSUME nc.job # NoJob PROVE GoodJob(nc.job.id)'
      BY <2>1
    <3>1. nc.job.id \in 1 .. Len(jobs) /\ GoodJob(nc.job.id)
      BY <1>i DEF RecordInv, JobRecorded, Submitted
    <3> QED
      BY <2>1, <3>1
  <2> QED
    BY <2>1
<1>3. \A s \in status'.removed \cup nc'.removed : Emptied(s)'
  BY <1>i DEF RecordInv
<1>4. pc' \in LateSteps /\ want = spec => \A s \in spaces : Emptied(s)'
  BY <1>i DEF RecordInv, LateSteps
<1> QED
  BY <1>1, <1>2, <1>3, <1>4 DEF RecordInv, LateSteps

\* A scale-out balances when no replica is surplus
LEMMA CarefulScaleOutBalance ==
    ASSUME CarefulInv, RefInv', DropInv', SavedInv', ScaleOutBalance
    PROVE  CarefulInv'
<1> USE DEF kube
<1>t. /\ spec \in Int /\ sts \in Int /\ want \in Int /\ old \in Int
      /\ listed = spaces /\ PassInv /\ SpaceInv
  BY ReplicasAssumption
  DEF CarefulInv, RefInv, TypeOK, Replicas, PassInv, ScaleOutBalance
<1>1. /\ pc = "balance" /\ pc' \in {"job", "end", "balance", "workload"}
      /\ UNCHANGED <<spec, sts, parts, spaces, want, old, listed, targets, pods>>
  BY DEF ScaleOutBalance, BalanceSpace, SubmitJob, RecoverJob, WaitForJob, Save
<1>2. want = spec /\ old = sts /\ want >= old
  BY <1>1, CurrentPass DEF CarefulInv, DropInv, Scaling
<1>3. Surplus = {} /\ Surplus' = {}
  BY <1>t, <1>1, <1>2, SurplusEmpty DEF Surplus
<1>4. PassInv'
  BY <1>t, <1>1, <1>2, <1>3 DEF PassInv
<1>5. RecordInv'
  BY <1>3, NoSurplusNext DEF RecordInv
<1>6. SpaceInv'
  <2>1. UNCHANGED jobs \/ (\E s \in listed : HasJob(s) /\ RecoverJob)
          \/ (\E s \in listed : SubmitJob(s, {}))
    BY DEF ScaleOutBalance, BalanceSpace, WaitForJob
  <2>2. CASE UNCHANGED jobs
    BY <1>t, <1>1, <2>2 DEF SpaceInv
  <2>3. ASSUME NEW s \in listed, HasJob(s), RecoverJob PROVE SpaceInv'
    <3>1. nc.job.id \in 1 .. Len(jobs)
      BY <2>3 DEF CarefulInv, RefInv, JobRecorded, Submitted, HasJob
    <3>2. jobs' = [jobs EXCEPT ![nc.job.id].state = "running"] /\ Covers(nc.job.id)
      BY <1>3, <2>3 DEF RecoverJob, Covers
    <3>3. \A i \in 1 .. Len(jobs') : jobs'[i].space \in spaces
      BY <1>1, <3>1, <3>2, CarefulJobState
    <3> QED
      BY <1>t, <1>1, <3>3 DEF SpaceInv
  <2>4. ASSUME NEW s \in listed, SubmitJob(s, {}) PROVE SpaceInv'
    <3>1. \A i \in 1 .. Len(jobs') : jobs'[i].space \in spaces
      BY <1>t, <1>1, <1>3, <2>4, CarefulSubmit
    <3> QED
      BY <1>t, <1>1, <3>1 DEF SpaceInv
  <2> QED
    BY <2>1, <2>2, <2>3, <2>4
<1> QED
  BY <1>4, <1>5, <1>6 DEF CarefulInv

\* A scale-in records and believes only jobs that empty the surplus replicas
LEMMA CarefulScaleInRemove ==
    ASSUME CarefulInv, RefInv', DropInv', SavedInv', ScaleInRemove
    PROVE  CarefulInv'
<1> USE DEF kube
<1>t. /\ nc \in StatusType /\ status \in StatusType /\ targets \in SUBSET Ordinals
      /\ listed = spaces /\ listed \subseteq Spaces
      /\ PassInv /\ SpaceInv /\ RecordInv /\ JobRecorded
  BY DEF CarefulInv, RefInv, TypeOK, PassInv, ScaleInRemove
<1>1. /\ pc = "remove" /\ pc' \in {"job", "end", "remove", "drop"}
      /\ UNCHANGED <<spec, sts, parts, spaces, want, old, listed, targets, pods>>
  BY DEF ScaleInRemove, RemoveHost, SubmitJob, RecoverJob, WaitForJob, Save
<1>2. want < old /\ want = spec /\ targets = Surplus
  BY <1>t, <1>1, CurrentPass DEF PassInv, Scaling
<1>3. Surplus' = Surplus
  BY <1>1 DEF Surplus
<1>4. PassInv'
  BY <1>t, <1>1, <1>2, <1>3 DEF PassInv
<1>5. CASE \E s \in listed : HasJob(s) /\ JobIs("finished")
                              /\ Save(WithRemoved(nc, s), "remove") /\ UNCHANGED jobs
  <2>1. PICK s \in listed : /\ HasJob(s) /\ JobIs("finished")
                            /\ Save(WithRemoved(nc, s), "remove") /\ UNCHANGED jobs
    BY <1>5
  <2>2. nc.job # NoJob /\ jobs[nc.job.id].space = s /\ jobs[nc.job.id].state = "finished"
    BY <1>t, <2>1 DEF HasJob, JobIs, JobRecorded, Submitted
  <2>3. Emptied(s)
    BY <1>t, <2>2 DEF RecordInv, GoodJob
  <2>4. /\ nc'.job = nc.job /\ nc'.removed = nc.removed \cup {s}
        /\ status' \in {status, nc'} /\ pc' \in {"remove", "end"}
    BY <1>t, <2>1, SpaceUpdates DEF Save
  <2>5. RecordInv'
    BY <1>t, <1>1, <2>1, <2>3, <2>4, RecordFrame DEF RecordInv, LateSteps
  <2>6. SpaceInv'
    BY <1>t, <1>1, <2>1 DEF SpaceInv
  <2> QED
    BY <1>4, <2>5, <2>6 DEF CarefulInv
<1>6. CASE \E s \in listed : HasJob(s) /\ RecoverJob
  <2>1. nc.job # NoJob /\ nc.job.id \in 1 .. Len(jobs) /\ RecoverJob
    BY <1>t, <1>6 DEF HasJob, JobRecorded, Submitted
  <2>2. jobs' = [jobs EXCEPT ![nc.job.id].state = "running"] /\ Covers(nc.job.id)
    BY <1>t, <2>1 DEF RecoverJob, RecordInv, GoodJob
  <2>3. nc' = nc /\ status' = status /\ pc' = "end"
    BY <2>1 DEF RecoverJob
  <2>4. /\ \A t : Emptied(t) => Emptied(t)'
        /\ \A i \in 1 .. Len(jobs) : GoodJob(i) => GoodJob(i)'
        /\ \A i \in 1 .. Len(jobs') : jobs'[i].space \in spaces
    BY <1>1, <2>1, <2>2, CarefulJobState
  <2>5. RecordInv'
    BY <1>1, <2>3, <2>4, RecordJobs DEF LateSteps
  <2>6. SpaceInv'
    BY <1>t, <1>1, <2>4 DEF SpaceInv
  <2> QED
    BY <1>4, <2>5, <2>6 DEF CarefulInv
<1>7. CASE WaitForJob
  <2>1. UNCHANGED <<nc, status, jobs>> /\ pc' = "end"
    BY <1>7 DEF WaitForJob
  <2>2. RecordInv'
    BY <1>t, <1>1, <2>1, RecordFrame DEF RecordInv, LateSteps
  <2>3. SpaceInv'
    BY <1>t, <1>1, <2>1 DEF SpaceInv
  <2> QED
    BY <1>4, <2>2, <2>3 DEF CarefulInv
<1>8. CASE \E s \in listed : SubmitJob(s, targets)
  <2>1. PICK s \in spaces : SubmitJob(s, targets)
    BY <1>t, <1>8
  <2> DEFINE n == Len(jobs) + 1
  <2>2. /\ \A t : Emptied(t) => Emptied(t)'
        /\ \A i \in 1 .. Len(jobs) : GoodJob(i) => GoodJob(i)'
        /\ nc' = nc \/ (nc'.job.id = n /\ nc'.removed = nc.removed)
        /\ \A j \in 1 .. Len(jobs') : jobs'[j].space \in spaces
    BY <1>t, <1>1, <1>2, <2>1, CarefulSubmit
  <2>3. PICK m : m = n
    OBVIOUS
  <2>4. GoodJob(m)'
    BY <1>t, <1>1, <1>2, <2>1, <2>3, CarefulSubmit
  <2>5. status' = status /\ pc' \in {"job", "end"}
    BY <2>1 DEF SubmitJob
  <2>6. RecordInv'
    BY <1>1, <2>2, <2>3, <2>4, <2>5, RecordJobs DEF LateSteps
  <2>7. SpaceInv'
    BY <1>t, <1>1, <2>2 DEF SpaceInv
  <2> QED
    BY <1>4, <2>6, <2>7 DEF CarefulInv
<1>9. CASE listed \ nc.removed = {} /\ pc' = "drop" /\ UNCHANGED <<jobs, nc, status>>
  <2>1. \A s \in spaces : Emptied(s)
    BY <1>t, <1>9 DEF RecordInv
  <2>2. RecordInv'
    BY <1>t, <1>1, <1>9, <2>1, RecordFrame DEF RecordInv, LateSteps
  <2>3. SpaceInv'
    BY <1>t, <1>1, <1>9 DEF SpaceInv
  <2> QED
    BY <1>4, <2>2, <2>3 DEF CarefulInv
<1> QED
  BY <1>5, <1>6, <1>7, <1>8, <1>9 DEF ScaleInRemove, RemoveHost

---------------------------------------------------------------------------
\* The workload is updated: no replica is surplus any more
LEMMA CarefulUpdateWorkload ==
    ASSUME CarefulInv, RefInv', DropInv', SavedInv', UpdateWorkload
    PROVE  CarefulInv'
<1>1. /\ spec' = spec /\ sts' = want /\ pc = "workload" /\ pc' = "reclaim"
      /\ UNCHANGED <<want, parts, jobs, spaces, status, nc, pods>>
  BY DEF UpdateWorkload, api, metad
<1>2. spec \in Int /\ PassInv /\ RecordInv
  BY <1>1 DEF CarefulInv, RefInv, TypeOK, Replicas
<1>3. SpaceInv'
  BY <1>1 DEF CarefulInv, SpaceInv
<1>4. CASE want = spec
  <2>1. Surplus' = {}
    BY <1>1, <1>2, <1>4 DEF Surplus
  <2>2. PassInv' /\ RecordInv'
    BY <1>1, <1>4, <2>1, NoSurplusNext DEF PassInv, RecordInv
  <2> QED
    BY <1>3, <2>2 DEF CarefulInv
<1>5. CASE Outdated
  <2>1. sts' = sts
    BY <1>1, <1>5 DEF Outdated
  <2>2. Surplus' = Surplus
    BY <1>1, <2>1 DEF Surplus
  <2>3. PassInv'
    BY <1>1, <1>2, <1>5, <2>1, <2>2 DEF PassInv, Outdated, Quiet
  <2>4. RecordInv'
    BY <1>1, <1>2, <2>1, RecordFrame DEF RecordInv, LateSteps
  <2> QED
    BY <1>3, <2>3, <2>4 DEF CarefulInv
<1> QED
  BY <1>1, <1>2, <1>4, <1>5 DEF PassInv

\* A settled cluster records no job and no removed space
LEMMA SettledStatus ==
    ASSUME Settled
    PROVE  status.phase = "Running" /\ status.job = NoJob /\ status.removed = {}
  BY DEF Settled, NewStatus

\* The user changes a settled cluster
LEMMA CarefulUser ==
    ASSUME Careful, CarefulInv, RefInv', DropInv', SavedInv',
           \/ \E n \in Replicas : PatchReplicas(n)
           \/ \E s \in Spaces : CreateSpace(s)
    PROVE  CarefulInv'
<1> USE DEF local, kube
<1>1. Settled /\ UNCHANGED <<pc, nc, want, old, listed, targets, status, sts, pods, jobs>>
  BY DEF Careful, PatchReplicas, CreateSpace, Admitted, api, metad
<1>2. /\ sts = spec /\ sts \in Replicas /\ PassInv /\ SavedInv /\ DropInv
      /\ \A o \in Ordinals : o < spec => pods[o] = "ready"
  BY <1>1 DEF Settled, CarefulInv, RefInv, TypeOK
<1>3. spec' \in Replicas
  BY DEF RefInv, TypeOK
<1>4. \A o \in Surplus' : pods[o] = "ready"
  BY <1>1, <1>2, <1>3, ReplicasAssumption DEF Surplus, Replicas, Ordinals
<1>5. pc \notin Scaling /\ (pc # "idle" => nc.job = NoJob /\ nc.removed = {} /\ pc \in Quiet)
  BY <1>1, <1>2, SettledStatus DEF SavedInv, Scaling, Quiet, CarefulInv, RefInv, TypeOK, PC
<1>6. pc # "idle" => want = sts
  BY <1>2 DEF PassInv, Outdated
<1>p. PassInv'
  <2>1. pc = "workload" => old = want
    BY <1>2, <1>6 DEF DropInv
  <2>2. (IF pc = "idle" THEN nc = NewStatus ELSE want = spec \/ Outdated)'
    BY <1>1, <1>2, <1>5, <1>6, SettledStatus DEF PassInv, Outdated
  <2>3. want \in Int /\ old \in Int
    BY DEF CarefulInv, RefInv, TypeOK
  <2> QED
    BY <1>1, <1>4, <1>5, <2>1, <2>2, <2>3 DEF PassInv, Scaling
<1>r. RecordInv'
  <2>1. status'.job = NoJob /\ nc'.job = NoJob /\ status'.removed = {} /\ nc'.removed = {}
    BY <1>1, <1>2, <1>5, SettledStatus, NewStatusType DEF PassInv
  <2>2. (pc \in LateSteps /\ want = spec)' => Surplus' = {}
    BY <1>1, <1>2, <1>5, <1>6 DEF LateSteps, Scaling, Surplus, Replicas
  <2> QED
    BY <2>1, <2>2, NoSurplusNext DEF RecordInv, LateSteps
<1>7. SpaceInv'
  <2>1. ASSUME NEW n \in Replicas, PatchReplicas(n) PROVE SpaceInv'
    BY <1>1, <2>1 DEF CarefulInv, SpaceInv, PatchReplicas, metad
  <2>2. ASSUME NEW s \in Spaces, CreateSpace(s) PROVE SpaceInv'
    BY <1>1, <2>2 DEF CarefulInv, SpaceInv, CreateSpace
  <2> QED
    BY <2>1, <2>2
<1> QED
  BY <1>p, <1>r, <1>7 DEF CarefulInv

\* Pods start, become ready and stop; the surplus replicas stay ready
LEMMA CarefulPods ==
    ASSUME Careful, CarefulInv, RefInv', DropInv', SavedInv', NEW o \in Ordinals,
           PodStart(o) \/ PodReady(o) \/ PodStop(o) \/ PodFail(o)
    PROVE  CarefulInv'
<1>1. UNCHANGED <<pc, nc, want, old, listed, targets, status, spec, sts, parts, jobs, spaces>>
  BY DEF PodStart, PodReady, PodStop, PodFail, PodGone, api, metad, local
<1>2. PassInv /\ SpaceInv /\ RecordInv
  BY DEF CarefulInv
<1>3. Surplus' = Surplus
  BY <1>1, EmptiedFrame
<1>4. \A p \in Surplus : pods'[p] = "ready"
  <2>1. /\ pods \in [Ordinals -> PodState] /\ Surplus \subseteq Ordinals
        /\ \A p \in Surplus : pods[p] = "ready" /\ p < sts
    <3>1. /\ pods \in [Ordinals -> PodState]
          /\ spec \in 1 .. MaxReplicas /\ sts \in 1 .. MaxReplicas
      BY DEF CarefulInv, RefInv, TypeOK, Replicas
    <3>2. Surplus \subseteq Ordinals /\ \A p \in Surplus : p < sts
      BY <3>1, ReplicasAssumption DEF Surplus, Ordinals
    <3> QED
      BY <1>2, <3>1, <3>2 DEF PassInv
  <2>2. CASE PodStart(o)
    BY <2>1, <2>2 DEF PodStart
  <2>3. CASE PodReady(o)
    BY <2>1, <2>3 DEF PodReady
  <2>4. CASE PodStop(o)
    <3>1. o \in Int /\ sts \in Int
      BY ReplicasAssumption DEF Ordinals, CarefulInv, RefInv, TypeOK, Replicas
    <3>2. o \notin Surplus
      BY <2>1, <2>4, <3>1 DEF PodStop
    <3> QED
      BY <2>1, <2>4, <3>2 DEF PodStop, PodGone
  <2> QED
    BY <2>2, <2>3, <2>4 DEF Careful, PodFail
<1>5. PassInv'
  BY <1>1, <1>2, <1>3, <1>4 DEF PassInv, Outdated
<1>6. RecordInv'
  BY <1>1, <1>2, RecordFrame DEF RecordInv, LateSteps
<1>7. SpaceInv'
  BY <1>1, <1>2 DEF SpaceInv
<1> QED
  BY <1>5, <1>6, <1>7 DEF CarefulInv

\* metad's jobs finish and fail
LEMMA CarefulJobs ==
    ASSUME CarefulInv, RefInv', DropInv', SavedInv', NEW j \in 1 .. Len(jobs),
           FinishJob(j) \/ FailJob(j)
    PROVE  CarefulInv'
<1>1. UNCHANGED <<pc, nc, want, old, listed, targets, status, spec, sts, pods, spaces>>
  BY DEF FinishJob, FailJob, api, kube, local
<1>2. PassInv'
  BY <1>1 DEF CarefulInv, PassInv, Surplus, Outdated
<1>3. /\ \A t : Emptied(t) => Emptied(t)'
      /\ \A i \in 1 .. Len(jobs) : GoodJob(i) => GoodJob(i)'
      /\ SpaceInv'
  <2>1. CASE FinishJob(j)
    BY <2>1, CarefulFinish
  <2>2. CASE FailJob(j)
    <3>1. jobs' = [jobs EXCEPT ![j].state = "failed"] /\ UNCHANGED parts
      BY <2>2 DEF FailJob
    <3>2. /\ \A t : Emptied(t) => Emptied(t)'
          /\ \A i \in 1 .. Len(jobs) : GoodJob(i) => GoodJob(i)'
          /\ \A i \in 1 .. Len(jobs') : jobs'[i].space \in spaces
      BY <1>1, <3>1, CarefulJobState
    <3> QED
      BY <1>1, <3>1, <3>2 DEF CarefulInv, SpaceInv
  <2> QED
    BY <2>1, <2>2
<1>4. RecordInv'
  BY <1>1, <1>3, RecordJobs
<1> QED
  BY <1>2, <1>3, <1>4 DEF CarefulInv

LEMMA CarefulInvNext == Careful /\ CarefulInv /\ [Next]_vars => CarefulInv'
<1> SUFFICES ASSUME Careful, CarefulInv, [Next]_vars PROVE CarefulInv'
  OBVIOUS
<1>1. RefInv' /\ DropInv' /\ SavedInv'
  BY RefInvNext, DropInvNext, SavedInvNext DEF CarefulInv, Careful
<1>2. CASE ScaleOutBalance \/ ScaleInRemove \/ UpdateWorkload
  BY <1>1, <1>2, CarefulScaleOutBalance, CarefulScaleInRemove, CarefulUpdateWorkload
<1>3. CASE Reconcile /\ ~(ScaleOutBalance \/ ScaleInRemove \/ UpdateWorkload)
  BY <1>1, <1>3, CarefulPass DEF Reconcile
<1>4. CASE CallFails \/ Crash
  BY <1>1, <1>4, CarefulPass
<1>5. CASE (\E n \in Replicas : PatchReplicas(n)) \/ (\E s \in Spaces : CreateSpace(s))
  BY <1>1, <1>5, CarefulUser
<1>6. ~CacheSync
  BY DEF CacheSync, Careful
<1>7. CASE \E o \in Ordinals : PodStart(o) \/ PodReady(o) \/ PodStop(o) \/ PodFail(o)
  BY <1>1, <1>7, CarefulPods
<1>8. CASE \E j \in 1 .. Len(jobs) : FinishJob(j) \/ FailJob(j)
  BY <1>1, <1>8, CarefulJobs
<1>9. CASE UNCHANGED vars
  <2>1. PassInv' /\ SpaceInv'
    BY <1>9 DEF CarefulInv, PassInv, SpaceInv, vars, Surplus, Outdated
  <2>2. RecordInv'
    BY <1>9, RecordFrame DEF CarefulInv, RecordInv, LateSteps, vars
  <2> QED
    BY <1>1, <2>1, <2>2 DEF CarefulInv
<1> QED
  BY <1>2, <1>3, <1>4, <1>5, <1>6, <1>7, <1>8, <1>9 DEF Next

\* Hosts leave metad by DropHosts only
LEMMA OnlyDropHosts ==
    ASSUME TypeOK, [Next]_vars
    PROVE  DropHosts \/ hosts \subseteq hosts'
<1> USE DEF local, metad, kube, api
<1>1. CASE Reconcile
  BY <1>1 DEF Reconcile, StartReconcile, AddStorageHosts, Scale, SaveJob, ScaleOut,
     ScaleOutBalance, ScaleIn, ScaleInRemove, BalanceLeaders, PVCMark,
     ScaleInDone, UpdateWorkload, ReclaimPV, DeletePVC, EndReconcile
<1>2. CASE CallFails \/ Crash \/ CacheSync
  BY <1>2 DEF CallFails, Crash, CacheSync
<1>3. ASSUME NEW n \in Replicas, PatchReplicas(n) PROVE hosts' = hosts
  BY <1>3 DEF PatchReplicas
<1>4. ASSUME NEW s \in Spaces, CreateSpace(s) PROVE hosts' = hosts
  BY <1>4 DEF CreateSpace
<1>5. ASSUME NEW o \in Ordinals,
             PodStart(o) \/ PodReady(o) \/ PodStop(o) \/ PodFail(o)
      PROVE  hosts' = hosts
  BY <1>5 DEF PodStart, PodReady, PodStop, PodFail, PodGone
<1>6. ASSUME NEW j \in 1 .. Len(jobs), FinishJob(j) \/ FailJob(j) PROVE hosts' = hosts
  BY <1>6 DEF FinishJob, FailJob
<1>7. CASE UNCHANGED vars
  BY <1>7 DEF vars
<1> QED
  BY <1>1, <1>2, <1>3, <1>4, <1>5, <1>6, <1>7 DEF Next

\* When every space is emptied, the surplus replicas have no partition
LEMMA SurplusHasNoParts ==
    ASSUME CarefulInv, pc \in LateSteps, want = spec
    PROVE  \A o \in Surplus : parts[o] = {}
<1>1. Surplus \subseteq Ordinals
  BY ReplicasAssumption DEF CarefulInv, RefInv, TypeOK, Replicas, Surplus, Ordinals
<1>2. \A o \in Surplus : parts[o] \subseteq spaces
  BY <1>1 DEF CarefulInv, SpaceInv
<1>3. \A s \in spaces : Emptied(s)
  BY DEF CarefulInv, RecordInv, LateSteps
<1> QED
  BY <1>2, <1>3 DEF Emptied

\* DropSafe for every instance with careful users, whatever calls, answers,
\* jobs and passes fail: no host is dropped while it has partitions
THEOREM CarefulDropSafe == Careful /\ Spec => DropSafe
<1>1. /\ Careful /\ CarefulInv /\ [Next]_vars
      => [\A o \in hosts \ hosts' : parts[o] = {}]_vars
  <2> SUFFICES ASSUME CarefulInv, [Next]_vars, NEW o \in hosts \ hosts'
               PROVE  parts[o] = {}
    OBVIOUS
  <2>1. DropHosts
    BY OnlyDropHosts DEF CarefulInv, RefInv
  <2>2. pc = "drop" /\ o \in targets
    BY <2>1 DEF DropHosts
  <2>3. targets = Surplus /\ want = spec
    BY <2>2, CurrentPass DEF CarefulInv, PassInv, Scaling
  <2> QED
    BY <2>2, <2>3, SurplusHasNoParts DEF LateSteps
<1>2. Careful /\ Init => Careful /\ CarefulInv
  BY CarefulInvInit
<1>3. (Careful /\ CarefulInv) /\ [Next]_vars => (Careful /\ CarefulInv)'
  BY CarefulInvNext DEF Careful
<1> QED
  BY <1>1, <1>2, <1>3, PTL DEF Spec, DropSafe

\* ShrinkSafe for every instance with careful users: a replica is taken from
\* the StatefulSet only when metad neither knows it nor has partitions on it
THEOREM CarefulShrinkSafe == Careful /\ Spec => ShrinkSafe
<1>1. /\ Careful /\ CarefulInv /\ [Next]_vars
      => [\A o \in sts' .. sts - 1 : o \notin hosts /\ parts[o] = {}]_vars
  <2> SUFFICES ASSUME CarefulInv, [Next]_vars, NEW o \in sts' .. sts - 1
               PROVE  o \notin hosts /\ parts[o] = {}
    OBVIOUS
  <2>1. sts \in Int /\ sts' # sts
    BY DEF CarefulInv, RefInv, TypeOK, Replicas
  <2>2. UpdateWorkload
    BY <2>1, OnlyUpdateWorkload
  <2>3. pc = "workload" /\ sts' = want /\ want = spec /\ old = sts
    BY <2>1, <2>2 DEF UpdateWorkload, CarefulInv, PassInv, DropInv, Outdated
  <2>4. o \in Surplus /\ want < old
    BY <2>1, <2>3 DEF Surplus, CarefulInv, RefInv, TypeOK, Replicas
  <2>5. targets = Surplus /\ targets \cap hosts = {}
    BY <2>3, <2>4 DEF CarefulInv, PassInv, DropInv
  <2> QED
    BY <2>3, <2>4, <2>5, SurplusHasNoParts DEF LateSteps
<1>2. Careful /\ Init => Careful /\ CarefulInv
  BY CarefulInvInit
<1>3. (Careful /\ CarefulInv) /\ [Next]_vars => (Careful /\ CarefulInv)'
  BY CarefulInvNext DEF Careful
<1> QED
  BY <1>1, <1>2, <1>3, PTL DEF Spec, ShrinkSafe

-----------------------------------------------------------------------------
(* The claims of a careful cluster, and its settled states *)

\* The types that the proofs below need, without the sequences and records
LEMMA Plain ==
    ASSUME RefInv
    PROVE  /\ spec \in Nat /\ sts \in Nat /\ want \in Nat /\ old \in Nat
           /\ sts <= MaxReplicas /\ spec <= MaxReplicas
           /\ nc \in StatusType /\ status \in StatusType
           /\ Ordinals \subseteq Nat /\ hosts \subseteq Ordinals /\ targets \subseteq Ordinals
           /\ \A o \in Nat : o < sts => o \in Ordinals
           /\ jobs \in Seq(JobType) /\ Len(jobs) \in Nat
           /\ pods \in [Ordinals -> PodState] /\ pvcs \in [Ordinals -> PVCState]
           /\ parts \in [Ordinals -> SUBSET Spaces]
           /\ pc \in PC
  BY ReplicasAssumption, LenProperties DEF RefInv, TypeOK, Replicas, Ordinals

\* Steps that leave replicas, pods and jobs alone
LEMMA PodFrame ==
    ASSUME UNCHANGED <<spec, sts, pods>>
    PROVE  /\ Full' <=> Full
           /\ NoneBeyond' <=> NoneBeyond
           /\ \A p : PhaseFits(p)' <=> PhaseFits(p)
  BY DEF Full, NoneBeyond, PhaseFits

LEMMA JobFrame ==
    ASSUME UNCHANGED jobs
    PROVE  /\ AllIdle' <=> AllIdle
           /\ \A s : Idle(s)' <=> Idle(s)
           /\ \A ref : Last(ref)' <=> Last(ref)
           /\ \A c : Done(c)' <=> Done(c)
  BY DEF AllIdle, Idle, Last, Done

LEMMA NothingRuns ==
    ASSUME AllIdle
    PROVE  /\ \A s : Idle(s)
           /\ \A c : Done(c)
  BY DEF AllIdle, Idle, Done

\* As many ready pods as replicas asked for, and no pod beyond those of the
\* StatefulSet: it has its replicas and all their pods
LEMMA ReadyFull ==
    ASSUME RefInv, NoneBeyond, ReadyReplicas = spec, spec >= sts
    PROVE  spec = sts /\ Full
<1> DEFINE R == {o \in Ordinals : pods[o] = "ready"}
           A == 0 .. sts - 1
<1>t. /\ spec \in Nat /\ sts \in Nat /\ Ordinals \subseteq Nat
      /\ pods \in [Ordinals -> PodState]
      /\ \A o \in Nat : o < sts => o \in Ordinals
  BY Plain
<1>1. R \subseteq A
  <2> SUFFICES ASSUME NEW o \in R PROVE o \in A
    OBVIOUS
  <2>1. o \in Ordinals /\ pods[o] = "ready"
    OBVIOUS
  <2>2. ~(o >= sts)
    BY <2>1 DEF NoneBeyond
  <2> QED
    BY <1>t, <2>1, <2>2
<1>2. IsFiniteSet(A) /\ Cardinality(A) = sts
  BY <1>t, FS_Interval
<1>3. IsFiniteSet(R) /\ Cardinality(R) <= sts /\ (Cardinality(R) = sts => R = A)
  BY <1>1, <1>2, FS_Subset
<1>4. Cardinality(R) = spec
  BY DEF ReadyReplicas
<1>5. spec = sts /\ R = A
  BY <1>t, <1>3, <1>4
<1>6. Full
  BY <1>t, <1>5 DEF Full
<1> QED
  BY <1>5, <1>6

---------------------------------------------------------------------------
\* Pods start, become ready and stop
LEMMA ReclaimPods ==
    ASSUME Careful, ReclaimInv, NEW q \in Ordinals,
           PodStart(q) \/ PodReady(q) \/ PodStop(q) \/ PodFail(q)
    PROVE  PhaseInv' /\ HostInv' /\ JobInv' /\ ClaimInv'
<1>i. RefInv /\ PhaseInv /\ HostInv /\ JobInv /\ ClaimInv
  BY DEF ReclaimInv, CarefulInv
<1>t. /\ spec \in Nat /\ sts \in Nat /\ Ordinals \subseteq Nat /\ hosts \subseteq Ordinals
      /\ targets \subseteq Ordinals
      /\ pods \in [Ordinals -> PodState] /\ pvcs \in [Ordinals -> PVCState]
  BY <1>i, Plain
<1>1. UNCHANGED <<spec, sts, status, pc, nc, want, old, ready, listed, targets, hosts,
                  spaces, parts, jobs>>
  BY DEF PodStart, PodReady, PodStop, PodFail, PodGone, api, metad, local
<1>2. \A o \in Ordinals : /\ o < sts /\ pods[o] # "absent" => pods'[o] # "absent"
                          /\ o >= sts /\ pods[o] = "absent" => pods'[o] = "absent"
                          /\ pvcs'[o] = "marked" => pvcs[o] = "marked"
                          /\ pods[o] # "absent" /\ pods'[o] = "absent" => o >= sts
  <2>1. CASE PodStart(q)
    BY <1>t, <2>1 DEF PodStart
  <2>2. CASE PodReady(q)
    BY <1>t, <2>2 DEF PodReady
  <2>3. CASE PodStop(q)
    BY <1>t, <2>3 DEF PodStop, PodGone
  <2> QED
    BY <2>1, <2>2, <2>3 DEF Careful, PodFail
<1>3. (Full => Full') /\ (NoneBeyond => NoneBeyond')
  BY <1>1, <1>2 DEF Full, NoneBeyond
<1>4. \A p : PhaseFits(p) => PhaseFits(p)'
  BY <1>1, <1>3 DEF PhaseFits
<1>5. \A o \in hosts : pods[o] # "absent" => pods'[o] # "absent"
  <2> SUFFICES ASSUME NEW o \in hosts, pods[o] # "absent", pods'[o] = "absent" PROVE FALSE
    OBVIOUS
  <2>1. o \in Ordinals /\ o >= sts
    BY <1>t, <1>2
  <2>2. spec > sts
    BY <1>i, <1>t, <2>1 DEF HostInv
  <2> QED
    BY <1>i, <2>1, <2>2 DEF HostInv, NoneBeyond
<1>6. HostsUp => HostsUp'
  BY <1>1, <1>5 DEF HostsUp
<1>7. PhaseInv'
  BY <1>i, <1>1, <1>3, <1>4 DEF PhaseInv
<1>8. HostInv'
  <2>1. (\A o \in Ordinals : pvcs[o] # "marked") => \A o \in Ordinals : pvcs'[o] # "marked"
    BY <1>2
  <2> QED
    BY <1>i, <1>1, <1>3, <1>6, <2>1 DEF HostInv
<1>9. JobInv'
  BY <1>i, <1>1, <1>6, JobFrame DEF JobInv
<1>10. ClaimInv'
  <2>1. \A o \in Ordinals : parts'[o] # {} => o < sts' /\ pods'[o] # "absent"
    BY <1>i, <1>1, <1>2 DEF ClaimInv
  <2>2. \A o \in hosts' : pods'[o] = "absent" /\ pvcs'[o] = "marked" =>
                           status'.phase = "ScaleOut" \/ spec' > sts'
    BY <1>i, <1>t, <1>1, <1>2, <1>5 DEF ClaimInv
  <2>3. AllIdle' <=> AllIdle
    BY <1>1, JobFrame
  <2> QED
    BY <1>i, <1>1, <2>1, <2>2, <2>3 DEF ClaimInv
<1> QED
  BY <1>7, <1>8, <1>9, <1>10

---------------------------------------------------------------------------
\* The user changes a settled cluster: nothing runs, and every host has its pod
LEMMA SettledHosts ==
    ASSUME ReclaimInv, Settled
    PROVE  /\ AllIdle /\ HostsUp /\ Full /\ NoneBeyond /\ sts = spec
           /\ status.phase = "Running" /\ status.hostsAdded
           /\ nc.phase \notin {"ScaleIn", "ScaleOut"}
           /\ \A o \in hosts : o < sts
<1>i. RefInv /\ PhaseInv /\ HostInv /\ JobInv
  BY DEF ReclaimInv, CarefulInv
<1>t. /\ spec \in Nat /\ sts \in Nat /\ Ordinals \subseteq Nat /\ hosts \subseteq Ordinals
  BY <1>i, Plain
<1>1. /\ sts = spec /\ status.phase = "Running" /\ status.hostsAdded
      /\ \A o \in Ordinals : pods[o] = IF o < spec THEN "ready" ELSE "absent"
  BY DEF Settled, NewStatus
<1>2. AllIdle
  BY <1>i, <1>1 DEF JobInv
<1>3. \A o \in hosts : o < sts
  BY <1>i, <1>t, <1>1 DEF HostInv
<1>4. HostsUp /\ Full /\ NoneBeyond
  BY <1>t, <1>1, <1>3 DEF HostsUp, Full, NoneBeyond
<1>5. nc.phase \notin {"ScaleIn", "ScaleOut"}
  <2>1. ~(spec < sts) /\ ~(spec > sts)
    BY <1>t, <1>1
  <2>2. nc.phase # "ScaleIn"
    BY <1>i, <2>1 DEF PhaseInv, PhaseFits
  <2>3. nc.phase # "ScaleOut"
    BY <1>i, <1>1, <2>1 DEF PhaseInv
  <2> QED
    BY <2>2, <2>3
<1> QED
  BY <1>1, <1>2, <1>3, <1>4, <1>5

LEMMA ReclaimUser ==
    ASSUME Careful, ReclaimInv,
           \/ \E n \in Replicas : PatchReplicas(n)
           \/ \E s \in Spaces : CreateSpace(s)
    PROVE  PhaseInv' /\ HostInv' /\ JobInv' /\ ClaimInv'
<1>i. RefInv /\ PhaseInv /\ HostInv /\ JobInv /\ ClaimInv
  BY DEF ReclaimInv, CarefulInv
<1>t. /\ spec \in Nat /\ sts \in Nat /\ Ordinals \subseteq Nat /\ hosts \subseteq Ordinals
      /\ targets \subseteq Ordinals /\ parts \in [Ordinals -> SUBSET Spaces]
  BY <1>i, Plain
<1>1. /\ Settled
      /\ UNCHANGED <<pc, nc, want, old, ready, listed, targets, status, sts, pods, pvcs,
                     hosts, jobs>>
  BY DEF Careful, PatchReplicas, CreateSpace, Admitted, api, metad, kube, local
<1>2. /\ AllIdle /\ HostsUp /\ Full /\ NoneBeyond /\ sts = spec
      /\ status.phase = "Running" /\ status.hostsAdded
      /\ nc.phase \notin {"ScaleIn", "ScaleOut"}
      /\ \A o \in hosts : o < sts
  BY <1>1, SettledHosts
<1>3. AllIdle' /\ HostsUp' /\ Full' /\ NoneBeyond'
  BY <1>1, <1>2 DEF AllIdle, HostsUp, Full, NoneBeyond
<1>4. PhaseInv'
  BY <1>i, <1>1, <1>2, <1>3 DEF PhaseInv, PhaseFits
<1>5. HostInv'
  BY <1>i, <1>1, <1>2, <1>3 DEF HostInv
<1>6. JobInv'
  BY <1>i, <1>1, <1>2, <1>3, JobFrame DEF JobInv
<1>7. ClaimInv'
  <2>1. \A o \in Ordinals : parts'[o] # {} => o \in hosts \/ parts[o] # {}
    BY <1>t DEF PatchReplicas, CreateSpace, metad
  <2>2. \A o \in Ordinals : parts'[o] # {} => o < sts' /\ pods'[o] # "absent"
    BY <1>i, <1>t, <1>1, <1>2, <2>1 DEF ClaimInv, HostsUp
  <2>3. \A o \in hosts' : pods'[o] # "absent"
    BY <1>3 DEF HostsUp
  <2>4. pc = "delete" => \A o \in targets : o \notin hosts /\ parts[o] = {}
    BY <1>i, <1>2 DEF ClaimInv
  <2>5. pc' = "delete" => \A o \in targets' : o \notin hosts' /\ parts'[o] = {}
    BY <1>t, <1>1, <2>1, <2>4
  <2> QED
    BY <2>2, <2>3, <2>5 DEF ClaimInv
<1> QED
  BY <1>4, <1>5, <1>6, <1>7

---------------------------------------------------------------------------
\* metad's jobs finish and fail: a recorded job that finishes was the last of
\* its space, so no job of the space is left
LEMMA JobStops ==
    ASSUME RefInv, NEW j \in 1 .. Len(jobs), FinishJob(j) \/ FailJob(j)
    PROVE  /\ jobs[j].state = "running"
           /\ ~AllIdle
           /\ \A s : Idle(s) => Idle(s)'
           /\ \A ref : Submitted(ref) /\ Last(ref) => Last(ref)'
           /\ AllIdle' \/ ~AllIdle
<1>t. jobs \in Seq(JobType) /\ Len(jobs) \in Nat /\ {"finished", "failed"} \subseteq JobState
  BY Plain DEF JobState
<1>1. PICK st \in {"finished", "failed"} :
        /\ jobs' = [jobs EXCEPT ![j].state = st]
        /\ st = "finished" => \A i \in 1 .. j - 1 :
                                jobs[i].space = jobs[j].space => jobs[i].state # "running"
        /\ jobs[j].state = "running"
  BY DEF FinishJob, FailJob, RunsNext
<1>2. /\ Len(jobs') = Len(jobs)
      /\ \A k \in 1 .. Len(jobs) : /\ jobs'[k].space = jobs[k].space
                                   /\ k # j => jobs'[k].state = jobs[k].state
      /\ jobs'[j].state = st
  BY <1>t, <1>1, JobStateType
<1>3. ~AllIdle
  BY <1>1 DEF AllIdle
<1>4. ASSUME NEW s, Idle(s) PROVE Idle(s)'
  <2>1. \A k \in 1 .. Len(jobs) : jobs'[k].space = s => jobs'[k].state # "running"
    BY <1>1, <1>2, <1>4 DEF Idle
  <2> QED
    BY <1>2, <2>1 DEF Idle
<1>5. ASSUME NEW ref, Submitted(ref), Last(ref) PROVE Last(ref)'
  <2> SUFFICES ASSUME ref # NoJob PROVE Last(ref)'
    BY DEF Last
  <2>1. ref.id \in 1 .. Len(jobs) /\ jobs[ref.id].space = ref.space
    BY <1>5 DEF Submitted
  <2>2. \A k \in 1 .. Len(jobs) : k > ref.id => jobs[k].space # ref.space
    BY <1>5 DEF Last
  <2>3. \A k \in 1 .. Len(jobs') : k > ref.id => jobs'[k].space # ref.space
    BY <1>2, <2>2
  <2>4. ASSUME jobs'[ref.id].state = "finished" PROVE Idle(ref.space)'
    <3>1. CASE ref.id # j
      BY <1>2, <1>4, <1>5, <2>1, <2>4, <3>1 DEF Last
    <3>2. CASE ref.id = j
      <4>1. st = "finished"
        BY <1>2, <2>4, <3>2
      <4>2. \A k \in 1 .. Len(jobs) : jobs[k].space = ref.space /\ k # j => jobs[k].state # "running"
        <5> SUFFICES ASSUME NEW k \in 1 .. Len(jobs), jobs[k].space = ref.space, k # j
                     PROVE  jobs[k].state # "running"
          OBVIOUS
        <5>1. k < j
          BY <1>t, <2>2, <3>2
        <5> QED
          BY <1>1, <1>t, <2>1, <3>2, <4>1, <5>1
      <4>3. \A k \in 1 .. Len(jobs') : jobs'[k].space = ref.space => jobs'[k].state # "running"
        BY <1>2, <4>1, <4>2
      <4> QED
        BY <4>3 DEF Idle
    <3> QED
      BY <3>1, <3>2
  <2> QED
    BY <2>3, <2>4 DEF Last
<1> QED
  BY <1>1, <1>3, <1>4, <1>5

LEMMA ReclaimJobs ==
    ASSUME ReclaimInv, NEW j \in 1 .. Len(jobs), FinishJob(j) \/ FailJob(j)
    PROVE  PhaseInv' /\ HostInv' /\ JobInv' /\ ClaimInv'
<1>i. RefInv /\ PhaseInv /\ HostInv /\ JobInv /\ ClaimInv /\ JobRecorded
  BY DEF ReclaimInv, CarefulInv, RefInv
<1>t. /\ spec \in Nat /\ sts \in Nat /\ Ordinals \subseteq Nat /\ hosts \subseteq Ordinals
      /\ targets \subseteq Ordinals /\ parts \in [Ordinals -> SUBSET Spaces]
  BY <1>i, Plain
<1>1. UNCHANGED <<pc, nc, want, old, ready, listed, targets, status, spec, sts, pods, pvcs,
                  hosts, spaces>>
  BY DEF FinishJob, FailJob, api, kube, local
<1>2. /\ ~AllIdle
      /\ \A s : Idle(s) => Idle(s)'
      /\ \A ref : Submitted(ref) /\ Last(ref) => Last(ref)'
  BY <1>i, JobStops
<1>3. \A c : Done(c) => Done(c)'
  BY <1>2 DEF Done
<1>4. /\ HostsUp /\ spec <= sts /\ status.phase \in {"ScaleIn", "ScaleOut"}
      /\ pc \notin {"drop", "leader", "mark", "scaledIn"}
  BY <1>i, <1>2 DEF JobInv
<1>5. PhaseInv'
  BY <1>i, <1>1, PodFrame DEF PhaseInv
<1>6. HostsUp'
  BY <1>1, <1>4 DEF HostsUp
<1>7. HostInv'
  BY <1>i, <1>1, <1>6, PodFrame DEF HostInv
<1>8. JobInv'
  <2>1. Last(status.job)' /\ Last(nc.job)'
    BY <1>i, <1>1, <1>2 DEF JobInv, JobRecorded
  <2>2. Done(status)' /\ Done(nc)'
    BY <1>i, <1>1, <1>3 DEF JobInv
  <2> QED
    BY <1>i, <1>1, <1>2, <1>4, <1>6, <2>1, <2>2 DEF JobInv
<1>9. ClaimInv'
  <2>1. \A o \in Ordinals : parts'[o] # {} => parts[o] # {} \/ o \in hosts
    BY <1>t DEF FinishJob, FailJob
  <2>2. \A o \in hosts : o < sts /\ pods[o] # "absent"
    BY <1>i, <1>t, <1>4 DEF HostInv, HostsUp
  <2>3. \A o \in Ordinals : parts'[o] # {} => o < sts' /\ pods'[o] # "absent"
    BY <1>i, <1>1, <2>1, <2>2 DEF ClaimInv
  <2>4. pc = "delete" => \A o \in targets : o \notin hosts /\ parts[o] = {}
    BY <1>i, <1>2 DEF ClaimInv
  <2>5. pc' = "delete" => \A o \in targets' : o \notin hosts' /\ parts'[o] = {}
    BY <1>t, <1>1, <2>1, <2>4
  <2> QED
    BY <1>1, <2>2, <2>3, <2>5 DEF ClaimInv
<1> QED
  BY <1>5, <1>7, <1>8, <1>9

---------------------------------------------------------------------------
\* The jobs that a pass submits and recovers

\* While a pass balances or removes hosts, every host has its pod
LEMMA ScalingHosts ==
    ASSUME ReclaimInv, pc \in {"balance", "remove"}
    PROVE  /\ HostsUp /\ Full /\ want = spec /\ old = sts /\ spec <= sts
           /\ pc = "balance" => spec = sts
           /\ nc = status /\ \A o \in hosts : o < sts
<1>i. CarefulInv /\ RefInv /\ DropInv /\ PassInv /\ PhaseInv /\ HostInv /\ JobInv
  BY DEF ReclaimInv, CarefulInv
<1>t. /\ spec \in Nat /\ sts \in Nat /\ want \in Nat /\ old \in Nat
      /\ Ordinals \subseteq Nat /\ hosts \subseteq Ordinals
  BY <1>i, Plain
<1>1. want = spec /\ old = sts /\ nc = status
  BY <1>i, CurrentPass DEF Scaling, DropInv, JobInv
<1>2. Full /\ spec <= sts /\ (pc = "balance" => spec = sts)
  <2>1. CASE pc = "balance"
    <3>1. want >= old /\ ready /\ nc.phase = "ScaleOut"
      BY <1>i, <2>1 DEF DropInv, HostInv, PhaseInv
    <3>2. want = old /\ Full
      BY <1>i, <2>1, <3>1 DEF HostInv
    <3> QED
      BY <1>t, <1>1, <3>2
  <2>2. CASE pc = "remove"
    <3>1. want < old
      BY <1>i, <2>2 DEF PassInv
    <3> QED
      BY <1>i, <1>t, <1>1, <2>2, <3>1 DEF HostInv
  <2> QED
    BY <2>1, <2>2
<1>3. \A o \in hosts : o < sts
  BY <1>i, <1>t, <1>2 DEF HostInv
<1>4. HostsUp
  BY <1>t, <1>2, <1>3 DEF HostsUp, Full
<1> QED
  BY <1>1, <1>2, <1>3, <1>4

\* A step of the balancer or the remover that stays in its phase, or ends it
LEMMA ScalingStep ==
    ASSUME ReclaimInv, pc \in {"balance", "remove"},
           UNCHANGED <<spec, sts, pods, pvcs, hosts, spaces, parts, want, old, ready>>,
           nc'.hostsAdded = nc.hostsAdded, status' \in {status, nc'},
           \/ pc' \in {"job", "end", pc} /\ nc'.phase = nc.phase
           \/ pc = "balance" /\ pc' \in {"workload", "end"} /\ nc'.phase = "Running"
           \/ pc = "remove" /\ pc' = "drop" /\ nc' = nc
    PROVE  PhaseInv' /\ HostInv' /\ ClaimInv'
<1>i. RefInv /\ DropInv /\ PhaseInv /\ HostInv /\ JobInv /\ ClaimInv
  BY DEF ReclaimInv, CarefulInv
<1>t. /\ spec \in Nat /\ sts \in Nat /\ want \in Nat /\ old \in Nat
      /\ Ordinals \subseteq Nat /\ hosts \subseteq Ordinals
  BY <1>i, Plain
<1>1. /\ HostsUp /\ Full /\ want = spec /\ old = sts /\ spec <= sts
      /\ pc = "balance" => spec = sts
      /\ nc = status /\ \A o \in hosts : o < sts
  BY ScalingHosts
<1>2. /\ pc = "balance" => nc.phase = "ScaleOut" /\ status.phase = "ScaleOut"
      /\ pc = "remove" => nc.phase = "ScaleIn" /\ status.phase = "ScaleIn"
      /\ nc.hostsAdded
  BY <1>i DEF PhaseInv, HostInv
<1>3. HostsUp' /\ Full'
  BY <1>1 DEF HostsUp, Full
<1>4. PhaseInv'
  <2>1. \A p : PhaseFits(p)' <=> PhaseFits(p)
    BY PodFrame
  <2>2. PhaseFits("Running")
    BY DEF PhaseFits
  <2>3. PhaseFits(nc'.phase) /\ PhaseFits(status'.phase)
    BY <1>i, <1>2, <2>2 DEF PhaseInv
  <2>4. pc' = "workload" => ~(want' > old')
    BY <1>t, <1>1
  <2> QED
    BY <1>i, <1>1, <1>2, <1>3, <2>1, <2>3, <2>4 DEF PhaseInv
<1>5. HostInv'
  BY <1>i, <1>1, <1>2, <1>3, PodFrame DEF HostInv
<1>6. ClaimInv'
  BY <1>i, <1>1, <1>3 DEF ClaimInv, HostsUp
<1> QED
  BY <1>4, <1>5, <1>6

\* A new job leaves the other spaces alone and is the last of its space
LEMMA JobSubmitted ==
    ASSUME RefInv, NEW s \in Spaces, NEW H \in SUBSET Ordinals, SubmitJob(s, H)
    PROVE  /\ \A t : t # s /\ Idle(t) => Idle(t)'
           /\ \A ref : ref.space # s /\ Submitted(ref) /\ Last(ref) => Last(ref)'
           /\ nc' = nc \/ Last(nc.job)'
           /\ nc'.phase = nc.phase /\ nc'.hostsAdded = nc.hostsAdded
           /\ nc'.balanced = nc.balanced /\ nc'.removed = nc.removed
<1>t. jobs \in Seq(JobType) /\ Len(jobs) \in Nat /\ nc \in StatusType
  BY Plain
<1>1. /\ Len(jobs') = Len(jobs) + 1
      /\ \A k \in 1 .. Len(jobs) : jobs'[k] = jobs[k]
      /\ jobs'[Len(jobs) + 1].space = s
      /\ jobs'[Len(jobs) + 1].state = "running"
  BY <1>t, NewJob DEF SubmitJob
<1>2. ASSUME NEW t, t # s, Idle(t) PROVE Idle(t)'
  BY <1>t, <1>1, <1>2 DEF Idle
<1>3. ASSUME NEW ref, ref.space # s, Submitted(ref), Last(ref) PROVE Last(ref)'
  <2> SUFFICES ASSUME ref # NoJob PROVE Last(ref)'
    BY DEF Last
  <2>1. ref.id \in 1 .. Len(jobs)
    BY <1>3 DEF Submitted
  <2>2. \A k \in 1 .. Len(jobs') : k > ref.id => jobs'[k].space # ref.space
    BY <1>t, <1>1, <1>3 DEF Last
  <2>3. jobs'[ref.id].state = "finished" => Idle(ref.space)'
    BY <1>1, <1>2, <1>3, <2>1 DEF Last
  <2> QED
    BY <2>2, <2>3 DEF Last
<1>4. nc' = nc \/ nc' = WithJob(nc, s, Len(jobs) + 1)
  BY DEF SubmitJob
<1>5. /\ WithJob(nc, s, Len(jobs) + 1).job = [space |-> s, id |-> Len(jobs) + 1]
      /\ WithJob(nc, s, Len(jobs) + 1).phase = nc.phase
      /\ WithJob(nc, s, Len(jobs) + 1).hostsAdded = nc.hostsAdded
      /\ WithJob(nc, s, Len(jobs) + 1).balanced = nc.balanced
      /\ WithJob(nc, s, Len(jobs) + 1).removed = nc.removed
  BY <1>t DEF WithJob, StatusType
<1>6. PICK ref : ref = [space |-> s, id |-> Len(jobs) + 1]
  OBVIOUS
<1>7. ref.space = s /\ ref.id = Len(jobs) + 1
  BY <1>6
<1>8. Last(ref)'
  BY <1>t, <1>1, <1>7 DEF Last
<1>9. nc' = nc \/ nc'.job = ref
  BY <1>4, <1>5, <1>6
<1>10. nc' = nc \/ Last(nc.job)'
  BY <1>8, <1>9
<1> QED
  BY <1>2, <1>3, <1>4, <1>5, <1>10

\* A recovered job leaves the other spaces alone and stays the last of its own
LEMMA JobRecovered ==
    ASSUME RefInv, nc.job # NoJob, Last(nc.job), RecoverJob
    PROVE  /\ \A t : t # nc.job.space /\ Idle(t) => Idle(t)'
           /\ Last(nc.job)'
<1>t. jobs \in Seq(JobType) /\ Len(jobs) \in Nat /\ "running" \in JobState
  BY Plain DEF JobState
<1>1. nc.job.id \in 1 .. Len(jobs) /\ jobs[nc.job.id].space = nc.job.space
  BY DEF RefInv, JobRecorded, Submitted
<1>2. PICK id \in 1 .. Len(jobs) : id = nc.job.id
  BY <1>1
<1>3. /\ Len(jobs') = Len(jobs)
      /\ \A k \in 1 .. Len(jobs) : /\ jobs'[k].space = jobs[k].space
                                   /\ k # id => jobs'[k] = jobs[k]
      /\ jobs'[id].state = "running"
  BY <1>t, <1>2, JobStateType DEF RecoverJob
<1>4. ASSUME NEW t, t # nc.job.space, Idle(t) PROVE Idle(t)'
  BY <1>1, <1>2, <1>3, <1>4 DEF Idle
<1>5. Last(nc.job)'
  BY <1>2, <1>3 DEF Last, RecoverJob
<1> QED
  BY <1>4, <1>5

\* The jobs of a pass that handles space s, which its status does not take for
\* done: submitted, recovered or waited for
LEMMA ReclaimJob ==
    ASSUME ReclaimInv, pc \in {"balance", "remove"}, NEW s \in Spaces,
           NEW H \in SUBSET Ordinals,
           pc = "balance" => s \notin nc.balanced, pc = "remove" => s \notin nc.removed,
           UNCHANGED <<spec, sts, pods, hosts>>,
           \/ HasJob(s) /\ (RecoverJob \/ WaitForJob)
           \/ ~HasJob(s) /\ SubmitJob(s, H)
    PROVE  /\ JobInv' /\ status' = status /\ pc' \in {"job", "end"}
           /\ nc'.phase = nc.phase /\ nc'.hostsAdded = nc.hostsAdded
<1>i. RefInv /\ PhaseInv /\ HostInv /\ JobInv
  BY DEF ReclaimInv, CarefulInv
<1>1. HostsUp /\ spec <= sts /\ nc = status
  BY ScalingHosts
<1>2. /\ pc = "balance" => nc.phase = "ScaleOut"
      /\ pc = "remove" => nc.phase = "ScaleIn"
  BY <1>i DEF PhaseInv
<1>3. HostsUp'
  BY <1>1 DEF HostsUp
<1>4. status' = status /\ pc' \in {"job", "end"}
  BY DEF RecoverJob, WaitForJob, SubmitJob
<1>5. /\ nc'.phase = nc.phase /\ nc'.hostsAdded = nc.hostsAdded
      /\ nc'.balanced = nc.balanced /\ nc'.removed = nc.removed
      /\ Last(status.job)' /\ Last(nc.job)'
      /\ \A t : t # s /\ Idle(t) => Idle(t)'
  <2>1. CASE HasJob(s) /\ RecoverJob
    <3>1. nc.job # NoJob /\ nc.job.space = s /\ nc' = nc
      BY <2>1 DEF HasJob, RecoverJob
    <3>2. Last(nc.job)' /\ \A t : t # s /\ Idle(t) => Idle(t)'
      BY <1>i, <2>1, <3>1, JobRecovered DEF JobInv
    <3> QED
      BY <1>1, <1>4, <3>1, <3>2
  <2>2. CASE WaitForJob
    <3>1. UNCHANGED <<nc, jobs>>
      BY <2>2 DEF WaitForJob
    <3> QED
      BY <1>i, <1>4, <3>1, JobFrame DEF JobInv
  <2>3. CASE ~HasJob(s) /\ SubmitJob(s, H)
    <3>1. nc.job = NoJob \/ nc.job.space # s
      BY <2>3 DEF HasJob
    <3>2. nc.job.space # s
      BY <3>1, SpacesAssumption DEF NoJob
    <3>3. Last(nc.job) /\ Submitted(nc.job) /\ nc.job = status.job
      BY <1>i, <1>1 DEF JobInv, RefInv, JobRecorded
    <3>4. /\ \A ref : ref.space # s /\ Submitted(ref) /\ Last(ref) => Last(ref)'
          /\ nc' = nc \/ Last(nc.job)'
          /\ nc'.phase = nc.phase /\ nc'.hostsAdded = nc.hostsAdded
          /\ nc'.balanced = nc.balanced /\ nc'.removed = nc.removed
          /\ \A t : t # s /\ Idle(t) => Idle(t)'
      BY <1>i, <2>3, JobSubmitted
    <3>5. PICK ref : ref = nc.job
      OBVIOUS
    <3>6. Last(ref)'
      BY <3>2, <3>3, <3>4, <3>5
    <3>7. Last(status.job)'
      BY <1>4, <3>3, <3>5, <3>6
    <3>8. Last(nc.job)'
      BY <3>4, <3>5, <3>6
    <3> QED
      BY <3>4, <3>7, <3>8
  <2> QED
    BY <2>1, <2>2, <2>3
<1>6. Done(nc)'
  BY <1>i, <1>2, <1>5 DEF JobInv, Done
<1>7. Done(status)'
  BY <1>i, <1>1, <1>2, <1>4, <1>5 DEF JobInv, Done
<1>8. status'.phase = "ScaleOut" => AutoBalance
  BY <1>1, <1>2, <1>4, <1>i DEF HostInv
<1> QED
  BY <1>1, <1>2, <1>3, <1>4, <1>5, <1>6, <1>7, <1>8 DEF JobInv

LEMMA ReclaimBalance ==
    ASSUME ReclaimInv, ScaleOutBalance
    PROVE  PhaseInv' /\ HostInv' /\ JobInv' /\ ClaimInv'
<1>i. RefInv /\ PhaseInv /\ HostInv /\ JobInv /\ PassInv /\ SpaceInv
  BY DEF ReclaimInv, CarefulInv
<1>t. nc \in StatusType /\ listed \subseteq Spaces /\ listed = spaces
  BY <1>i DEF RefInv, TypeOK, PassInv, ScaleOutBalance
<1>1. /\ pc = "balance"
      /\ UNCHANGED <<spec, sts, pods, pvcs, hosts, spaces, parts, want, old, ready>>
  BY DEF ScaleOutBalance, kube
<1>2. /\ HostsUp /\ Full /\ spec = sts /\ nc = status
      /\ nc.phase = "ScaleOut" /\ AutoBalance
  BY <1>i, <1>1, ScalingHosts DEF PhaseInv, HostInv
<1>3. HostsUp'
  BY <1>1, <1>2 DEF HostsUp
<1>4. CASE \E s \in listed \ nc.balanced : HasJob(s) /\ JobIs("finished")
                                          /\ Save(WithBalanced(nc, s), "balance") /\ UNCHANGED jobs
  <2>1. PICK s \in listed : HasJob(s) /\ JobIs("finished")
                            /\ Save(WithBalanced(nc, s), "balance") /\ UNCHANGED jobs
    BY <1>4
  <2>2. Idle(s)
    BY <1>i, <2>1 DEF HasJob, JobIs, JobInv, Last
  <2>3. /\ nc'.phase = nc.phase /\ nc'.hostsAdded = nc.hostsAdded /\ nc'.job = nc.job
        /\ nc'.balanced = nc.balanced \cup {s}
        /\ nc' = WithBalanced(nc, s)
    BY <1>t, <2>1 DEF Save, WithBalanced, StatusType
  <2>4. /\ status' \in {status, nc'} /\ pc' \in {"balance", "end"}
        /\ pc' = "balance" => status' = nc'
    BY <2>1, <2>3 DEF Save
  <2>5. Done(nc)' /\ Done(status)'
    <3>1. \A t \in nc'.balanced : Idle(t)
      BY <1>i, <1>2, <2>2, <2>3 DEF JobInv, Done
    <3>2. \A t : Idle(t)' <=> Idle(t)
      BY <2>1, JobFrame
    <3> QED
      BY <1>2, <2>3, <2>4, <3>1, <3>2 DEF Done
  <2>6. JobInv'
    BY <1>i, <1>1, <1>2, <1>3, <2>1, <2>3, <2>4, <2>5, JobFrame DEF JobInv
  <2> QED
    BY <1>1, <2>3, <2>4, <2>6, ScalingStep
<1>5. CASE \E s \in listed \ nc.balanced :
              \/ HasJob(s) /\ (RecoverJob \/ WaitForJob)
              \/ ~HasJob(s) /\ SubmitJob(s, {})
  <2>1. PICK s \in listed \ nc.balanced :
              \/ HasJob(s) /\ (RecoverJob \/ WaitForJob)
              \/ ~HasJob(s) /\ SubmitJob(s, {})
    BY <1>5
  <2>2. /\ JobInv' /\ status' = status /\ pc' \in {"job", "end"}
        /\ nc'.phase = nc.phase /\ nc'.hostsAdded = nc.hostsAdded
    BY <1>t, <1>1, <2>1, ReclaimJob
  <2> QED
    BY <1>1, <2>2, ScalingStep
<1>6. CASE listed \ nc.balanced = {} /\ Save(ScaledOut(nc), "workload") /\ UNCHANGED jobs
  <2>1. AllIdle
    <3>1. \A t \in spaces : Idle(t)
      BY <1>i, <1>t, <1>2, <1>6 DEF JobInv, Done
    <3> QED
      BY <1>i, <3>1 DEF SpaceInv, Idle, AllIdle
  <2>2. /\ nc'.phase = "Running" /\ nc'.hostsAdded = nc.hostsAdded /\ nc'.job = NoJob
        /\ status' \in {status, nc'} /\ pc' \in {"workload", "end"}
    BY <1>t, <1>6 DEF Save, ScaledOut, StatusType
  <2>4. AllIdle' /\ Done(nc)' /\ Done(status)'
    BY <1>6, <2>1, JobFrame, NothingRuns
  <2>5. Last(nc.job)' /\ Last(status.job)'
    BY <1>i, <1>6, <2>2, JobFrame DEF JobInv, Last
  <2>6. JobInv'
    BY <2>2, <2>4, <2>5 DEF JobInv
  <2> QED
    BY <1>1, <2>2, <2>6, ScalingStep
<1> QED
  BY <1>4, <1>5, <1>6 DEF ScaleOutBalance, BalanceSpace

LEMMA ReclaimRemove ==
    ASSUME ReclaimInv, ScaleInRemove
    PROVE  PhaseInv' /\ HostInv' /\ JobInv' /\ ClaimInv'
<1>i. RefInv /\ PhaseInv /\ HostInv /\ JobInv /\ PassInv /\ SpaceInv
  BY DEF ReclaimInv, CarefulInv
<1>t. /\ nc \in StatusType /\ listed \subseteq Spaces /\ listed = spaces
      /\ targets \in SUBSET Ordinals
  BY <1>i DEF RefInv, TypeOK, PassInv, ScaleInRemove
<1>1. /\ pc = "remove"
      /\ UNCHANGED <<spec, sts, pods, pvcs, hosts, spaces, parts, want, old, ready>>
  BY DEF ScaleInRemove, kube
<1>2. HostsUp /\ spec <= sts /\ nc = status /\ nc.phase = "ScaleIn"
  BY <1>i, <1>1, ScalingHosts DEF PhaseInv
<1>3. HostsUp'
  BY <1>1, <1>2 DEF HostsUp
<1>4. CASE \E s \in listed \ nc.removed : HasJob(s) /\ JobIs("finished")
                                         /\ Save(WithRemoved(nc, s), "remove") /\ UNCHANGED jobs
  <2>1. PICK s \in listed : HasJob(s) /\ JobIs("finished")
                            /\ Save(WithRemoved(nc, s), "remove") /\ UNCHANGED jobs
    BY <1>4
  <2>2. Idle(s)
    BY <1>i, <2>1 DEF HasJob, JobIs, JobInv, Last
  <2>3. /\ nc'.phase = nc.phase /\ nc'.hostsAdded = nc.hostsAdded /\ nc'.job = nc.job
        /\ nc'.removed = nc.removed \cup {s}
        /\ nc' = WithRemoved(nc, s)
    BY <1>t, <2>1 DEF Save, WithRemoved, StatusType
  <2>4. /\ status' \in {status, nc'} /\ pc' \in {"remove", "end"}
        /\ pc' = "remove" => status' = nc'
    BY <2>1, <2>3 DEF Save
  <2>5. Done(nc)' /\ Done(status)'
    <3>1. \A t \in nc'.removed : Idle(t)
      BY <1>i, <1>2, <2>2, <2>3 DEF JobInv, Done
    <3>2. \A t : Idle(t)' <=> Idle(t)
      BY <2>1, JobFrame
    <3> QED
      BY <1>2, <2>3, <2>4, <3>1, <3>2 DEF Done
  <2>6. JobInv'
    BY <1>i, <1>1, <1>2, <1>3, <2>1, <2>3, <2>4, <2>5, JobFrame DEF JobInv
  <2> QED
    BY <1>1, <2>3, <2>4, <2>6, ScalingStep
<1>5. CASE \E s \in listed \ nc.removed :
              \/ HasJob(s) /\ (RecoverJob \/ WaitForJob)
              \/ ~HasJob(s) /\ SubmitJob(s, targets)
  <2>1. PICK s \in listed \ nc.removed :
              \/ HasJob(s) /\ (RecoverJob \/ WaitForJob)
              \/ ~HasJob(s) /\ SubmitJob(s, targets)
    BY <1>5
  <2>2. /\ JobInv' /\ status' = status /\ pc' \in {"job", "end"}
        /\ nc'.phase = nc.phase /\ nc'.hostsAdded = nc.hostsAdded
    BY <1>t, <1>1, <2>1, ReclaimJob
  <2> QED
    BY <1>1, <2>2, ScalingStep
<1>6. CASE listed \ nc.removed = {} /\ pc' = "drop" /\ UNCHANGED <<jobs, nc, status>>
  <2>1. AllIdle
    <3>1. \A t \in spaces : Idle(t)
      BY <1>i, <1>t, <1>2, <1>6 DEF JobInv, Done
    <3> QED
      BY <1>i, <3>1 DEF SpaceInv, Idle, AllIdle
  <2>2. AllIdle' /\ Done(nc)' /\ Done(status)'
    BY <1>6, <2>1, JobFrame, NothingRuns
  <2>3. Last(nc.job)' /\ Last(status.job)'
    BY <1>i, <1>6, JobFrame DEF JobInv
  <2>4. JobInv'
    BY <1>6, <2>2, <2>3 DEF JobInv
  <2> QED
    BY <1>1, <1>6, <2>4, ScalingStep
<1> QED
  BY <1>4, <1>5, <1>6 DEF ScaleInRemove, RemoveHost

---------------------------------------------------------------------------
\* The workload is updated: what it loses has no host and no partitions
LEMMA ReclaimUpdateWorkload ==
    ASSUME ReclaimInv, UpdateWorkload
    PROVE  PhaseInv' /\ HostInv' /\ JobInv' /\ ClaimInv'
<1>i. CarefulInv /\ RefInv /\ DropInv /\ PassInv /\ PhaseInv /\ HostInv /\ JobInv /\ ClaimInv
  BY DEF ReclaimInv, CarefulInv
<1>t. /\ spec \in Nat /\ sts \in Nat /\ want \in Nat /\ old \in Nat
      /\ Ordinals \subseteq Nat /\ hosts \subseteq Ordinals
  BY <1>i, Plain
<1>1. /\ sts' = want /\ pc = "workload" /\ pc' = "reclaim" /\ old = sts
      /\ UNCHANGED <<spec, want, old, parts, jobs, spaces, status, nc, pods, pvcs, hosts, ready>>
  BY <1>i DEF UpdateWorkload, api, metad, DropInv
<1>2. HostsUp' <=> HostsUp
  BY <1>1 DEF HostsUp
<1>3. CASE want = spec
  <2>1. \A o \in Surplus : o \notin hosts /\ parts[o] = {}
    <3>1. CASE want < old
      BY <1>i, <1>1, <1>3, <3>1, SurplusHasNoParts DEF LateSteps, PassInv, DropInv
    <3>2. CASE ~(want < old)
      BY <1>t, <1>1, <1>3, <3>2 DEF Surplus
    <3> QED
      BY <3>1, <3>2
  <2>2. \A o \in Ordinals : o < sts /\ ~(o < spec) => o \in Surplus
    BY <1>t DEF Surplus
  <2>3. \A o \in hosts : o < spec
    BY <1>i, <1>t, <2>1, <2>2 DEF HostInv
  <2>4. spec >= sts /\ NoneBeyond => NoneBeyond'
    BY <1>t, <1>1, <1>3 DEF NoneBeyond
  <2>5. \A p : p # "ScaleIn" /\ PhaseFits(p) => PhaseFits(p)'
    BY <1>t, <1>1, <1>3, <2>4 DEF PhaseFits
  <2>6. spec = sts /\ Full => Full'
    BY <1>1, <1>3 DEF Full
  <2>7. PhaseInv'
    BY <1>i, <1>t, <1>1, <1>3, <2>5, <2>6 DEF PhaseInv
  <2>8. HostInv'
    <3>1. ~(spec' < sts') /\ ~(spec' > sts') /\ spec' = sts'
      BY <1>t, <1>1, <1>3
    <3>2. \/ status.hostsAdded
          \/ spec' = sts' /\ spaces = {} /\ \A o \in Ordinals : pvcs[o] # "marked"
      BY <1>i, <3>1 DEF HostInv
    <3> QED
      BY <1>i, <1>1, <1>2, <1>3, <2>3, <3>1, <3>2 DEF HostInv
  <2>9. JobInv'
    BY <1>i, <1>t, <1>1, <1>2, <1>3, JobFrame DEF JobInv
  <2>10. ClaimInv'
    <3>1. \A o \in Ordinals : parts'[o] # {} => o < sts' /\ pods'[o] # "absent"
      BY <1>i, <1>t, <1>1, <1>3, <2>1, <2>2 DEF ClaimInv
    <3>2. spec > sts => status.phase = "ScaleOut"
      BY <1>i, <1>1, <1>3 DEF PhaseInv
    <3> QED
      BY <1>i, <1>1, <3>1, <3>2 DEF ClaimInv
  <2> QED
    BY <2>7, <2>8, <2>9, <2>10
<1>4. CASE Outdated
  <2>1. sts' = sts /\ want = sts
    BY <1>1, <1>4 DEF Outdated
  <2>2. PhaseInv'
    BY <1>i, <1>1, <2>1, PodFrame DEF PhaseInv
  <2>3. HostInv'
    BY <1>i, <1>1, <1>2, <2>1, PodFrame DEF HostInv
  <2>4. JobInv'
    BY <1>i, <1>1, <1>2, <2>1, JobFrame DEF JobInv
  <2>5. ClaimInv'
    BY <1>i, <1>1, <2>1 DEF ClaimInv
  <2> QED
    BY <2>2, <2>3, <2>4, <2>5
<1> QED
  BY <1>i, <1>1, <1>3, <1>4 DEF PassInv

---------------------------------------------------------------------------
\* The pass: StartReconcile to EndReconcile, without jobs and the workload

\* The fields of a status that a pass changes, as far as ReclaimInv reads them
LEMMA CopyFields ==
    ASSUME NEW c \in StatusType
    PROVE  /\ \A p \in Phases : /\ InPhase(c, p).phase = p
                                /\ InPhase(c, p).hostsAdded = c.hostsAdded
                                /\ InPhase(c, p).job = c.job
                                /\ InPhase(c, p).balanced = c.balanced
                                /\ InPhase(c, p).removed = c.removed
           /\ /\ WithHosts(c).phase = c.phase /\ WithHosts(c).hostsAdded = TRUE
              /\ WithHosts(c).job = c.job /\ WithHosts(c).balanced = c.balanced
              /\ WithHosts(c).removed = c.removed
           /\ \A s : /\ WithBalanced(c, s).phase = c.phase
                    /\ WithBalanced(c, s).hostsAdded = c.hostsAdded
                    /\ WithBalanced(c, s).job = c.job
                    /\ WithBalanced(c, s).removed = c.removed
           /\ /\ ScaledIn(c).phase = "Running" /\ ScaledIn(c).hostsAdded = c.hostsAdded
              /\ ScaledIn(c).job = NoJob
  BY DEF StatusType, InPhase, WithHosts, WithBalanced, ScaledIn

\* What the steps of a pass have in common: replicas, pods, partitions and jobs
\* stay, hosts are not added
LEMMA QuietStep ==
    ASSUME ReclaimInv, UNCHANGED <<spec, sts, pods, parts, jobs, spaces>>,
           hosts' \subseteq hosts
    PROVE  /\ Full' <=> Full
           /\ NoneBeyond' <=> NoneBeyond
           /\ \A p : PhaseFits(p)' <=> PhaseFits(p)
           /\ HostsUp => HostsUp'
           /\ AllIdle' <=> AllIdle
           /\ \A c : Done(c)' <=> Done(c)
           /\ \A ref : Last(ref)' <=> Last(ref)
  BY PodFrame, JobFrame DEF HostsUp

\* The start of a pass
LEMMA ReclaimStart ==
    ASSUME Careful, ReclaimInv, StartReconcile
    PROVE  PhaseInv' /\ HostInv' /\ JobInv' /\ ClaimInv'
<1>i. RefInv /\ PhaseInv /\ HostInv /\ JobInv /\ ClaimInv
  BY DEF ReclaimInv, CarefulInv
<1>t. spec \in Nat /\ sts \in Nat /\ status \in StatusType
  BY <1>i, Plain
<1>1. /\ pc' = "hosts" /\ old' = sts
      /\ UNCHANGED <<spec, status, sts, pods, pvcs, hosts, spaces, parts, jobs>>
  BY DEF StartReconcile, api, kube, metad
<1>2. /\ want' = spec /\ ready' = (ReadyReplicas = spec)
      /\ nc' = IF status.phase = "" THEN InPhase(status, "Running") ELSE status
  <2>1. PICK seen \in {Api, cache} :
           /\ seen = Api
           /\ want' = seen.spec
           /\ nc' = IF seen.status.phase = "" THEN InPhase(seen.status, "Running")
                                              ELSE seen.status
           /\ ready' = (ReadyReplicas = seen.spec)
    BY DEF StartReconcile, Careful
  <2> QED
    BY <2>1 DEF Api
<1>3. /\ nc'.phase = IF status.phase = "" THEN "Running" ELSE status.phase
      /\ nc'.hostsAdded = status.hostsAdded /\ nc'.job = status.job
      /\ nc'.phase = status.phase => nc' = status
      /\ nc'.phase # ""
  BY <1>t, <1>2, CopyFields DEF Phases
<1>4. /\ Full' <=> Full
      /\ NoneBeyond' <=> NoneBeyond
      /\ \A p : PhaseFits(p)' <=> PhaseFits(p)
      /\ HostsUp => HostsUp'
      /\ AllIdle' <=> AllIdle
      /\ \A c : Done(c)' <=> Done(c)
      /\ \A ref : Last(ref)' <=> Last(ref)
  BY <1>1, QuietStep
<1>5. PhaseFits("Running")
  BY DEF PhaseFits
<1>6. PhaseInv'
  BY <1>i, <1>1, <1>3, <1>4, <1>5 DEF PhaseInv
<1>7. ASSUME ready', want' >= old', want' > old' \/ nc'.phase = "ScaleOut"
      PROVE  want' = old' /\ Full'
  <2>1. NoneBeyond /\ spec >= sts
    BY <1>i, <1>t, <1>1, <1>2, <1>3, <1>7 DEF HostInv, PhaseInv, PhaseFits
  <2>2. ReadyReplicas = spec
    BY <1>2, <1>7
  <2> QED
    BY <1>i, <1>1, <1>2, <1>4, <2>1, <2>2, ReadyFull
<1>8. HostInv'
  BY <1>i, <1>1, <1>2, <1>3, <1>4, <1>7 DEF HostInv
<1>9. JobInv'
  <2>1. Done(nc)'
    BY <1>i, <1>3, <1>4 DEF JobInv, Done
  <2>2. Last(nc.job)'
    BY <1>i, <1>3, <1>4 DEF JobInv
  <2> QED
    BY <1>i, <1>1, <1>3, <1>4, <2>1, <2>2 DEF JobInv
<1>10. ClaimInv'
  BY <1>i, <1>1 DEF ClaimInv
<1> QED
  BY <1>6, <1>8, <1>9, <1>10

\* Hosts are added when the cluster is new or grows, and nothing runs then
LEMMA ReclaimAddHosts ==
    ASSUME Careful, ReclaimInv, AddStorageHosts
    PROVE  PhaseInv' /\ HostInv' /\ JobInv' /\ ClaimInv'
<1>i. /\ RefInv /\ DropInv /\ PassInv /\ SpaceInv
      /\ PhaseInv /\ HostInv /\ JobInv /\ ClaimInv
  BY DEF ReclaimInv, CarefulInv
<1>t. /\ spec \in Nat /\ sts \in Nat /\ want \in Nat /\ old \in Nat
      /\ nc \in StatusType /\ Ordinals \subseteq Nat /\ hosts \subseteq Ordinals
  BY <1>i, Plain
<1>1. /\ pc = "hosts" /\ pc' = "scale" /\ old = sts
      /\ UNCHANGED <<spec, status, sts, pods, pvcs, spaces, parts, jobs, want, old, ready>>
  BY <1>i DEF AddStorageHosts, api, kube, DropInv
<1>2. /\ nc'.phase = nc.phase /\ nc'.hostsAdded /\ nc'.job = nc.job
      /\ nc'.balanced = nc.balanced /\ nc'.removed = nc.removed
  BY <1>t, CopyFields DEF AddStorageHosts
<1>3. hosts' = hosts \/ (~nc.hostsAdded \/ want > old)
  BY DEF AddStorageHosts
<1>4. \A o \in hosts' : o \in hosts \/ o < want
  BY <1>t DEF AddStorageHosts
<1>5. want = spec \/ want = sts
  BY <1>i, <1>1 DEF PassInv, Outdated
<1>6. /\ Full' <=> Full
      /\ NoneBeyond' <=> NoneBeyond
      /\ \A p : PhaseFits(p)' <=> PhaseFits(p)
      /\ AllIdle' <=> AllIdle
      /\ \A c : Done(c)' <=> Done(c)
      /\ \A ref : Last(ref)' <=> Last(ref)
  BY <1>1, PodFrame, JobFrame
<1>7. HostsUp /\ hosts' = hosts => HostsUp'
  BY <1>1 DEF HostsUp
<1>8. PhaseInv'
  BY <1>i, <1>1, <1>2, <1>6 DEF PhaseInv
<1>9. ASSUME want # spec PROVE hosts' = hosts
  <2>1. want = sts /\ status.hostsAdded
    BY <1>i, <1>5, <1>9 DEF HostInv
  <2>2. nc.hostsAdded
    BY <1>i, <1>1, <2>1 DEF HostInv
  <2> QED
    BY <1>t, <1>1, <1>3, <2>1, <2>2
<1>10. HostInv'
  <2>1. \A o \in hosts' : o < spec' \/ o < sts'
    BY <1>i, <1>1, <1>4, <1>5 DEF HostInv
  <2>2. pc' # "idle" /\ want' # spec' => HostsUp'
    BY <1>i, <1>1, <1>7, <1>9 DEF HostInv
  <2> QED
    BY <1>i, <1>1, <1>2, <1>6, <2>1, <2>2 DEF HostInv
<1>11. ASSUME ~AllIdle PROVE hosts' = hosts
  <2>1. spec <= sts
    BY <1>i, <1>11 DEF JobInv
  <2>2. ~(want > old)
    BY <1>t, <1>1, <1>5, <2>1
  <2>3. spaces # {}
    BY <1>i, <1>11 DEF SpaceInv, AllIdle
  <2>4. nc.hostsAdded
    BY <1>i, <1>1, <2>3 DEF HostInv
  <2> QED
    BY <1>3, <2>2, <2>4
<1>12. JobInv'
  <2>1. Done(nc)'
    BY <1>i, <1>2, <1>6 DEF JobInv, Done
  <2>2. Last(nc.job)'
    BY <1>i, <1>2, <1>6 DEF JobInv
  <2> QED
    BY <1>i, <1>1, <1>2, <1>6, <1>7, <1>11, <2>1, <2>2 DEF JobInv
<1>13. ClaimInv'
  <2>1. ASSUME NEW o \in hosts', pods'[o] = "absent", pvcs'[o] = "marked"
        PROVE  status'.phase = "ScaleOut" \/ spec' > sts'
    <3>1. CASE hosts' = hosts
      BY <1>i, <1>1, <2>1, <3>1 DEF ClaimInv
    <3>2. CASE want > old
      BY <1>t, <1>1, <1>5, <3>2
    <3>3. CASE ~nc.hostsAdded
      <4>1. ~status.hostsAdded
        BY <1>i, <1>1, <3>3 DEF HostInv
      <4>2. o \in Ordinals
        BY RefInvNext DEF AddStorageHosts, RefInv, TypeOK, Next, Reconcile, ReclaimInv, CarefulInv
      <4> QED
        BY <1>i, <1>1, <2>1, <4>1, <4>2 DEF HostInv
    <3> QED
      BY <1>3, <3>1, <3>2, <3>3
  <2> QED
    BY <1>i, <1>1, <2>1 DEF ClaimInv
<1> QED
  BY <1>8, <1>10, <1>12, <1>13

\* What the phases say of the replicas, in plain arithmetic
LEMMA PhaseFacts ==
    ASSUME RefInv, PhaseInv
    PROVE  /\ status.phase = "ScaleIn" => spec < sts
           /\ nc.phase = "ScaleIn" => spec < sts
           /\ status.phase = "ScaleOut" => spec >= sts /\ NoneBeyond /\ ~(spec < sts)
           /\ nc.phase = "ScaleOut" => spec >= sts /\ NoneBeyond /\ ~(spec < sts)
<1>t. spec \in Nat /\ sts \in Nat
  BY Plain
<1>1. \A p : PhaseFits(p) => /\ p = "ScaleIn" => spec < sts
                             /\ p = "ScaleOut" => spec >= sts /\ NoneBeyond /\ ~(spec < sts)
  BY <1>t DEF PhaseFits
<1> QED
  BY <1>1 DEF PhaseInv

\* The phase that the scaler starts is the one that users asked for
LEMMA ReclaimScale ==
    ASSUME Careful, ReclaimInv, Scale
    PROVE  PhaseInv' /\ HostInv' /\ JobInv' /\ ClaimInv'
<1>i. RefInv /\ DropInv /\ PassInv /\ PhaseInv /\ HostInv /\ JobInv /\ ClaimInv
  BY DEF ReclaimInv, CarefulInv
<1>t. /\ spec \in Nat /\ sts \in Nat /\ want \in Nat /\ old \in Nat
      /\ nc \in StatusType
  BY <1>i, Plain
<1>1. /\ pc = "scale" /\ old = sts /\ nc.hostsAdded
      /\ UNCHANGED <<spec, sts, pods, pvcs, hosts, spaces, parts, jobs, want, old, ready>>
      /\ nc.phase = IF status.phase = "" THEN "Running" ELSE status.phase
  BY <1>i DEF Scale, kube, metad, DropInv, HostInv, PhaseInv
<1>2. want # old => want = spec
  BY <1>i, <1>1 DEF PassInv, Outdated
<1>a. old = sts /\ want' = want /\ old' = old
  BY <1>1
<1>b. /\ want < old => spec < sts
      /\ want > old => spec > sts
  BY <1>t, <1>2, <1>a
<1>3. /\ Full' <=> Full
      /\ NoneBeyond' <=> NoneBeyond
      /\ \A p : PhaseFits(p)' <=> PhaseFits(p)
      /\ HostsUp => HostsUp'
      /\ AllIdle' <=> AllIdle
      /\ \A c : Done(c)' <=> Done(c)
      /\ \A ref : Last(ref)' <=> Last(ref)
  BY <1>1, QuietStep
<1>4. ASSUME NEW p \in {"ScaleIn", "ScaleOut"},
             NEW next \in {"in", "out"}, next = "in" <=> p = "ScaleIn",
             Save(InPhase(nc, p), next),
             p = "ScaleIn" => want < old \/ nc.phase = "ScaleIn",
             p = "ScaleOut" => (want > old \/ nc.phase = "ScaleOut") /\ nc.phase # "ScaleIn"
                                /\ want >= old
      PROVE  PhaseInv' /\ HostInv' /\ JobInv' /\ ClaimInv'
  <2>1. /\ nc'.phase = p /\ nc'.hostsAdded /\ nc'.job = nc.job
        /\ nc'.balanced = nc.balanced /\ nc'.removed = nc.removed
        /\ \/ status' = nc' /\ pc' = next
           \/ status' = status /\ pc' = "end"
    <3>1. p \in Phases
      BY DEF Phases
    <3>2. /\ nc' = InPhase(nc, p)
          /\ \/ status' = nc' /\ pc' = next
             \/ status' = status /\ pc' = "end"
      BY <1>4 DEF Save
    <3> QED
      BY <1>t, <1>1, <3>1, <3>2, CopyFields
  <2>2. /\ p = "ScaleIn" => spec < sts
        /\ p = "ScaleOut" => spec >= sts /\ NoneBeyond
    <3>1. spec > sts => NoneBeyond
      BY <1>i DEF HostInv
    <3>2. want < old => spec < sts
      BY <1>b
    <3>3. want > old => spec > sts
      BY <1>b
    <3>4. CASE p = "ScaleIn"
      BY <1>i, <1>4, <3>2, <3>4, PhaseFacts
    <3>5. CASE p = "ScaleOut"
      <4>1. CASE want > old
        BY <1>t, <3>1, <3>3, <3>5, <4>1
      <4>2. CASE nc.phase = "ScaleOut"
        BY <1>i, <3>5, <4>2, PhaseFacts
      <4> QED
        BY <1>4, <3>5, <4>1, <4>2
    <3> QED
      BY <3>4, <3>5
  <2>3. PhaseFits(p)
    BY <2>2 DEF PhaseFits
  <2>4. /\ nc.phase = "ScaleIn" => p = "ScaleIn"
        /\ nc.phase = "ScaleOut" => p = "ScaleOut"
    <3>1. nc.phase = "ScaleOut" => ~(spec < sts)
      BY <1>i, PhaseFacts
    <3> QED
      BY <1>4, <2>2, <3>1
  <2>5. p = "ScaleOut" => status.phase = "ScaleOut" \/ spec > sts
    <3>1. want > old => spec > sts
      BY <1>b
    <3>2. nc.phase = "ScaleOut" => status.phase = "ScaleOut"
      BY <1>1
    <3> QED
      BY <1>4, <3>1, <3>2
  <2>6. PhaseInv'
    BY <1>i, <1>t, <1>1, <1>3, <2>1, <2>3, <2>5, <1>4 DEF PhaseInv
  <2>7. HostInv'
    BY <1>i, <1>t, <1>1, <1>3, <1>4, <2>1 DEF HostInv
  <2>8. JobInv'
    <3>1. Done(nc)' /\ Done(status)'
      <4>1. CASE AllIdle
        BY <1>3, <4>1, NothingRuns
      <4>2. CASE ~AllIdle
        <5>1. nc.phase = p
          BY <1>i, <1>1, <2>4, <4>2 DEF JobInv
        <5> QED
          BY <1>i, <1>3, <2>1, <5>1 DEF JobInv, Done
      <4> QED
        BY <4>1, <4>2
    <3>2. Last(nc.job)' /\ Last(status.job)'
      BY <1>i, <1>3, <2>1 DEF JobInv
    <3>3. ~AllIdle => p = status.phase
      BY <1>i, <1>1, <2>4 DEF JobInv
    <3> QED
      BY <1>i, <1>1, <1>3, <1>4, <2>1, <3>1, <3>2, <3>3 DEF JobInv
  <2>9. ClaimInv'
    <3>1. status.phase = "ScaleOut" => status'.phase = "ScaleOut"
      BY <1>1, <2>1, <2>4
    <3> QED
      BY <1>i, <1>1, <1>4, <2>1, <3>1 DEF ClaimInv
  <2> QED
    BY <2>6, <2>7, <2>8, <2>9
<1>5. CASE /\ want = old /\ nc.phase \notin {"ScaleIn", "ScaleOut"} /\ pc' = "workload"
           /\ UNCHANGED <<nc, status>>
  <2>1. PhaseInv'
    <3>1. ~(want' > old')
      <4>1. want = old
        BY <1>5
      <4> QED
        BY <1>t, <1>a, <4>1
    <3>2. status.phase # "ScaleIn" /\ status.phase # "ScaleOut"
      BY <1>1, <1>5
    <3> QED
      BY <1>i, <1>1, <1>3, <1>5, <3>1, <3>2 DEF PhaseInv
  <2>2. HostInv'
    BY <1>i, <1>1, <1>3, <1>5 DEF HostInv
  <2>3. JobInv'
    BY <1>i, <1>1, <1>3, <1>5 DEF JobInv
  <2>4. ClaimInv'
    BY <1>i, <1>1, <1>5 DEF ClaimInv
  <2> QED
    BY <2>1, <2>2, <2>3, <2>4
<1>6. CASE (want < old \/ nc.phase = "ScaleIn") /\ Save(InPhase(nc, "ScaleIn"), "in")
  BY <1>4, <1>6
<1>7. CASE /\ ~(want < old \/ nc.phase = "ScaleIn") /\ (want > old \/ nc.phase = "ScaleOut")
           /\ Save(InPhase(nc, "ScaleOut"), "out")
  BY <1>t, <1>4, <1>7
<1> QED
  BY <1>5, <1>6, <1>7 DEF Scale

\* The status takes over the copy of the pass
LEMMA CopySaved ==
    ASSUME ReclaimInv, pc \in {"job", "end"}
    PROVE  /\ Done(nc) /\ PhaseFits(nc.phase) /\ Last(nc.job)
           /\ nc.phase = "ScaleOut" /\ ~AllIdle => AutoBalance
           /\ nc.hostsAdded \/ ~status.hostsAdded
           /\ \A o \in hosts : pods[o] = "absent" /\ pvcs[o] = "marked" =>
                                nc.phase = "ScaleOut" \/ spec > sts
<1>i. RefInv /\ PhaseInv /\ HostInv /\ JobInv /\ ClaimInv
  BY DEF ReclaimInv, CarefulInv
<1>t. /\ spec \in Nat /\ sts \in Nat /\ nc \in StatusType
      /\ Ordinals \subseteq Nat /\ hosts \subseteq Ordinals
  BY <1>i, Plain
<1>1. nc.phase = "ScaleOut" /\ ~AllIdle => AutoBalance
  <2> SUFFICES ASSUME nc.phase = "ScaleOut", ~AllIdle PROVE AutoBalance
    OBVIOUS
  <2>1. ~(spec < sts)
    BY <1>i, PhaseFacts
  <2>2. status.phase # "ScaleIn"
    BY <1>i, <2>1, PhaseFacts
  <2> QED
    BY <1>i, <2>2 DEF JobInv
<1>2. ASSUME NEW o \in hosts, pods[o] = "absent", pvcs[o] = "marked",
             nc.phase # "ScaleOut", ~(spec > sts)
      PROVE  FALSE
  <2>1. status.phase = "ScaleOut"
    BY <1>i, <1>2 DEF ClaimInv
  <2>2. ~(spec < sts)
    BY <1>i, <2>1, PhaseFacts
  <2>3. nc.phase = "Running"
    <3>1. nc.phase \in Phases
      BY <1>t DEF StatusType
    <3>2. nc.phase # ""
      BY <1>i DEF PhaseInv
    <3>3. nc.phase # "ScaleIn"
      BY <1>i, <2>2, PhaseFacts
    <3> QED
      BY <1>2, <3>1, <3>2, <3>3 DEF Phases
  <2>4. Full /\ spec = sts
    BY <1>i, <2>1, <2>3 DEF PhaseInv
  <2>5. o < sts /\ o \in Ordinals
    BY <1>i, <1>t, <2>4 DEF HostInv
  <2> QED
    BY <1>2, <2>4, <2>5 DEF Full
<1> QED
  BY <1>i, <1>1, <1>2 DEF PhaseInv, HostInv, JobInv

LEMMA ReclaimSave ==
    ASSUME ReclaimInv, SaveJob \/ EndReconcile
    PROVE  PhaseInv' /\ HostInv' /\ JobInv' /\ ClaimInv'
<1>i. RefInv /\ PhaseInv /\ HostInv /\ JobInv /\ ClaimInv
  BY DEF ReclaimInv, CarefulInv
<1>1. /\ pc \in {"job", "end"} /\ status' \in {status, nc}
      /\ UNCHANGED <<spec, sts, pods, pvcs, hosts, spaces, parts, jobs>>
      /\ \/ pc' = "end" /\ UNCHANGED <<nc, want>>
         \/ pc' = "idle" /\ nc' = NewStatus /\ status' = nc
  BY DEF SaveJob, EndReconcile, Forget, kube, metad
<1>2. /\ NewStatus.phase = "" /\ NewStatus.job = NoJob
  BY DEF NewStatus
<1>3. /\ Full' <=> Full
      /\ NoneBeyond' <=> NoneBeyond
      /\ \A p : PhaseFits(p)' <=> PhaseFits(p)
      /\ HostsUp => HostsUp'
      /\ AllIdle' <=> AllIdle
      /\ \A c : Done(c)' <=> Done(c)
      /\ \A ref : Last(ref)' <=> Last(ref)
  BY <1>1, QuietStep
<1>4. /\ Done(nc) /\ PhaseFits(nc.phase) /\ Last(nc.job)
      /\ nc.phase = "ScaleOut" /\ ~AllIdle => AutoBalance
      /\ nc.hostsAdded \/ ~status.hostsAdded
      /\ \A o \in hosts : pods[o] = "absent" /\ pvcs[o] = "marked" =>
                           nc.phase = "ScaleOut" \/ spec > sts
  BY <1>1, CopySaved
<1>5. PhaseFits("") /\ Last(NoJob) /\ Done(NewStatus)
  BY <1>2 DEF PhaseFits, Last, Done
<1>6. PhaseInv'
  BY <1>i, <1>1, <1>2, <1>3, <1>4, <1>5 DEF PhaseInv
<1>7. HostInv'
  BY <1>i, <1>1, <1>3, <1>4 DEF HostInv
<1>8. JobInv'
  <2>1. Last(nc.job)' /\ Last(status.job)'
    BY <1>i, <1>1, <1>2, <1>3, <1>4, <1>5 DEF JobInv
  <2>2. Done(nc)' /\ Done(status)'
    BY <1>i, <1>1, <1>2, <1>3, <1>4, <1>5 DEF JobInv
  <2> QED
    BY <1>i, <1>1, <1>3, <1>4, <2>1, <2>2 DEF JobInv
<1>9. ClaimInv'
  BY <1>i, <1>1, <1>4 DEF ClaimInv
<1> QED
  BY <1>6, <1>7, <1>8, <1>9

\* A pass ends, or its steps fail
LEMMA ReclaimFails ==
    ASSUME ReclaimInv, CallFails \/ Crash
    PROVE  PhaseInv' /\ HostInv' /\ JobInv' /\ ClaimInv'
<1>i. RefInv /\ PhaseInv /\ HostInv /\ JobInv /\ ClaimInv
  BY DEF ReclaimInv, CarefulInv
<1>1. /\ UNCHANGED <<spec, sts, pods, pvcs, hosts, spaces, parts, jobs, status>>
      /\ \/ pc # "idle" /\ pc' = "end" /\ UNCHANGED <<nc, want>>
         \/ pc' = "idle" /\ nc' = NewStatus
  BY DEF CallFails, Crash, Forget, kube, metad, api
<1>2. /\ NewStatus.phase = "" /\ NewStatus.job = NoJob
  BY DEF NewStatus
<1>3. /\ Full' <=> Full
      /\ NoneBeyond' <=> NoneBeyond
      /\ \A p : PhaseFits(p)' <=> PhaseFits(p)
      /\ HostsUp => HostsUp'
      /\ AllIdle' <=> AllIdle
      /\ \A c : Done(c)' <=> Done(c)
      /\ \A ref : Last(ref)' <=> Last(ref)
  BY <1>1, QuietStep
<1>4. PhaseFits("") /\ Last(NoJob) /\ Done(NewStatus)
  BY <1>2 DEF PhaseFits, Last, Done
<1>5. PhaseInv'
  BY <1>i, <1>1, <1>2, <1>3, <1>4 DEF PhaseInv
<1>6. HostInv'
  BY <1>i, <1>1, <1>3 DEF HostInv
<1>7. JobInv'
  <2>1. Last(nc.job)' /\ Done(nc)'
    BY <1>i, <1>1, <1>2, <1>3, <1>4 DEF JobInv
  <2> QED
    BY <1>i, <1>1, <1>3, <2>1 DEF JobInv
<1>8. ClaimInv'
  BY <1>i, <1>1 DEF ClaimInv
<1> QED
  BY <1>5, <1>6, <1>7, <1>8

---------------------------------------------------------------------------
\* What holds while the scaler scales out, and while it scales in
LEMMA ScaleOutFacts ==
    ASSUME ReclaimInv, pc = "out"
    PROVE  /\ nc = status /\ status.phase = "ScaleOut" /\ nc.hostsAdded
           /\ want = spec /\ old = sts
           /\ ready => want = old /\ Full
           /\ nc \in StatusType
<1>i. CarefulInv /\ RefInv /\ DropInv /\ PhaseInv /\ HostInv /\ JobInv
  BY DEF ReclaimInv, CarefulInv
<1>1. /\ nc = status /\ status.phase = "ScaleOut" /\ nc.phase = "ScaleOut" /\ nc.hostsAdded
      /\ want >= old /\ old = sts
  BY <1>i DEF PhaseInv, HostInv, JobInv, DropInv
<1>2. want = spec
  BY <1>i, CurrentPass DEF Scaling
<1>3. ready => want = old /\ Full
  BY <1>i, <1>1 DEF HostInv
<1>4. nc \in StatusType
  BY <1>i, Plain
<1> QED
  BY <1>1, <1>2, <1>3, <1>4

LEMMA ScaleInFacts ==
    ASSUME ReclaimInv, pc \in {"in", "drop", "leader", "mark", "scaledIn"}
    PROVE  /\ status.phase = "ScaleIn" /\ nc.phase = "ScaleIn"
           /\ status.hostsAdded /\ nc.hostsAdded
           /\ want = spec /\ old = sts /\ want < old /\ ~(spec > sts) /\ Full
           /\ pc # "in" => AllIdle
           /\ nc \in StatusType
<1>i. CarefulInv /\ RefInv /\ DropInv /\ PhaseInv /\ HostInv /\ JobInv
  BY DEF ReclaimInv, CarefulInv
<1>t. spec \in Nat /\ sts \in Nat /\ nc \in StatusType
  BY <1>i, Plain
<1>1. /\ status.phase = "ScaleIn" /\ nc.phase = "ScaleIn"
      /\ nc.hostsAdded /\ old = sts
      /\ pc # "in" => AllIdle
  BY <1>i DEF PhaseInv, HostInv, JobInv, DropInv
<1>2. want = spec
  BY <1>i, CurrentPass DEF Scaling
<1>3. spec < sts
  BY <1>i, <1>1, PhaseFacts
<1>4. ~(spec = sts) /\ ~(spec > sts)
  BY <1>t, <1>3
<1>5. status.hostsAdded /\ Full
  BY <1>i, <1>3, <1>4 DEF HostInv
<1> QED
  BY <1>t, <1>1, <1>2, <1>3, <1>4, <1>5

LEMMA ReclaimScaleOut ==
    ASSUME ReclaimInv, ScaleOut
    PROVE  PhaseInv' /\ HostInv' /\ JobInv' /\ ClaimInv'
<1>i. RefInv /\ PhaseInv /\ HostInv /\ JobInv /\ ClaimInv
  BY DEF ReclaimInv, CarefulInv
<1>1. /\ pc = "out"
      /\ UNCHANGED <<spec, sts, pods, pvcs, hosts, spaces, parts, jobs, want, old, ready, status>>
  BY DEF ScaleOut, api, kube, metad
<1>2. /\ nc = status /\ status.phase = "ScaleOut" /\ nc.hostsAdded
      /\ want = spec /\ old = sts
      /\ ready => want = old /\ Full
      /\ nc \in StatusType
  BY <1>1, ScaleOutFacts
<1>t. spec \in Nat /\ sts \in Nat
  BY <1>i, Plain
<1>3. /\ Full' <=> Full
      /\ NoneBeyond' <=> NoneBeyond
      /\ \A p : PhaseFits(p)' <=> PhaseFits(p)
      /\ HostsUp => HostsUp'
      /\ AllIdle' <=> AllIdle
      /\ \A c : Done(c)' <=> Done(c)
      /\ \A ref : Last(ref)' <=> Last(ref)
  BY <1>1, QuietStep
<1>4. CASE pc' \in {"balance", "workload"} /\ nc' = nc
           /\ (pc' = "balance" => ready /\ AutoBalance)
  <2>1. PhaseInv'
    BY <1>i, <1>1, <1>2, <1>3, <1>4 DEF PhaseInv
  <2>2. HostInv'
    BY <1>i, <1>1, <1>2, <1>3, <1>4 DEF HostInv
  <2>3. JobInv'
    BY <1>i, <1>1, <1>2, <1>3, <1>4 DEF JobInv
  <2>4. ClaimInv'
    BY <1>i, <1>1, <1>4 DEF ClaimInv
  <2> QED
    BY <2>1, <2>2, <2>3, <2>4
<1>5. CASE ready /\ ~AutoBalance /\ nc' = InPhase(nc, "Running") /\ pc' = "workload"
  <2>1. /\ nc'.phase = "Running" /\ nc'.hostsAdded /\ nc'.job = nc.job
        /\ pc' = "workload"
    BY <1>2, <1>5, CopyFields DEF Phases
  <2>2. Full /\ want = old /\ spec = sts
    BY <1>2, <1>5
  <2>3. AllIdle
    BY <1>i, <1>2, <1>5 DEF JobInv
  <2>4. PhaseFits("Running")
    BY DEF PhaseFits
  <2>5. ~(want' > old')
    <3>1. want' = spec /\ old' = sts
      BY <1>1, <1>2
    <3> QED
      BY <1>t, <2>2, <3>1
  <2>6. PhaseInv'
    BY <1>i, <1>1, <1>2, <1>3, <2>1, <2>2, <2>4, <2>5 DEF PhaseInv
  <2>7. HostInv'
    BY <1>i, <1>1, <1>2, <1>3, <2>1 DEF HostInv
  <2>8. JobInv'
    <3>1. Done(nc)' /\ Done(status)' /\ AllIdle'
      BY <1>3, <2>3, NothingRuns
    <3>2. Last(nc.job)' /\ Last(status.job)'
      BY <1>i, <1>1, <1>3, <2>1 DEF JobInv
    <3> QED
      BY <2>1, <3>1, <3>2 DEF JobInv
  <2>9. ClaimInv'
    BY <1>i, <1>1, <2>1 DEF ClaimInv
  <2> QED
    BY <2>6, <2>7, <2>8, <2>9
<1> QED
  BY <1>4, <1>5 DEF ScaleOut

LEMMA ReclaimScaleIn ==
    ASSUME ReclaimInv, ScaleIn
    PROVE  PhaseInv' /\ HostInv' /\ JobInv' /\ ClaimInv'
<1>i. RefInv /\ PhaseInv /\ HostInv /\ JobInv /\ ClaimInv
  BY DEF ReclaimInv, CarefulInv
<1>t. want \in Nat /\ old \in Nat
  BY <1>i, Plain
<1>1. /\ pc = "in" /\ nc' = nc
      /\ UNCHANGED <<spec, sts, pods, pvcs, hosts, spaces, parts, jobs, want, old, ready, status>>
  BY DEF ScaleIn, api, kube, metad
<1>2. /\ status.phase = "ScaleIn" /\ nc.phase = "ScaleIn"
      /\ status.hostsAdded /\ nc.hostsAdded /\ want < old
  BY <1>1, ScaleInFacts
<1>3. pc' = "remove"
  BY <1>t, <1>2 DEF ScaleIn
<1>4. /\ Full' <=> Full
      /\ NoneBeyond' <=> NoneBeyond
      /\ \A p : PhaseFits(p)' <=> PhaseFits(p)
      /\ HostsUp => HostsUp'
      /\ AllIdle' <=> AllIdle
      /\ \A c : Done(c)' <=> Done(c)
      /\ \A ref : Last(ref)' <=> Last(ref)
  BY <1>1, QuietStep
<1>5. PhaseInv'
  BY <1>i, <1>1, <1>2, <1>3, <1>4 DEF PhaseInv
<1>6. HostInv'
  BY <1>i, <1>1, <1>2, <1>3, <1>4 DEF HostInv
<1>7. JobInv'
  BY <1>i, <1>1, <1>2, <1>3, <1>4 DEF JobInv
<1>8. ClaimInv'
  BY <1>i, <1>1, <1>3 DEF ClaimInv
<1> QED
  BY <1>5, <1>6, <1>7, <1>8

\* From DropHosts to the end of a scale-in: no job runs any more
LEMMA ReclaimScaledIn ==
    ASSUME ReclaimInv, DropHosts \/ BalanceLeaders \/ PVCMark \/ ScaleInDone
    PROVE  PhaseInv' /\ HostInv' /\ JobInv' /\ ClaimInv'
<1>i. RefInv /\ PhaseInv /\ HostInv /\ JobInv /\ ClaimInv
  BY DEF ReclaimInv, CarefulInv
<1>t. /\ want \in Nat /\ old \in Nat /\ spec \in Nat /\ sts \in Nat
      /\ Ordinals \subseteq Nat /\ hosts \subseteq Ordinals
  BY <1>i, Plain
<1>1. /\ pc \in {"drop", "leader", "mark", "scaledIn"} /\ hosts' \subseteq hosts
      /\ UNCHANGED <<spec, sts, pods, spaces, parts, jobs, want, old, ready>>
      /\ pc' \in {"leader", "mark", "scaledIn", "workload", "end"}
  BY DEF DropHosts, BalanceLeaders, PVCMark, ScaleInDone, Save, api, kube, metad
<1>2. /\ status.phase = "ScaleIn" /\ nc.phase = "ScaleIn"
      /\ status.hostsAdded /\ nc.hostsAdded
      /\ want = spec /\ old = sts /\ want < old /\ ~(spec > sts) /\ Full
      /\ AllIdle /\ nc \in StatusType
  BY <1>1, ScaleInFacts
<1>3. /\ Full' <=> Full
      /\ NoneBeyond' <=> NoneBeyond
      /\ \A p : PhaseFits(p)' <=> PhaseFits(p)
      /\ HostsUp => HostsUp'
      /\ AllIdle' <=> AllIdle
      /\ \A c : Done(c)' <=> Done(c)
      /\ \A ref : Last(ref)' <=> Last(ref)
  BY <1>1, QuietStep
\* the copy stays in its phase, or the scale-in is done
<1>4. /\ nc'.hostsAdded /\ status' \in {status, nc'}
      /\ \/ pc' # "workload" /\ nc'.phase = "ScaleIn" /\ nc'.job = nc.job
         \/ /\ pc' \in {"workload", "end"} /\ nc'.phase = "Running" /\ nc'.job = NoJob
            /\ pc' = "workload" => status' = nc'
  <2>1. CASE DropHosts \/ PVCMark
    BY <1>2, <2>1 DEF DropHosts, PVCMark, api
  <2>2. CASE BalanceLeaders
    <3>1. CASE nc' = nc /\ status' = status /\ pc' = "mark"
      BY <1>2, <3>1
    <3>2. ASSUME NEW s, Save(WithBalanced(nc, s), "leader")
          PROVE  /\ nc'.hostsAdded /\ status' \in {status, nc'}
                 /\ pc' # "workload" /\ nc'.phase = "ScaleIn" /\ nc'.job = nc.job
      <4>1. /\ WithBalanced(nc, s).phase = nc.phase /\ WithBalanced(nc, s).job = nc.job
            /\ WithBalanced(nc, s).hostsAdded = nc.hostsAdded
        <5>1. nc \in StatusType
          BY <1>2
        <5> QED
          BY <5>1, CopyFields
      <4> QED
        BY <1>2, <3>2, <4>1 DEF Save
    <3> QED
      BY <2>2, <3>1, <3>2 DEF BalanceLeaders
  <2>3. CASE ScaleInDone
    BY <1>2, <2>3, CopyFields DEF ScaleInDone, Save
  <2> QED
    BY <2>1, <2>2, <2>3
<1>5. status'.hostsAdded /\ status'.phase \in {"ScaleIn", "Running"}
  BY <1>2, <1>4
<1>6. PhaseInv'
  <2>1. PhaseFits("ScaleIn") /\ PhaseFits("Running")
    <3>1. PhaseFits("ScaleIn")
      BY <1>i, <1>2 DEF PhaseInv
    <3> QED
      BY <3>1 DEF PhaseFits
  <2>2. ~(want' > old')
    <3>1. want' = want /\ old' = old /\ want < old
      BY <1>1, <1>2
    <3> QED
      BY <1>t, <3>1
  <2>3. PhaseFits(nc.phase)' /\ PhaseFits(status.phase)'
    BY <1>3, <1>4, <1>5, <2>1
  <2>4. pc' \in {"leader", "mark", "scaledIn"} =>
          status'.phase = "ScaleIn" /\ nc'.phase = "ScaleIn"
    BY <1>2, <1>4
  <2>5. nc'.phase \in {"ScaleIn", "Running"}
    BY <1>4
  <2>6. pc' = "workload" => status'.phase = "Running" /\ nc'.phase = "Running"
    BY <1>4
  <2> QED
    BY <1>1, <1>5, <2>2, <2>3, <2>4, <2>5, <2>6 DEF PhaseInv
<1>7. HostInv'
  <2>1. \A o \in hosts' : o < spec' \/ o < sts'
    BY <1>i, <1>1 DEF HostInv
  <2> QED
    BY <1>1, <1>2, <1>3, <1>4, <1>5, <2>1 DEF HostInv
<1>8. JobInv'
  <2>1. Done(nc)' /\ Done(status)' /\ AllIdle'
    BY <1>2, <1>3, NothingRuns
  <2>2. Last(NoJob)
    BY DEF Last
  <2>3. Last(nc.job)' /\ Last(status.job)'
    BY <1>i, <1>3, <1>4, <2>2 DEF JobInv
  <2> QED
    BY <1>1, <2>1, <2>3 DEF JobInv
<1>9. ClaimInv'
  <2>1. ASSUME NEW o \in hosts', pods'[o] = "absent", pvcs'[o] = "marked" PROVE FALSE
    <3>1. o \in hosts /\ pods[o] = "absent" /\ o \in Ordinals
      BY <1>1, <1>t, <2>1
    <3>2. o < sts
      <4>1. o \in Nat /\ (o < spec \/ o < sts)
        BY <1>i, <1>t, <3>1 DEF HostInv
      <4> QED
        BY <1>t, <1>2, <4>1
    <3> QED
      BY <1>2, <3>1, <3>2 DEF Full
  <2> QED
    BY <1>i, <1>1, <2>1 DEF ClaimInv
<1> QED
  BY <1>6, <1>7, <1>8, <1>9

\* The reclaimer
LEMMA ReclaimReclaim ==
    ASSUME ReclaimInv, ReclaimPV \/ DeletePVC
    PROVE  PhaseInv' /\ HostInv' /\ JobInv' /\ ClaimInv'
<1>i. RefInv /\ PhaseInv /\ HostInv /\ JobInv /\ ClaimInv
  BY DEF ReclaimInv, CarefulInv
<1>t. /\ spec \in Nat /\ sts \in Nat /\ hosts \subseteq Ordinals
      /\ pvcs \in [Ordinals -> PVCState]
  BY <1>i, Plain
<1>1. /\ \/ pc = "reclaim" /\ pc' = "delete"
         \/ pc = "delete" /\ pc' = "end"
      /\ UNCHANGED <<spec, sts, pods, hosts, spaces, parts, jobs, nc, want, old, ready, status>>
  BY DEF ReclaimPV, DeletePVC, api, kube, metad
<1>2. \A o \in Ordinals : pvcs'[o] = "marked" => pvcs[o] = "marked"
  BY DEF ReclaimPV, DeletePVC, kube
<1>3. /\ Full' <=> Full
      /\ NoneBeyond' <=> NoneBeyond
      /\ \A p : PhaseFits(p)' <=> PhaseFits(p)
      /\ HostsUp => HostsUp'
      /\ AllIdle' <=> AllIdle
      /\ \A c : Done(c)' <=> Done(c)
      /\ \A ref : Last(ref)' <=> Last(ref)
  BY <1>1, QuietStep
<1>4. PhaseInv'
  BY <1>i, <1>1, <1>3 DEF PhaseInv
<1>5. HostInv'
  <2>1. \/ status.hostsAdded
        \/ spec = sts /\ spaces = {} /\ \A o \in Ordinals : pvcs'[o] # "marked"
    BY <1>i, <1>2 DEF HostInv
  <2> QED
    BY <1>i, <1>1, <1>3, <2>1 DEF HostInv
<1>6. JobInv'
  BY <1>i, <1>1, <1>3 DEF JobInv
<1>7. ClaimInv'
  <2>1. ASSUME pc' = "delete", NEW o \in targets'
        PROVE  parts[o] = {} /\ (o \in hosts => AllIdle /\ status.phase = "ScaleOut")
    <3>1. /\ o \in Ordinals /\ pvcs[o] = "marked" /\ pods[o] = "absent"
          /\ pc = "reclaim"
      <4>1. pc = "reclaim"
        BY <1>1, <2>1
      <4> QED
        BY <4>1, <2>1 DEF ReclaimPV, DeletePVC
    <3>2. parts[o] = {}
      BY <1>i, <3>1 DEF ClaimInv
    <3>3. ASSUME o \in hosts PROVE AllIdle /\ status.phase = "ScaleOut"
      <4>1. ~HostsUp
        BY <3>1, <3>3 DEF HostsUp
      <4>2. AllIdle
        BY <1>i, <4>1 DEF JobInv
      <4>3. want = spec /\ sts = want
        BY <1>i, <3>1, <4>1 DEF HostInv
      <4>4. ~(spec > sts)
        BY <1>t, <4>3
      <4> QED
        BY <1>i, <3>1, <3>3, <4>2, <4>4 DEF ClaimInv
    <3> QED
      BY <3>2, <3>3
  <2>2. \A o \in hosts' : pods'[o] = "absent" /\ pvcs'[o] = "marked" =>
                            status'.phase = "ScaleOut" \/ spec' > sts'
    BY <1>i, <1>t, <1>1, <1>2 DEF ClaimInv
  <2> QED
    BY <1>i, <1>1, <1>3, <2>1, <2>2 DEF ClaimInv
<1> QED
  BY <1>4, <1>5, <1>6, <1>7

LEMMA ReclaimUnchanged ==
    ASSUME ReclaimInv, UNCHANGED vars
    PROVE  PhaseInv' /\ HostInv' /\ JobInv' /\ ClaimInv'
<1>i. RefInv /\ PhaseInv /\ HostInv /\ JobInv /\ ClaimInv
  BY DEF ReclaimInv, CarefulInv
<1>1. UNCHANGED <<spec, sts, pods, pvcs, hosts, spaces, parts, jobs, pc, nc, want, old, ready,
                  targets, status>>
  BY DEF vars
<1>2. /\ Full' <=> Full
      /\ NoneBeyond' <=> NoneBeyond
      /\ \A p : PhaseFits(p)' <=> PhaseFits(p)
      /\ AllIdle' <=> AllIdle
      /\ \A c : Done(c)' <=> Done(c)
      /\ \A ref : Last(ref)' <=> Last(ref)
  BY <1>1, QuietStep
<1>3. HostsUp' <=> HostsUp
  BY <1>1 DEF HostsUp
<1>4. PhaseInv'
  BY <1>i, <1>1, <1>2 DEF PhaseInv
<1>5. HostInv'
  BY <1>i, <1>1, <1>2, <1>3 DEF HostInv
<1>6. JobInv'
  BY <1>i, <1>1, <1>2, <1>3 DEF JobInv
<1>7. ClaimInv'
  BY <1>i, <1>1, <1>2 DEF ClaimInv
<1> QED
  BY <1>4, <1>5, <1>6, <1>7

---------------------------------------------------------------------------
LEMMA ReclaimInvInit == Init => ReclaimInv
<1> SUFFICES ASSUME Init PROVE ReclaimInv
  OBVIOUS
<1>1. CarefulInv
  BY CarefulInvInit
<1>2. /\ status = NewStatus /\ nc = NewStatus /\ pc = "idle" /\ sts = spec
      /\ hosts = {} /\ spaces = {} /\ jobs = <<>>
      /\ spec \in Replicas
      /\ \A o \in Ordinals : pods[o] = "absent" /\ pvcs[o] = "none" /\ parts[o] = {}
  BY DEF Init
<1>3. NewStatus.phase = "" /\ NewStatus.job = NoJob /\ NewStatus.hostsAdded = FALSE
  BY DEF NewStatus
<1>4. spec \in Nat /\ ~(spec < spec) /\ ~(spec > spec)
  BY <1>2, ReplicasAssumption DEF Replicas
<1>5. PhaseInv
  BY <1>2, <1>3, <1>4 DEF PhaseInv, PhaseFits
<1>6. HostInv
  BY <1>2, <1>3, <1>4 DEF HostInv
<1>7. AllIdle
  BY <1>2 DEF AllIdle
<1>8. JobInv
  BY <1>2, <1>3, <1>7, NothingRuns DEF JobInv, Last
<1>9. ClaimInv
  BY <1>2 DEF ClaimInv
<1> QED
  BY <1>1, <1>5, <1>6, <1>8, <1>9 DEF ReclaimInv

LEMMA ReclaimInvNext == Careful /\ ReclaimInv /\ [Next]_vars => ReclaimInv'
<1> SUFFICES ASSUME Careful, ReclaimInv, [Next]_vars PROVE ReclaimInv'
  OBVIOUS
<1>1. CarefulInv'
  BY CarefulInvNext DEF ReclaimInv
<1>2. CASE Reconcile
  <2>1. CASE StartReconcile \/ AddStorageHosts \/ Scale
    BY <1>1, <2>1, ReclaimStart, ReclaimAddHosts, ReclaimScale DEF ReclaimInv
  <2>2. CASE SaveJob \/ EndReconcile
    BY <1>1, <2>2, ReclaimSave DEF ReclaimInv
  <2>3. CASE ScaleOut \/ ScaleOutBalance
    BY <1>1, <2>3, ReclaimScaleOut, ReclaimBalance DEF ReclaimInv
  <2>4. CASE ScaleIn \/ ScaleInRemove
    BY <1>1, <2>4, ReclaimScaleIn, ReclaimRemove DEF ReclaimInv
  <2>5. CASE DropHosts \/ BalanceLeaders \/ PVCMark \/ ScaleInDone
    BY <1>1, <2>5, ReclaimScaledIn DEF ReclaimInv
  <2>6. CASE UpdateWorkload
    BY <1>1, <2>6, ReclaimUpdateWorkload DEF ReclaimInv
  <2>7. CASE ReclaimPV \/ DeletePVC
    BY <1>1, <2>7, ReclaimReclaim DEF ReclaimInv
  <2> QED
    BY <1>2, <2>1, <2>2, <2>3, <2>4, <2>5, <2>6, <2>7 DEF Reconcile
<1>3. CASE CallFails \/ Crash
  BY <1>1, <1>3, ReclaimFails DEF ReclaimInv
<1>4. CASE (\E n \in Replicas : PatchReplicas(n)) \/ (\E s \in Spaces : CreateSpace(s))
  BY <1>1, <1>4, ReclaimUser DEF ReclaimInv
<1>5. ~CacheSync
  BY DEF CacheSync, Careful
<1>6. CASE \E o \in Ordinals : PodStart(o) \/ PodReady(o) \/ PodStop(o) \/ PodFail(o)
  BY <1>1, <1>6, ReclaimPods DEF ReclaimInv
<1>7. CASE \E j \in 1 .. Len(jobs) : FinishJob(j) \/ FailJob(j)
  BY <1>1, <1>7, ReclaimJobs DEF ReclaimInv
<1>8. CASE UNCHANGED vars
  BY <1>1, <1>8, ReclaimUnchanged DEF ReclaimInv
<1> QED
  BY <1>2, <1>3, <1>4, <1>5, <1>6, <1>7, <1>8 DEF Next

\* Claims change by the steps of a pass, or with the pods that use them
LEMMA OnlyDeletePVC ==
    ASSUME Careful, RefInv, [Next]_vars, pc = "delete"
    PROVE  \/ DeletePVC
           \/ \E q \in Ordinals : PodStart(q) \/ PodStop(q)
           \/ UNCHANGED pvcs
<1> USE DEF local, metad, kube, api
<1>1. CASE Reconcile
  BY <1>1 DEF Reconcile, StartReconcile, AddStorageHosts, Scale, SaveJob, ScaleOut,
     ScaleOutBalance, ScaleIn, ScaleInRemove, DropHosts, BalanceLeaders, PVCMark,
     ScaleInDone, UpdateWorkload, ReclaimPV, EndReconcile
<1>2. CASE CallFails \/ Crash \/ CacheSync
  BY <1>2 DEF CallFails, Crash, CacheSync
<1>3. ASSUME NEW n \in Replicas, PatchReplicas(n) PROVE UNCHANGED pvcs
  BY <1>3 DEF PatchReplicas
<1>4. ASSUME NEW s \in Spaces, CreateSpace(s) PROVE UNCHANGED pvcs
  BY <1>4 DEF CreateSpace
<1>5. ASSUME NEW q \in Ordinals, PodReady(q) \/ PodFail(q) PROVE UNCHANGED pvcs
  BY <1>5 DEF PodReady, PodFail, Careful
<1>6. ASSUME NEW j \in 1 .. Len(jobs), FinishJob(j) \/ FailJob(j) PROVE UNCHANGED pvcs
  BY <1>6 DEF FinishJob, FailJob
<1>7. CASE UNCHANGED vars
  BY <1>7 DEF vars
<1> QED
  BY <1>1, <1>2, <1>3, <1>4, <1>5, <1>6, <1>7 DEF Next

\* The inductive invariant of a careful cluster
THEOREM CarefulInvariant == Careful /\ Spec => []ReclaimInv
<1>1. Careful /\ Init => Careful /\ ReclaimInv
  BY ReclaimInvInit
<1>2. (Careful /\ ReclaimInv) /\ [Next]_vars => (Careful /\ ReclaimInv)'
  BY ReclaimInvNext DEF Careful
<1> QED
  BY <1>1, <1>2, PTL DEF Spec

\* ReclaimSafe for every instance with careful users: whatever fails, no claim
\* that the reclaimer of a pass deletes belongs to a host with partitions
\* (pvc_reclaimer.go reclaimPV)
THEOREM CarefulReclaimSafe == Careful /\ Spec => ReclaimSafe
<1>1. /\ Careful /\ ReclaimInv /\ [Next]_vars
      => [pc = "delete" => \A o \in Ordinals : pvcs'[o] # pvcs[o] => parts[o] = {}]_vars
  <2> SUFFICES ASSUME Careful, ReclaimInv, [Next]_vars, pc = "delete",
                      NEW o \in Ordinals, pvcs'[o] # pvcs[o]
               PROVE  parts[o] = {}
    OBVIOUS
  <2>i. RefInv /\ ClaimInv
    BY DEF ReclaimInv, CarefulInv
  <2>t. /\ pvcs \in [Ordinals -> PVCState] /\ sts \in Nat /\ Ordinals \subseteq Nat
    BY <2>i, Plain
  <2>1. CASE DeletePVC
    <3>1. o \in targets
      BY <2>1 DEF DeletePVC
    <3> QED
      BY <2>i, <3>1 DEF ClaimInv
  <2>2. ASSUME NEW q \in Ordinals, PodStart(q) \/ PodStop(q)
        PROVE  parts[o] = {}
    <3>1. o = q
      BY <2>t, <2>2 DEF PodStart, PodStop, PodGone
    <3>2. pods[o] = "absent" \/ o >= sts
      BY <2>2, <3>1 DEF PodStart, PodStop
    <3>3. pods[o] = "absent" \/ ~(o < sts)
      BY <2>t, <3>2
    <3> QED
      BY <2>i, <3>3 DEF ClaimInv
  <2> QED
    BY <2>i, <2>1, <2>2, OnlyDeletePVC
<1>2. Careful /\ Init => Careful /\ ReclaimInv
  BY ReclaimInvInit
<1>3. (Careful /\ ReclaimInv) /\ [Next]_vars => (Careful /\ ReclaimInv)'
  BY ReclaimInvNext DEF Careful
<1> QED
  BY <1>1, <1>2, <1>3, PTL DEF Spec, ReclaimSafe

---------------------------------------------------------------------------
\* The replicas that are wanted and there are registered

LEMMA MoreFields ==
    ASSUME NEW c \in StatusType
    PROVE  /\ \A s \in Spaces :
                /\ WithBalanced(c, s).balanced = c.balanced \cup {s}
                /\ WithRemoved(c, s).phase = c.phase /\ WithRemoved(c, s).job = c.job
                /\ WithRemoved(c, s).hostsAdded = c.hostsAdded
                /\ WithRemoved(c, s).balanced = c.balanced
                /\ \A j : /\ WithJob(c, s, j).hostsAdded = c.hostsAdded
                          /\ WithJob(c, s, j).phase = c.phase
                          /\ WithJob(c, s, j).balanced = c.balanced
           /\ ScaledIn(c).balanced = {}
           /\ /\ ScaledOut(c).balanced = {} /\ ScaledOut(c).job = NoJob
              /\ ScaledOut(c).phase = "Running" /\ ScaledOut(c).hostsAdded = c.hostsAdded
  BY DEF StatusType, WithBalanced, WithRemoved, WithJob, ScaledIn, ScaledOut

\* A pass and its phases: what the steps of a pass do to the copies of the
\* status, and where they lead
LEMMA PassCopies ==
    ASSUME Careful, ReclaimInv,
           \/ Scale \/ SaveJob \/ ScaleOut \/ ScaleOutBalance \/ ScaleIn \/ ScaleInRemove
           \/ DropHosts \/ BalanceLeaders \/ PVCMark \/ ScaleInDone \/ ReclaimPV \/ DeletePVC
           \/ CallFails
    PROVE  /\ UNCHANGED <<spec, sts, spaces, parts, want>>
           /\ pc # "idle" /\ pc' # "idle" /\ pc' # "hosts" /\ (pc' # "end" => pc # "hosts")
           /\ hosts' = hosts \/ (hosts' = hosts \ targets /\ DropHosts)
           /\ nc'.hostsAdded = nc.hostsAdded /\ status' \in {status, nc, nc'}
           /\ pc = "end" => pc' = "end"
<1>t. nc \in StatusType /\ listed \subseteq Spaces /\ {"Running", "ScaleIn", "ScaleOut"} \subseteq Phases
  BY DEF ReclaimInv, CarefulInv, RefInv, TypeOK, Phases
<1>u. /\ \A p \in {"Running", "ScaleIn", "ScaleOut"} : InPhase(nc, p).hostsAdded = nc.hostsAdded
      /\ \A s \in Spaces : /\ WithBalanced(nc, s).hostsAdded = nc.hostsAdded
                           /\ WithRemoved(nc, s).hostsAdded = nc.hostsAdded
                           /\ \A j : WithJob(nc, s, j).hostsAdded = nc.hostsAdded
      /\ ScaledIn(nc).hostsAdded = nc.hostsAdded
      /\ ScaledOut(nc).hostsAdded = nc.hostsAdded
  <2>1. \A p \in Phases : InPhase(nc, p).hostsAdded = nc.hostsAdded
    BY <1>t, CopyFields
  <2>2. \A s \in Spaces : WithBalanced(nc, s).hostsAdded = nc.hostsAdded
    BY <1>t, CopyFields
  <2>3. \A s \in Spaces : /\ WithRemoved(nc, s).hostsAdded = nc.hostsAdded
                          /\ \A j : WithJob(nc, s, j).hostsAdded = nc.hostsAdded
    BY <1>t, MoreFields
  <2>4. ScaledIn(nc).hostsAdded = nc.hostsAdded
    BY <1>t, CopyFields
  <2>5. ScaledOut(nc).hostsAdded = nc.hostsAdded
    BY <1>t, MoreFields
  <2> QED
    BY <1>t, <2>1, <2>2, <2>3, <2>4, <2>5
<1> USE DEF api, kube, metad
<1>1. CASE Scale \/ ScaleOut
  <2>1. CASE Scale
    BY <1>u, <2>1 DEF Scale, Save
  <2>2. CASE ScaleOut
    BY <1>u, <2>2 DEF ScaleOut
  <2> QED
    BY <1>1, <2>1, <2>2
<1>2. CASE SaveJob \/ ScaleIn \/ DropHosts \/ PVCMark \/ ReclaimPV \/ DeletePVC \/ CallFails
  BY <1>2 DEF SaveJob, ScaleIn, DropHosts, PVCMark, ReclaimPV, DeletePVC, CallFails
<1>3. CASE BalanceLeaders \/ ScaleInDone
  <2>1. CASE BalanceLeaders
    BY <1>t, <1>u, <2>1 DEF BalanceLeaders, Save
  <2>2. CASE ScaleInDone
    BY <1>u, <2>2 DEF ScaleInDone, Save
  <2> QED
    BY <1>3, <2>1, <2>2
<1>4. CASE ScaleOutBalance
  <2>1. \A s \in Spaces : BalanceSpace(s) => /\ nc'.hostsAdded = nc.hostsAdded
                                             /\ status' \in {status, nc, nc'}
                                             /\ pc' \in {"balance", "end", "job"}
    BY <1>u DEF BalanceSpace, Save, RecoverJob, WaitForJob, SubmitJob
  <2>2. Save(ScaledOut(nc), "workload") => /\ nc'.hostsAdded = nc.hostsAdded
                                           /\ status' \in {status, nc, nc'}
                                           /\ pc' \in {"workload", "end"}
    BY <1>u DEF Save
  <2> QED
    BY <1>t, <1>4, <2>1, <2>2 DEF ScaleOutBalance
<1>5. CASE ScaleInRemove
  <2>1. \A s \in Spaces : RemoveHost(s) => /\ nc'.hostsAdded = nc.hostsAdded
                                           /\ status' \in {status, nc, nc'}
                                           /\ pc' \in {"remove", "end", "job"}
    BY <1>u DEF RemoveHost, Save, RecoverJob, WaitForJob, SubmitJob
  <2> QED
    BY <1>t, <1>5, <2>1 DEF ScaleInRemove
<1> QED
  BY <1>1, <1>2, <1>3, <1>4, <1>5

LEMMA RegisteredPass ==
    ASSUME Careful, ReclaimInv, RegisteredInv, PhaseInv', HostInv',
           \/ Scale \/ SaveJob \/ ScaleOut \/ ScaleOutBalance \/ ScaleIn \/ ScaleInRemove
           \/ DropHosts \/ BalanceLeaders \/ PVCMark \/ ScaleInDone \/ ReclaimPV \/ DeletePVC
           \/ CallFails
    PROVE  RegisteredInv'
<1>i. PassInv /\ PhaseInv /\ HostInv /\ DropInv
  BY DEF ReclaimInv, CarefulInv
<1>t. /\ spec \in Nat /\ sts \in Nat /\ want \in Nat /\ old \in Nat /\ Ordinals \subseteq Nat
  BY Plain DEF ReclaimInv, CarefulInv
<1>1. /\ UNCHANGED <<spec, sts, spaces, parts, want>>
      /\ pc # "idle" /\ pc' # "idle" /\ pc' # "hosts" /\ (pc' # "end" => pc # "hosts")
      /\ hosts' = hosts \/ (hosts' = hosts \ targets /\ DropHosts)
      /\ nc'.hostsAdded = nc.hostsAdded /\ status' \in {status, nc, nc'}
      /\ pc = "end" => pc' = "end"
  BY PassCopies
<1>2. \A o \in Ordinals : o < spec /\ o \in hosts => o \in hosts'
  <2>1. CASE hosts' = hosts
    BY <2>1
  <2>2. CASE hosts' = hosts \ targets /\ DropHosts
    <3>1. targets = Surplus
      BY <1>i, <2>2 DEF DropHosts, PassInv
    <3> QED
      BY <1>t, <2>2, <3>1 DEF Surplus
  <2> QED
    BY <1>1, <2>1, <2>2
<1>3. \A o \in Ordinals : o < spec' /\ o < sts' /\ (status'.hostsAdded \/ nc'.hostsAdded)
                            => o \in hosts'
  BY <1>1, <1>2 DEF RegisteredInv
<1>4. pc' \notin {"idle", "hosts", "end"} =>
         \A o \in Ordinals : o < spec' /\ o < want' => o \in hosts'
  BY <1>1, <1>2 DEF RegisteredInv
<1>5. nc'.phase \in {"ScaleIn", "ScaleOut"} => nc'.hostsAdded
  <2>1. CASE pc \in {"hosts", "end"}
    <3>1. nc' = nc
      BY <2>1 DEF Scale, SaveJob, ScaleOut, ScaleOutBalance, ScaleIn, ScaleInRemove, DropHosts,
         BalanceLeaders, PVCMark, ScaleInDone, ReclaimPV, DeletePVC, CallFails
    <3> QED
      BY <3>1 DEF RegisteredInv
  <2>2. CASE pc \notin {"hosts", "end"}
    BY <1>i, <1>1, <2>2 DEF HostInv
  <2> QED
    BY <2>1, <2>2
<1>6. status'.phase \in {"ScaleIn", "ScaleOut"} => status'.hostsAdded
  BY <1>1, <1>5 DEF RegisteredInv
<1> QED
  BY <1>3, <1>4, <1>5, <1>6 DEF RegisteredInv

\* With an up-to-date cache a pass starts from the status as it is
LEMMA StartCopies ==
    ASSUME Careful, StartReconcile \/ EndReconcile \/ Crash
    PROVE  /\ UNCHANGED <<spec, sts, hosts, spaces, parts, jobs>> /\ pc' \in {"idle", "hosts"}
           /\ status' \in {status, nc}
           /\ \/ /\ pc = "idle" /\ status' = status
                 /\ nc' = IF status.phase = "" THEN InPhase(status, "Running") ELSE status
              \/ pc = "end" /\ status' = nc /\ nc' = NewStatus
              \/ status' = status /\ nc' = NewStatus
<1> USE DEF api, kube, metad
<1>1. CASE StartReconcile
  <2>1. PICK seen \in {Api, cache} :
          /\ seen = Api \/ CacheLag
          /\ nc' = IF seen.status.phase = "" THEN InPhase(seen.status, "Running") ELSE seen.status
    BY <1>1 DEF StartReconcile
  <2>2. seen = Api
    BY <2>1 DEF Careful
  <2>3. seen.status = status
    BY <2>2 DEF Api
  <2> QED
    BY <1>1, <2>1, <2>3 DEF StartReconcile
<1>2. CASE EndReconcile \/ Crash
  BY <1>2 DEF EndReconcile, Crash, Forget
<1> QED
  BY <1>1, <1>2

LEMMA RegisteredStart ==
    ASSUME Careful, ReclaimInv, RegisteredInv, StartReconcile \/ EndReconcile \/ Crash
    PROVE  RegisteredInv'
<1>1. /\ UNCHANGED <<spec, sts, hosts>> /\ pc' \in {"idle", "hosts"}
      /\ status' \in {status, nc}
      /\ nc' \in {NewStatus, status, InPhase(status, "Running")}
  BY StartCopies
<1>2. NewStatus.hostsAdded = FALSE /\ NewStatus.phase = ""
  BY DEF NewStatus
<1>3. /\ InPhase(status, "Running").hostsAdded = status.hostsAdded
      /\ InPhase(status, "Running").phase = "Running"
  <2>1. status \in StatusType /\ "Running" \in Phases
    BY DEF ReclaimInv, CarefulInv, RefInv, TypeOK, Phases
  <2> QED
    BY <2>1, CopyFields
<1>4. \A c \in {status', nc'} : /\ c.hostsAdded => status.hostsAdded \/ nc.hostsAdded
                                /\ c.phase \in {"ScaleIn", "ScaleOut"} => c.hostsAdded
  BY <1>1, <1>2, <1>3 DEF RegisteredInv
<1> QED
  BY <1>1, <1>4 DEF RegisteredInv

LEMMA RegisteredAddHosts ==
    ASSUME Careful, ReclaimInv, RegisteredInv, AddStorageHosts
    PROVE  RegisteredInv'
<1>i. PassInv /\ HostInv /\ DropInv /\ PhaseInv /\ RefInv
  BY DEF ReclaimInv, CarefulInv
<1>t. /\ spec \in Nat /\ sts \in Nat /\ want \in Nat /\ old \in Nat /\ Ordinals \subseteq Nat
      /\ nc \in StatusType
  BY <1>i, Plain
<1>1. /\ UNCHANGED <<spec, sts, want, status>> /\ pc = "hosts" /\ old = sts
      /\ nc'.hostsAdded
      /\ hosts' = IF ~nc.hostsAdded \/ want > old
                  THEN hosts \cup (IF want > old THEN old ELSE 0) .. want - 1 ELSE hosts
  BY <1>i, <1>t, CopyFields DEF AddStorageHosts, api, kube, DropInv
<1>2. want = spec \/ want = sts
  BY <1>i, <1>1 DEF PassInv, Outdated
<1>3. nc.hostsAdded \/ (spec = sts /\ ~status.hostsAdded)
  BY <1>i, <1>1 DEF HostInv
<1>4. \A o \in Ordinals : o < spec /\ (o < sts \/ o < want) => o \in hosts'
  <2> SUFFICES ASSUME NEW o \in Ordinals, o < spec, o < sts \/ o < want PROVE o \in hosts'
    OBVIOUS
  <2>1. nc.hostsAdded /\ o < sts => o \in hosts
    BY DEF RegisteredInv
  <2>2. CASE nc.hostsAdded
    BY <1>t, <1>1, <1>2, <2>1, <2>2
  <2>3. CASE ~nc.hostsAdded
    BY <1>t, <1>1, <1>2, <1>3, <2>3
  <2> QED
    BY <2>2, <2>3
<1>5. \A c \in {status', nc'} : c.phase \in {"ScaleIn", "ScaleOut"} => c.hostsAdded
  BY <1>1 DEF RegisteredInv
<1> QED
  BY <1>1, <1>4, <1>5 DEF RegisteredInv

LEMMA RegisteredUser ==
    ASSUME Careful, ReclaimInv, RegisteredInv,
           \/ \E n \in Replicas : PatchReplicas(n)
           \/ \E s \in Spaces : CreateSpace(s)
    PROVE  RegisteredInv'
<1>i. PassInv /\ RefInv
  BY DEF ReclaimInv, CarefulInv
<1>t. /\ spec \in Nat /\ sts \in Nat /\ want \in Nat /\ Ordinals \subseteq Nat
  BY <1>i, Plain
<1>1. /\ Settled /\ UNCHANGED <<pc, nc, want, status, sts, hosts>>
  BY DEF Careful, PatchReplicas, CreateSpace, Admitted, api, metad, kube, local
<1>2. sts = spec /\ status.hostsAdded
  BY <1>1, SettledHosts
<1>3. pc # "idle" => want = sts
  BY <1>i, <1>2 DEF PassInv, Outdated
<1>4. \A o \in Ordinals : o < sts => o \in hosts
  BY <1>2 DEF RegisteredInv
<1> QED
  BY <1>1, <1>3, <1>4 DEF RegisteredInv

LEMMA RegisteredUpdateWorkload ==
    ASSUME Careful, ReclaimInv, RegisteredInv, UpdateWorkload
    PROVE  RegisteredInv'
<1>1. /\ sts' = want /\ pc = "workload" /\ UNCHANGED <<spec, want, status, nc, hosts>>
  BY DEF UpdateWorkload, api, metad
<1> QED
  BY <1>1 DEF RegisteredInv

LEMMA RegisteredOther ==
    ASSUME Careful, RegisteredInv,
           \/ \E o \in Ordinals : PodStart(o) \/ PodReady(o) \/ PodStop(o) \/ PodFail(o)
           \/ \E j \in 1 .. Len(jobs) : FinishJob(j) \/ FailJob(j)
           \/ UNCHANGED vars
    PROVE  RegisteredInv'
<1>1. UNCHANGED <<spec, sts, status, hosts, pc, nc, want>>
  BY DEF PodStart, PodReady, PodStop, PodFail, PodGone, FinishJob, FailJob, api, metad, kube,
     local, vars
<1> QED
  BY <1>1 DEF RegisteredInv

---------------------------------------------------------------------------
\* With automatic balancing: the spaces are on all replicas again before the
\* phase goes back to Running

\* A copy of the status without balanced spaces and job says nothing
LEMMA TruthfulEmpty ==
    ASSUME NEW c, c.balanced = {}, c.job = NoJob
    PROVE  Truthful(c)
  BY DEF Truthful

\* ... and one that says less, or the same, is as truthful
LEMMA TruthfulSame ==
    ASSUME NEW c, NEW d, Truthful(c), d.phase = c.phase, d.job = c.job,
           d.balanced = c.balanced
    PROVE  Truthful(d)
  BY DEF Truthful

LEMMA TruthfulFrame ==
    ASSUME UNCHANGED <<spec, sts, parts, jobs>>, hosts' \subseteq hosts, NEW c, Truthful(c)
    PROVE  Truthful(c)'
<1>1. \A s : Everywhere(s) => Everywhere(s)'
  BY DEF Everywhere
<1>2. \A j, p : FitsPhase(j, p)' <=> FitsPhase(j, p)
  BY DEF FitsPhase, Surplus
<1> QED
  BY <1>1, <1>2 DEF Truthful

\* Steps that leave replicas, partitions and jobs alone
LEMMA BalancedQuiet ==
    ASSUME ReclaimInv, BalancedInv, UNCHANGED <<spec, sts, parts, jobs, spaces>>,
           hosts' \subseteq hosts,
           Truthful(status'), Truthful(nc'),
           ~AllIdle => status'.phase = status.phase,
           spec <= sts /\ (status'.phase # "ScaleOut" \/ nc'.phase = "Running") =>
             \/ status.phase # "ScaleOut" \/ nc.phase = "Running"
             \/ \A o \in Ordinals : o < spec => spaces \subseteq parts[o]
    PROVE  BalancedInv'
<1>1. \A c : Truthful(c) => Truthful(c)'
  BY TruthfulFrame
<1>2. Truthful(status)' /\ Truthful(nc)'
  <2>1. PICK c, d : c = status' /\ d = nc'
    OBVIOUS
  <2>2. Truthful(c)' /\ Truthful(d)'
    BY <1>1, <2>1
  <2> QED
    BY <2>1, <2>2 DEF Truthful
<1>3. \A j, p : FitsPhase(j, p)' <=> FitsPhase(j, p)
  BY DEF FitsPhase, Surplus
<1>4. \A j \in 1 .. Len(jobs') : jobs'[j].state = "running" => FitsPhase(j, status.phase)'
  <2>1. ASSUME NEW j \in 1 .. Len(jobs), jobs[j].state = "running"
        PROVE  FitsPhase(j, status.phase)'
    <3>1. ~AllIdle
      BY <2>1 DEF AllIdle
    <3>2. FitsPhase(j, status.phase) /\ status'.phase = status.phase
      BY <2>1, <3>1 DEF BalancedInv
    <3> QED
      BY <3>2 DEF FitsPhase, Surplus
  <2> QED
    BY <2>1
<1>5. spec' <= sts' /\ (status'.phase # "ScaleOut" \/ nc'.phase = "Running") =>
         \A o \in Ordinals : o < spec' => spaces' \subseteq parts'[o]
  BY DEF BalancedInv
<1> QED
  BY <1>2, <1>4, <1>5 DEF BalancedInv

\* The phases that follow each other
LEMMA BalancedStart ==
    ASSUME Careful, ReclaimInv, BalancedInv, StartReconcile \/ EndReconcile \/ Crash
    PROVE  BalancedInv'
<1>i. RefInv /\ PhaseInv /\ JobInv
  BY DEF ReclaimInv, CarefulInv
<1>t. status \in StatusType /\ nc \in StatusType /\ "Running" \in Phases /\ spec \in Nat /\ sts \in Nat
  BY <1>i, Plain DEF Phases
<1>1. /\ UNCHANGED <<spec, sts, hosts, spaces, parts, jobs>>
      /\ status' \in {status, nc}
      /\ \/ /\ pc = "idle" /\ status' = status
            /\ nc' = IF status.phase = "" THEN InPhase(status, "Running") ELSE status
         \/ pc = "end" /\ status' = nc /\ nc' = NewStatus
         \/ status' = status /\ nc' = NewStatus
  BY StartCopies
<1>2. /\ NewStatus.job = NoJob /\ NewStatus.phase = "" /\ NewStatus.balanced = {}
  BY DEF NewStatus
<1>3. Truthful(NewStatus) /\ Truthful(status) /\ Truthful(nc)
  BY <1>2, TruthfulEmpty DEF BalancedInv
<1>4. status.phase = "" => status.balanced = {} /\ status.job = NoJob
  BY <1>3 DEF Truthful
<1>5. Truthful(status')
  BY <1>1, <1>3
<1>6. Truthful(nc')
  <2>1. CASE nc' = NewStatus \/ nc' = status
    BY <1>3, <2>1
  <2>2. CASE nc' = InPhase(status, "Running") /\ status.phase = ""
    <3>1. nc'.balanced = {} /\ nc'.job = NoJob
      BY <1>t, <1>4, <2>2, CopyFields
    <3> QED
      BY <3>1, TruthfulEmpty
  <2> QED
    BY <1>1, <2>1, <2>2
<1>7. pc = "end" /\ status' = nc => /\ ~AllIdle => nc.phase = status.phase
                                    /\ nc.phase # "ScaleOut" =>
                                         status.phase # "ScaleOut" \/ nc.phase = "Running"
  <2> SUFFICES ASSUME pc = "end" PROVE /\ ~AllIdle => nc.phase = status.phase
                                       /\ nc.phase # "ScaleOut" =>
                                            status.phase # "ScaleOut" \/ nc.phase = "Running"
    OBVIOUS
  <2>1. nc.phase # "" /\ nc.phase \in Phases
    BY <1>i, <1>t DEF PhaseInv, StatusType
  <2>2. ~(status.phase = "ScaleOut" /\ nc.phase = "ScaleIn")
    BY <1>i, PhaseFacts
  <2>3. ~(status.phase = "ScaleIn" /\ nc.phase = "ScaleOut")
    BY <1>i, PhaseFacts
  <2> QED
    BY <1>i, <2>1, <2>2, <2>3 DEF JobInv, Phases
<1>8. ~AllIdle => status'.phase = status.phase
  BY <1>1, <1>7
<1>9. status'.phase # "ScaleOut" \/ nc'.phase = "Running" =>
        status.phase # "ScaleOut" \/ nc.phase = "Running"
  <2>1. pc = "idle" /\ status' = status /\ nc'.phase = "Running" => status.phase # "ScaleOut"
    BY <1>1, <1>2, <1>t
  <2> QED
    BY <1>1, <1>2, <1>7, <2>1
<1> QED
  BY <1>1, <1>5, <1>6, <1>8, <1>9, BalancedQuiet

LEMMA BalancedPass ==
    ASSUME Careful, AutoBalance, ReclaimInv, BalancedInv, PhaseInv',
           \/ Scale \/ SaveJob \/ ScaleOut \/ ScaleIn \/ DropHosts \/ BalanceLeaders
           \/ PVCMark \/ ScaleInDone \/ ReclaimPV \/ DeletePVC \/ CallFails
    PROVE  BalancedInv'
<1>i. RefInv /\ PhaseInv /\ JobInv /\ PassInv /\ DropInv /\ SavedInv
  BY DEF ReclaimInv, CarefulInv
<1>t. /\ status \in StatusType /\ nc \in StatusType /\ {"ScaleIn", "ScaleOut"} \subseteq Phases
      /\ spec \in Nat /\ sts \in Nat /\ want \in Nat /\ old \in Nat /\ listed \subseteq Spaces
  BY <1>i, Plain DEF Phases, RefInv, TypeOK
<1>u. /\ \A p \in {"ScaleIn", "ScaleOut"} :
           /\ InPhase(nc, p).phase = p /\ InPhase(nc, p).job = nc.job
           /\ InPhase(nc, p).balanced = nc.balanced
      /\ \A s \in Spaces : /\ WithBalanced(nc, s).phase = nc.phase
                           /\ WithBalanced(nc, s).job = nc.job
      /\ ScaledIn(nc).balanced = {} /\ ScaledIn(nc).job = NoJob
      /\ ScaledIn(nc).phase = "Running"
  <2>1. \A p \in Phases : /\ InPhase(nc, p).phase = p /\ InPhase(nc, p).job = nc.job
                         /\ InPhase(nc, p).balanced = nc.balanced
    BY <1>t, CopyFields
  <2>2. \A s \in Spaces : WithBalanced(nc, s).phase = nc.phase /\ WithBalanced(nc, s).job = nc.job
    BY <1>t, CopyFields
  <2>3. ScaledIn(nc).job = NoJob /\ ScaledIn(nc).phase = "Running"
    BY <1>t, CopyFields
  <2>4. ScaledIn(nc).balanced = {}
    BY <1>t, MoreFields
  <2> QED
    BY <1>t, <2>1, <2>2, <2>3, <2>4
<1>v. Scale => nc' \in {nc, InPhase(nc, "ScaleIn"), InPhase(nc, "ScaleOut")}
  BY DEF Scale, Save
<1>1. UNCHANGED <<spec, sts, spaces, parts, jobs>> /\ hosts' \subseteq hosts
  BY DEF Scale, SaveJob, ScaleOut, ScaleIn, DropHosts, BalanceLeaders, PVCMark, ScaleInDone,
     ReclaimPV, DeletePVC, CallFails, api, kube, metad
<1>2. status' \in {status, nc, nc'}
  BY PassCopies
<1>3. Truthful(status) /\ Truthful(nc)
  BY DEF BalancedInv
\* phases of the new copy
<1>4. /\ Truthful(nc')
      /\ nc'.phase \in {nc.phase, "ScaleIn", "ScaleOut"} \/ (ScaleInDone /\ nc'.phase = "Running")
  <2>1. CASE Scale
    <3>1. nc.phase # "Running" => nc.phase \in {"ScaleIn", "ScaleOut"}
      <4>1. nc.phase \in Phases /\ nc.phase # ""
        BY <1>i, <1>t, <2>1 DEF PhaseInv, StatusType, Scale
      <4> QED
        BY <4>1 DEF Phases
    <3>2. CASE nc'.phase # nc.phase
      <4>1. /\ nc' = InPhase(nc, "ScaleIn") \/ nc' = InPhase(nc, "ScaleOut")
            /\ nc'.phase \in {"ScaleIn", "ScaleOut"} /\ nc'.job = nc.job
            /\ nc'.balanced = nc.balanced
        BY <1>u, <1>v, <2>1, <3>2
      <4>2. nc.phase \notin {"ScaleIn", "ScaleOut"}
        <5>1. nc.phase # "ScaleIn"
          <6>1. nc.phase = "ScaleIn" => nc' = InPhase(nc, "ScaleIn")
            BY <2>1, <3>2 DEF Scale, Save
          <6> QED
            BY <1>u, <3>2, <6>1
        <5>2. nc.phase = "ScaleOut" => nc'.phase # "ScaleIn"
          <6>1. ASSUME nc.phase = "ScaleOut", nc'.phase = "ScaleIn" PROVE FALSE
            <7>1. spec < sts
              BY <1>1, <6>1 DEF PhaseInv, PhaseFits
            <7> QED
              BY <1>i, <6>1, <7>1, PhaseFacts
          <6> QED
            BY <6>1
        <5> QED
          BY <3>2, <4>1, <5>1, <5>2
      <4>3. nc'.balanced = {} /\ nc'.job = NoJob
        BY <1>3, <4>1, <4>2 DEF Truthful
      <4> QED
        BY <4>1, <4>3, TruthfulEmpty
    <3>3. CASE nc'.phase = nc.phase
      <4>1. nc'.job = nc.job /\ nc'.balanced = nc.balanced
        BY <1>u, <1>v, <2>1
      <4> QED
        BY <1>3, <3>3, <4>1, TruthfulSame
    <3> QED
      BY <3>2, <3>3
  <2>2. CASE SaveJob \/ ScaleIn \/ DropHosts \/ PVCMark \/ ReclaimPV \/ DeletePVC \/ CallFails
    <3>1. nc' = nc
      BY <2>2 DEF SaveJob, ScaleIn, DropHosts, PVCMark, ReclaimPV, DeletePVC, CallFails
    <3> QED
      BY <1>3, <3>1
  <2>3. CASE ScaleOut
    <3>1. nc' = nc
      BY <2>3 DEF ScaleOut
    <3> QED
      BY <1>3, <3>1
  <2>4. CASE BalanceLeaders
    <3>1. /\ pc = "leader" /\ nc'.phase = nc.phase /\ nc'.job = nc.job
          /\ nc' = nc \/ \E s \in listed : nc' = WithBalanced(nc, s)
      BY <1>t, <1>u, <2>4 DEF BalanceLeaders, Save
    <3>2. nc.phase = "ScaleIn" /\ ~(spec > sts)
      BY <3>1, ScaleInFacts
    <3> QED
      BY <1>3, <3>1, <3>2 DEF Truthful
  <2>5. CASE ScaleInDone
    <3>1. nc'.balanced = {} /\ nc'.job = NoJob /\ nc'.phase = "Running"
      BY <1>u, <2>5 DEF ScaleInDone, Save
    <3> QED
      BY <2>5, <3>1, TruthfulEmpty
  <2> QED
    BY <2>1, <2>2, <2>3, <2>4, <2>5
<1>5. Truthful(status')
  BY <1>2, <1>3, <1>4
<1>6. ~AllIdle => status'.phase = status.phase
  <2> SUFFICES ASSUME ~AllIdle PROVE status'.phase = status.phase
    OBVIOUS
  <2>1. pc \notin {"drop", "leader", "mark", "scaledIn"} /\ pc # "idle"
        /\ status.phase \in {"ScaleIn", "ScaleOut"} /\ nc.phase \in {"ScaleIn", "ScaleOut"}
    <3>1. pc # "idle"
      BY DEF Scale, SaveJob, ScaleOut, ScaleIn, DropHosts, BalanceLeaders, PVCMark, ScaleInDone,
         ReclaimPV, DeletePVC, CallFails
    <3> QED
      BY <1>i, <3>1 DEF JobInv
  <2>2. status'.phase \in {"ScaleIn", "ScaleOut"}
    <3>1. ~ScaleInDone
      BY <2>1 DEF ScaleInDone
    <3> QED
      BY <1>2, <1>4, <2>1, <3>1
  <2>3. /\ status'.phase = "ScaleIn" => spec < sts
        /\ status'.phase = "ScaleOut" => spec >= sts
    BY <1>1 DEF PhaseInv, PhaseFits
  <2>4. /\ status.phase = "ScaleIn" => spec < sts
        /\ status.phase = "ScaleOut" => spec >= sts
    BY <1>i DEF PhaseInv, PhaseFits
  <2> QED
    BY <1>t, <2>1, <2>2, <2>3, <2>4
<1>7. spec <= sts /\ (status'.phase # "ScaleOut" \/ nc'.phase = "Running") =>
        status.phase # "ScaleOut" \/ nc.phase = "Running"
  <2> SUFFICES ASSUME status'.phase # "ScaleOut" \/ nc'.phase = "Running",
                      status.phase = "ScaleOut", nc.phase # "Running"
               PROVE  FALSE
    OBVIOUS
  <2>1. spec >= sts /\ ~(spec < sts)
    BY <1>i, PhaseFacts
  <2>2. ~ScaleInDone
    BY ScaleInFacts DEF ScaleInDone
  <2>3. nc'.phase \in {nc.phase, "ScaleOut", "ScaleIn"} /\ nc'.phase # "Running"
    BY <1>4, <2>2
  <2>4. nc.phase = "ScaleOut"
    <3>1. pc # "idle" /\ nc.phase \in Phases /\ nc.phase # "" /\ nc.phase # "ScaleIn"
      BY <1>i, <1>t, <2>1, PhaseFacts
      DEF PhaseInv, StatusType, Scale, SaveJob, ScaleOut, ScaleIn, DropHosts, BalanceLeaders,
          PVCMark, ScaleInDone, ReclaimPV, DeletePVC, CallFails
    <3> QED
      BY <3>1 DEF Phases
  <2>5. nc'.phase # "ScaleIn"
    BY <1>1, <2>1 DEF PhaseInv, PhaseFits
  <2> QED
    BY <1>2, <2>3, <2>4, <2>5
<1> QED
  BY <1>1, <1>4, <1>5, <1>6, <1>7, BalancedQuiet

LEMMA PrimedCopies ==
    ASSUME \A c : c \in {status', nc'} => Truthful(c)'
    PROVE  Truthful(status)' /\ Truthful(nc)'
<1>1. PICK c, d : c = status' /\ d = nc'
  OBVIOUS
<1>2. Truthful(c)' /\ Truthful(d)'
  BY <1>1
<1> QED
  BY <1>1, <1>2 DEF Truthful

\* New hosts have no partitions, and nothing has been balanced for them yet
LEMMA BalancedAddHosts ==
    ASSUME Careful, AutoBalance, ReclaimInv, RegisteredInv, BalancedInv, AddStorageHosts
    PROVE  BalancedInv'
<1>i. RefInv /\ PhaseInv /\ PassInv /\ DropInv
  BY DEF ReclaimInv, CarefulInv
<1>t. /\ nc \in StatusType /\ spec \in Nat /\ sts \in Nat /\ want \in Nat /\ old \in Nat
  BY <1>i, Plain
<1>1. /\ UNCHANGED <<spec, sts, parts, jobs, spaces, status>> /\ pc = "hosts" /\ old = sts
      /\ nc'.phase = nc.phase /\ nc'.job = nc.job /\ nc'.balanced = nc.balanced
      /\ hosts' # hosts => ~nc.hostsAdded \/ want > old
  BY <1>i, <1>t, CopyFields DEF AddStorageHosts, api, kube, DropInv
<1>2. nc.phase = "ScaleOut" <=> status.phase = "ScaleOut"
  BY <1>i, <1>1 DEF PhaseInv
<1>3. hosts' = hosts \/ spec > sts \/ (nc.phase # "ScaleOut" /\ status.phase # "ScaleOut")
  <2>1. CASE ~nc.hostsAdded
    BY <1>2, <2>1 DEF RegisteredInv
  <2>2. CASE want > old
    BY <1>i, <1>t, <1>1, <2>2 DEF PassInv, Outdated
  <2> QED
    BY <1>1, <2>1, <2>2
<1>4. Truthful(status') /\ Truthful(nc')
  BY <1>1, TruthfulSame DEF BalancedInv
<1>5. \A j, p : FitsPhase(j, p)' <=> FitsPhase(j, p)
  BY <1>1 DEF FitsPhase, Surplus
<1>6. \A c : c \in {status', nc'} => Truthful(c)'
  <2> SUFFICES ASSUME NEW c, c \in {status', nc'} PROVE Truthful(c)'
    OBVIOUS
  <2>1. hosts' = hosts \/ spec > sts \/ c.phase # "ScaleOut"
    BY <1>1, <1>3
  <2>2. Truthful(c)
    BY <1>4
  <2>3. hosts' = hosts => \A s : Everywhere(s)' <=> Everywhere(s)
    BY <1>1 DEF Everywhere
  <2> QED
    BY <1>1, <1>5, <2>1, <2>2, <2>3 DEF Truthful
<1>7. Truthful(status)' /\ Truthful(nc)'
  BY <1>6, PrimedCopies
<1> QED
  BY <1>1, <1>5, <1>7 DEF BalancedInv

\* Replicas are added when the scale-out has been recorded, and taken away when
\* the scale-in is done
LEMMA BalancedUpdateWorkload ==
    ASSUME Careful, AutoBalance, ReclaimInv, BalancedInv, UpdateWorkload
    PROVE  BalancedInv'
<1>i. RefInv /\ PhaseInv /\ PassInv /\ DropInv
  BY DEF ReclaimInv, CarefulInv
<1>t. /\ spec \in Nat /\ sts \in Nat /\ want \in Nat /\ old \in Nat
  BY <1>i, Plain
<1>1. /\ sts' = want /\ pc = "workload" /\ old = sts
      /\ UNCHANGED <<spec, parts, jobs, spaces, hosts, status, nc>>
      /\ status.phase # "ScaleIn" /\ nc.phase # "ScaleIn"
  BY <1>i DEF UpdateWorkload, api, metad, DropInv, PhaseInv
<1>2. CASE want = sts
  BY <1>1, <1>2, BalancedQuiet DEF BalancedInv
<1>3. CASE want = spec
  <2>1. \A j, p : p # "ScaleIn" => (FitsPhase(j, p)' <=> FitsPhase(j, p))
    BY <1>1 DEF FitsPhase
  <2>2. \A s : Everywhere(s)' <=> Everywhere(s)
    BY <1>1 DEF Everywhere
  <2>3. \A c : c \in {status', nc'} => Truthful(c)'
    <3> SUFFICES ASSUME NEW c, c \in {status', nc'} PROVE Truthful(c)'
      OBVIOUS
    <3>1. Truthful(c) /\ c.phase # "ScaleIn"
      BY <1>1 DEF BalancedInv
    <3>2. ~(spec' > sts')
      BY <1>t, <1>1, <1>3
    <3> QED
      BY <1>1, <2>1, <2>2, <3>1, <3>2 DEF Truthful
  <2>4. status.phase # "ScaleOut" \/ nc.phase = "Running" => spec <= sts
    <3>1. CASE want > old
      <4>1. status.phase = "ScaleOut"
        BY <1>i, <1>1, <3>1 DEF PhaseInv
      <4>2. nc.phase = "Running" => spec = sts
        BY <1>i, <4>1 DEF PhaseInv
      <4> QED
        BY <1>t, <4>1, <4>2
    <3>2. CASE ~(want > old)
      BY <1>t, <1>1, <1>3, <3>2
    <3> QED
      BY <3>1, <3>2
  <2>5. Truthful(status)' /\ Truthful(nc)'
    BY <2>3, PrimedCopies
  <2> QED
    BY <1>1, <2>1, <2>4, <2>5 DEF BalancedInv
<1> QED
  BY <1>i, <1>1, <1>2, <1>3 DEF PassInv, Outdated

\* Steps of pods, and those that change nothing
LEMMA BalancedOther ==
    ASSUME ReclaimInv, BalancedInv,
           \/ \E o \in Ordinals : PodStart(o) \/ PodReady(o) \/ PodStop(o) \/ PodFail(o)
           \/ UNCHANGED vars
    PROVE  BalancedInv'
<1>1. UNCHANGED <<spec, sts, status, hosts, nc, parts, jobs, spaces>>
  BY DEF PodStart, PodReady, PodStop, PodFail, PodGone, api, metad, local, vars
<1> QED
  BY <1>1, BalancedQuiet DEF BalancedInv

\* Users change the replicas, or create a space, when nothing is under way
LEMMA BalancedUser ==
    ASSUME Careful, ReclaimInv, RegisteredInv, BalancedInv,
           \/ \E n \in Replicas : PatchReplicas(n)
           \/ \E s \in Spaces : CreateSpace(s)
    PROVE  BalancedInv'
<1>i. RefInv
  BY DEF ReclaimInv, CarefulInv
<1>t. /\ spec \in Nat /\ sts \in Nat /\ Ordinals \subseteq Nat /\ Replicas \subseteq Nat
      /\ parts \in [Ordinals -> SUBSET Spaces]
  BY <1>i, Plain DEF Replicas
<1>1. /\ Settled /\ UNCHANGED <<nc, status, sts, hosts, jobs>>
  BY DEF Careful, PatchReplicas, CreateSpace, Admitted, api, metad, kube, local
<1>2. /\ AllIdle /\ sts = spec /\ status.phase = "Running" /\ status.hostsAdded
      /\ nc.phase \notin {"ScaleIn", "ScaleOut"}
  BY <1>1, SettledHosts
<1>3. \A c \in {status, nc} : c.balanced = {} /\ c.job = NoJob
  BY <1>2 DEF BalancedInv, Truthful
<1>4. Truthful(status)' /\ Truthful(nc)'
  BY <1>1, <1>3 DEF Truthful
<1>5. \A o \in Ordinals : o < spec => spaces \subseteq parts[o] /\ o \in hosts
  BY <1>t, <1>2 DEF BalancedInv, RegisteredInv
<1>6. \A o \in Ordinals : spec' <= sts /\ o < spec' => spaces' \subseteq parts'[o]
  <2>1. ASSUME NEW n \in Replicas, PatchReplicas(n)
        PROVE  \A o \in Ordinals : spec' <= sts /\ o < spec' => spaces' \subseteq parts'[o]
    BY <1>t, <1>2, <1>5, <2>1 DEF PatchReplicas, metad
  <2>2. ASSUME NEW s \in Spaces, CreateSpace(s)
        PROVE  \A o \in Ordinals : spec' <= sts /\ o < spec' => spaces' \subseteq parts'[o]
    BY <1>t, <1>5, <2>2 DEF CreateSpace, api
  <2> QED
    BY <2>1, <2>2
<1> QED
  BY <1>1, <1>2, <1>4, <1>6 DEF BalancedInv, AllIdle

\* Jobs are submitted, recovered or fail; none finishes
LEMMA BalancedJobs ==
    ASSUME ReclaimInv, BalancedInv, UNCHANGED <<spec, sts, parts, spaces, hosts, status>>,
           nc'.phase = nc.phase, nc'.balanced = nc.balanced,
           \A k \in 1 .. Len(jobs) :
             /\ jobs'[k].hosts = jobs[k].hosts
             /\ jobs'[k].state = "finished" => jobs[k].state = "finished",
           \A k \in 1 .. Len(jobs') : jobs'[k].state = "running" => FitsPhase(k, status.phase)',
           \/ nc'.job = nc.job
           \/ /\ nc.phase \in {"ScaleIn", "ScaleOut"} /\ ~(spec > sts)
              /\ FitsPhase(nc.job.id, nc.phase)' /\ jobs'[nc'.job.id].state # "finished"
    PROVE  BalancedInv'
<1>1. \A s : Everywhere(s)' <=> Everywhere(s)
  BY DEF Everywhere
<1>2. \A k \in 1 .. Len(jobs) : \A p : FitsPhase(k, p)' <=> FitsPhase(k, p)
  BY DEF FitsPhase, Surplus
<1>3. /\ nc.job # NoJob => nc.job.id \in 1 .. Len(jobs)
      /\ status.job # NoJob => status.job.id \in 1 .. Len(jobs)
  BY DEF ReclaimInv, CarefulInv, RefInv, JobRecorded, Submitted
<1>4. Truthful(status)'
  BY <1>1, <1>2, <1>3 DEF BalancedInv, Truthful
<1>5. Truthful(nc)'
  <2>1. CASE nc'.job = nc.job
    BY <1>1, <1>2, <1>3, <2>1 DEF BalancedInv, Truthful
  <2>2. CASE /\ nc.phase \in {"ScaleIn", "ScaleOut"} /\ ~(spec > sts)
             /\ FitsPhase(nc.job.id, nc.phase)' /\ jobs'[nc'.job.id].state # "finished"
    BY <1>1, <2>2 DEF BalancedInv, Truthful
  <2> QED
    BY <2>1, <2>2
<1> QED
  BY <1>4, <1>5 DEF BalancedInv

\* The jobs of a pass: a balance of all hosts, or a removal from the surplus
LEMMA BalancedJob ==
    ASSUME ReclaimInv, BalancedInv, pc \in {"balance", "remove"}, NEW s \in Spaces,
           NEW H \in SUBSET Ordinals,
           pc = "balance" => H = {}, pc = "remove" => H = Surplus,
           UNCHANGED <<spec, sts, parts, spaces, hosts>>,
           \/ HasJob(s) /\ (RecoverJob \/ WaitForJob)
           \/ ~HasJob(s) /\ SubmitJob(s, H)
    PROVE  BalancedInv'
<1>i. RefInv /\ PhaseInv
  BY DEF ReclaimInv, CarefulInv
<1>t. /\ jobs \in Seq(JobType) /\ Len(jobs) \in Nat /\ nc \in StatusType
      /\ spec \in Nat /\ sts \in Nat /\ "running" \in JobState
  BY <1>i, Plain DEF JobState
<1>1. nc = status /\ spec <= sts
  BY ScalingHosts
<1>2. /\ pc = "balance" => nc.phase = "ScaleOut"
      /\ pc = "remove" => nc.phase = "ScaleIn"
  BY <1>i DEF PhaseInv
<1>3. \A k \in 1 .. Len(jobs) : jobs[k].state = "running" => FitsPhase(k, status.phase)
  BY DEF BalancedInv
<1>4. CASE HasJob(s) /\ RecoverJob
  <2>1. nc.job # NoJob /\ UNCHANGED <<nc, status>>
    BY <1>4 DEF HasJob, RecoverJob
  <2>2. PICK id \in 1 .. Len(jobs) : id = nc.job.id
    BY <1>i, <2>1 DEF RefInv, JobRecorded, Submitted
  <2>3. /\ Len(jobs') = Len(jobs)
        /\ \A k \in 1 .. Len(jobs) : /\ jobs'[k].hosts = jobs[k].hosts
                                     /\ k # id => jobs'[k] = jobs[k]
        /\ jobs'[id].state = "running"
    BY <1>t, <1>4, <2>2, JobStateType DEF RecoverJob
  <2>4. FitsPhase(id, status.phase)
    BY <1>1, <2>1, <2>2 DEF BalancedInv, Truthful
  <2>5. \A k \in 1 .. Len(jobs') : jobs'[k].state = "running" => FitsPhase(k, status.phase)'
    BY <1>3, <2>1, <2>3, <2>4 DEF FitsPhase, Surplus
  <2>6. \A k \in 1 .. Len(jobs) : jobs'[k].state = "finished" => jobs[k].state = "finished"
    BY <2>3
  <2> QED
    BY <2>1, <2>3, <2>5, <2>6, BalancedJobs
<1>5. CASE WaitForJob
  <2>1. UNCHANGED <<nc, status, jobs>>
    BY <1>5 DEF WaitForJob
  <2> QED
    BY <2>1, BalancedQuiet DEF BalancedInv
<1>6. CASE SubmitJob(s, H)
  <2>1. /\ Len(jobs') = Len(jobs) + 1
        /\ \A k \in 1 .. Len(jobs) : jobs'[k] = jobs[k]
        /\ jobs'[Len(jobs) + 1].hosts = H
        /\ jobs'[Len(jobs) + 1].state = "running"
    BY <1>t, <1>6, NewJob DEF SubmitJob
  <2>2. nc' = nc \/ nc' = WithJob(nc, s, Len(jobs) + 1)
    BY <1>6 DEF SubmitJob
  <2>3. UNCHANGED status
    BY <1>6 DEF SubmitJob
  <2>4. Len(jobs) + 1 \in Nat \ {0}
    BY <1>t
  <2>5. /\ nc'.phase = nc.phase /\ nc'.balanced = nc.balanced
        /\ nc'.job = nc.job \/ nc'.job.id = Len(jobs) + 1
    <3>1. CASE nc' = nc
      BY <3>1
    <3>2. CASE nc' = WithJob(nc, s, Len(jobs) + 1)
      <4>1. nc'.phase = nc.phase /\ nc'.job.id = Len(jobs) + 1
        BY <1>t, <2>4, <3>2, JobUpdate
      <4>2. nc'.balanced = nc.balanced
        BY <1>t, <3>2, MoreFields
      <4> QED
        BY <4>1, <4>2
    <3> QED
      BY <2>2, <3>1, <3>2
  <2>6. PICK i : i = Len(jobs) + 1
    OBVIOUS
  <2>7. /\ jobs'[i].hosts = H
        /\ nc'.phase = "ScaleOut" => H = {}
        /\ nc'.phase = "ScaleIn" => H \subseteq Surplus'
    BY <1>2, <2>1, <2>5, <2>6 DEF Surplus
  <2>8. FitsPhase(i, nc.phase)'
    BY <2>7 DEF FitsPhase
  <2>9. \A k \in 1 .. Len(jobs') : jobs'[k].state = "running" => FitsPhase(k, status.phase)'
    <3> SUFFICES ASSUME NEW k \in 1 .. Len(jobs'), jobs'[k].state = "running"
                 PROVE  FitsPhase(k, status.phase)'
      OBVIOUS
    <3>1. CASE k = i
      BY <1>1, <2>3, <2>5, <2>8, <3>1 DEF FitsPhase
    <3>2. CASE k # i
      <4>1. k \in 1 .. Len(jobs) /\ jobs'[k] = jobs[k]
        BY <1>t, <2>1, <2>6, <3>2
      <4> QED
        BY <1>3, <2>3, <4>1 DEF FitsPhase, Surplus
    <3> QED
      BY <3>1, <3>2
  <2>10. \/ nc'.job = nc.job
         \/ /\ nc.phase \in {"ScaleIn", "ScaleOut"} /\ ~(spec > sts)
            /\ FitsPhase(nc.job.id, nc.phase)' /\ jobs'[nc'.job.id].state # "finished"
    <3> SUFFICES ASSUME nc'.job # nc.job
                 PROVE  /\ nc.phase \in {"ScaleIn", "ScaleOut"} /\ ~(spec > sts)
                        /\ FitsPhase(nc.job.id, nc.phase)' /\ jobs'[nc'.job.id].state # "finished"
      OBVIOUS
    <3>1. nc'.job.id = i
      BY <2>5, <2>6
    <3>2. FitsPhase(nc.job.id, nc.phase)'
      BY <2>8, <3>1 DEF FitsPhase
    <3>3. jobs'[nc'.job.id].state # "finished"
      BY <2>1, <2>6, <3>1
    <3> QED
      BY <1>t, <1>1, <1>2, <3>2, <3>3
  <2>11. \A k \in 1 .. Len(jobs) : /\ jobs'[k].hosts = jobs[k].hosts
                                   /\ jobs'[k].state = "finished" => jobs[k].state = "finished"
    BY <2>1
  <2> QED
    BY <2>3, <2>5, <2>9, <2>10, <2>11, BalancedJobs
<1> QED
  BY <1>4, <1>5, <1>6

LEMMA BalancedScaleOut ==
    ASSUME AutoBalance, ReclaimInv, RegisteredInv, BalancedInv, ScaleOutBalance
    PROVE  BalancedInv'
<1>i. RefInv /\ PhaseInv /\ JobInv /\ PassInv /\ SpaceInv
  BY DEF ReclaimInv, CarefulInv
<1>t. /\ nc \in StatusType /\ listed \subseteq Spaces /\ listed = spaces
      /\ spec \in Nat /\ sts \in Nat
  BY <1>i, Plain DEF RefInv, TypeOK, PassInv, ScaleOutBalance
<1>1. pc = "balance" /\ UNCHANGED <<spec, sts, hosts, spaces, parts>>
  BY DEF ScaleOutBalance, kube
<1>2. /\ spec = sts /\ want = spec /\ nc = status /\ nc.phase = "ScaleOut"
  BY <1>i, <1>1, ScalingHosts DEF PhaseInv
<1>3. Truthful(status) /\ Truthful(nc)
  BY DEF BalancedInv
<1>4. CASE \E s \in listed : /\ HasJob(s) /\ JobIs("finished")
                             /\ Save(WithBalanced(nc, s), "balance") /\ UNCHANGED jobs
  <2>1. PICK s \in listed : /\ HasJob(s) /\ JobIs("finished")
                            /\ Save(WithBalanced(nc, s), "balance") /\ UNCHANGED jobs
    BY <1>4
  <2>2. Everywhere(s)
    BY <1>2, <1>3, <2>1 DEF HasJob, JobIs, Truthful
  <2>3. nc' = WithBalanced(nc, s) /\ status' \in {status, nc'}
    BY <2>1 DEF Save
  <2>4. nc'.phase = nc.phase /\ nc'.job = nc.job
    BY <1>t, <2>3, CopyFields
  <2>5. nc'.balanced = nc.balanced \cup {s}
    BY <1>t, <2>3, MoreFields
  <2>6. Truthful(nc')
    BY <1>t, <1>2, <1>3, <2>2, <2>4, <2>5 DEF Truthful
  <2>7. Truthful(status')
    BY <1>3, <2>3, <2>6
  <2> QED
    BY <1>1, <1>2, <2>1, <2>3, <2>4, <2>6, <2>7, BalancedQuiet
<1>5. CASE \E s \in listed : \/ HasJob(s) /\ (RecoverJob \/ WaitForJob)
                             \/ ~HasJob(s) /\ SubmitJob(s, {})
  BY <1>t, <1>1, <1>5, BalancedJob
<1>6. CASE listed \ nc.balanced = {} /\ Save(ScaledOut(nc), "workload") /\ UNCHANGED jobs
  <2>1. AllIdle
    <3>1. \A t \in spaces : Idle(t)
      BY <1>i, <1>t, <1>2, <1>6 DEF JobInv, Done
    <3> QED
      BY <1>i, <3>1 DEF SpaceInv, Idle, AllIdle
  <2>2. nc' = ScaledOut(nc) /\ status' \in {status, nc'}
    BY <1>6 DEF Save
  <2>3. nc'.balanced = {} /\ nc'.job = NoJob
    BY <1>t, <2>2, MoreFields
  <2>4. Truthful(nc') /\ Truthful(status')
    BY <1>3, <2>2, <2>3, TruthfulEmpty
  <2>5. \A s \in spaces : Everywhere(s)
    BY <1>t, <1>2, <1>3, <1>6 DEF Truthful
  <2>6. \A o \in Ordinals : o < spec => o \in hosts
    BY <1>1, <1>2 DEF RegisteredInv
  <2>7. \A o \in Ordinals : o < spec => spaces \subseteq parts[o]
    BY <2>5, <2>6 DEF Everywhere
  <2> QED
    BY <1>1, <1>6, <2>1, <2>4, <2>7, BalancedQuiet
<1> QED
  BY <1>4, <1>5, <1>6 DEF ScaleOutBalance, BalanceSpace

LEMMA BalancedRemove ==
    ASSUME AutoBalance, ReclaimInv, BalancedInv, ScaleInRemove
    PROVE  BalancedInv'
<1>i. RefInv /\ PhaseInv /\ PassInv
  BY DEF ReclaimInv, CarefulInv
<1>t. /\ nc \in StatusType /\ listed \subseteq Spaces /\ targets \in SUBSET Ordinals
  BY <1>i DEF RefInv, TypeOK
<1>1. pc = "remove" /\ UNCHANGED <<spec, sts, hosts, spaces, parts>>
  BY DEF ScaleInRemove, kube
<1>2. nc = status /\ nc.phase = "ScaleIn"
  BY <1>i, <1>1, ScalingHosts DEF PhaseInv
<1>3. targets = Surplus
  BY <1>i, <1>1 DEF PassInv
<1>4. Truthful(status) /\ Truthful(nc)
  BY DEF BalancedInv
<1>5. CASE \E s \in listed : Save(WithRemoved(nc, s), "remove") /\ UNCHANGED jobs
  <2>1. PICK s \in listed : Save(WithRemoved(nc, s), "remove") /\ UNCHANGED jobs
    BY <1>5
  <2>2. nc' = WithRemoved(nc, s) /\ status' \in {status, nc'}
    BY <2>1 DEF Save
  <2>3. nc'.phase = nc.phase /\ nc'.job = nc.job /\ nc'.balanced = nc.balanced
    BY <1>t, <2>2, MoreFields
  <2>4. Truthful(nc') /\ Truthful(status')
    BY <1>4, <2>2, <2>3, TruthfulSame
  <2> QED
    BY <1>1, <1>2, <2>1, <2>2, <2>3, <2>4, BalancedQuiet
<1>6. CASE \E s \in listed : \/ HasJob(s) /\ (RecoverJob \/ WaitForJob)
                             \/ ~HasJob(s) /\ SubmitJob(s, targets)
  BY <1>t, <1>1, <1>3, <1>6, BalancedJob
<1>7. CASE UNCHANGED <<jobs, nc, status>>
  BY <1>1, <1>4, <1>7, BalancedQuiet
<1> QED
  BY <1>5, <1>6, <1>7 DEF ScaleInRemove, RemoveHost

\* A job that ends: a finished balance has the space on every host, a removal
\* takes nothing from the replicas that stay
LEMMA BalancedEnds ==
    ASSUME ReclaimInv, BalancedInv, NEW j \in 1 .. Len(jobs), FinishJob(j) \/ FailJob(j)
    PROVE  BalancedInv'
<1>i. RefInv /\ PhaseInv /\ JobInv /\ PassInv
  BY DEF ReclaimInv, CarefulInv
<1>t. /\ jobs \in Seq(JobType) /\ Len(jobs) \in Nat /\ {"finished", "failed"} \subseteq JobState
      /\ parts \in [Ordinals -> SUBSET Spaces] /\ hosts \subseteq Ordinals
      /\ spec \in Nat /\ sts \in Nat /\ Ordinals \subseteq Nat
  BY <1>i, Plain DEF JobState
<1>1. /\ UNCHANGED <<spec, sts, spaces, hosts, status, nc>>
      /\ jobs[j].state = "running" /\ ~AllIdle
  BY DEF FinishJob, FailJob, RunsNext, AllIdle, api, kube, local
<1>2. PICK st \in {"finished", "failed"} :
        /\ jobs' = [jobs EXCEPT ![j].state = st]
        /\ st = "finished" => FinishJob(j)
        /\ st = "failed" => UNCHANGED parts
  BY DEF FinishJob, FailJob
<1>3. /\ Len(jobs') = Len(jobs)
      /\ \A k \in 1 .. Len(jobs) : /\ jobs'[k].hosts = jobs[k].hosts
                                   /\ k # j => jobs'[k] = jobs[k]
      /\ jobs'[j].state = st
  BY <1>t, <1>2, JobStateType
<1>4. \A k \in 1 .. Len(jobs) : \A p : FitsPhase(k, p)' <=> FitsPhase(k, p)
  BY <1>1, <1>3 DEF FitsPhase, Surplus
<1>5. /\ spec <= sts /\ status.phase \in {"ScaleIn", "ScaleOut"}
      /\ pc # "idle" => nc.phase \in {"ScaleIn", "ScaleOut"}
      /\ FitsPhase(j, status.phase)
  BY <1>i, <1>1 DEF JobInv, BalancedInv
<1>6. CASE st = "failed"
  <2>1. \A k \in 1 .. Len(jobs) : jobs'[k].state = "finished" => jobs[k].state = "finished"
    BY <1>3, <1>6
  <2>2. \A k \in 1 .. Len(jobs') : jobs'[k].state = "running" => FitsPhase(k, status.phase)'
    <3> SUFFICES ASSUME NEW k \in 1 .. Len(jobs), jobs'[k].state = "running"
                 PROVE  FitsPhase(k, status.phase)'
      BY <1>3
    <3>1. jobs[k].state = "running"
      BY <1>3, <1>6
    <3> QED
      BY <1>1, <1>3, <3>1 DEF BalancedInv, FitsPhase, Surplus
  <2> QED
    BY <1>1, <1>2, <1>3, <1>6, <2>1, <2>2, BalancedJobs
<1>7. CASE st = "finished"
  <2>1. parts' = [o \in Ordinals |->
                    IF o \in jobs[j].hosts THEN parts[o] \ {jobs[j].space}
                    ELSE IF o \in hosts THEN parts[o] \cup {jobs[j].space}
                    ELSE parts[o]]
    BY <1>2, <1>7 DEF FinishJob
  <2>2. \A c \in {status, nc} : c.phase = "ScaleOut" => status.phase = "ScaleOut"
    BY <1>i, <1>5, PhaseFacts
  <2>3. status.phase = "ScaleOut" =>
          /\ \A s : Everywhere(s) => Everywhere(s)'
          /\ Everywhere(jobs[j].space)'
    <3> SUFFICES ASSUME status.phase = "ScaleOut"
                 PROVE  /\ \A s : Everywhere(s) => Everywhere(s)'
                        /\ Everywhere(jobs[j].space)'
      OBVIOUS
    <3>1. jobs[j].hosts = {}
      BY <1>5 DEF FitsPhase
    <3>2. \A o \in hosts : parts'[o] = parts[o] \cup {jobs[j].space}
      BY <1>t, <2>1, <3>1
    <3>3. jobs'[j].space = jobs[j].space
      BY <1>t, <1>2, JobStateType
    <3> QED
      BY <1>1, <3>2, <3>3 DEF Everywhere
  <2>4. \A c : c \in {status', nc'} => Truthful(c)'
    <3> SUFFICES ASSUME NEW c, c \in {status', nc'} PROVE Truthful(c)'
      OBVIOUS
    <3>1. Truthful(c) /\ c \in {status, nc} /\ Submitted(c.job)
      BY <1>i, <1>1 DEF BalancedInv, RefInv, JobRecorded
    <3>2. c.phase = "ScaleOut" => \A s \in c.balanced : Everywhere(s)'
      BY <2>2, <2>3, <3>1 DEF Truthful
    <3>3. ASSUME c.job # NoJob
          PROVE  /\ FitsPhase(c.job.id, c.phase)'
                 /\ c.phase = "ScaleOut" /\ jobs'[c.job.id].state = "finished" =>
                      Everywhere(c.job.space)'
      <4>1. c.job.id \in 1 .. Len(jobs) /\ jobs[c.job.id].space = c.job.space
        BY <3>1, <3>3 DEF Submitted
      <4>2. FitsPhase(c.job.id, c.phase)'
        BY <1>4, <3>1, <3>3, <4>1 DEF Truthful
      <4>3. ASSUME c.phase = "ScaleOut", jobs'[c.job.id].state = "finished"
            PROVE  Everywhere(c.job.space)'
        <5>1. CASE c.job.id = j
          <6>1. c.job.space = jobs'[j].space
            BY <1>t, <1>2, <4>1, <5>1, JobStateType
          <6>2. Everywhere(jobs[j].space)'
            BY <2>2, <2>3, <3>1, <4>3
          <6> QED
            BY <6>1, <6>2 DEF Everywhere
        <5>2. CASE c.job.id # j
          <6>1. Everywhere(c.job.space)
            BY <1>3, <3>1, <3>3, <4>1, <4>3, <5>2 DEF Truthful
          <6> QED
            BY <2>2, <2>3, <3>1, <4>3, <6>1
        <5> QED
          BY <5>1, <5>2
      <4> QED
        BY <4>2, <4>3
    <3> QED
      BY <1>1, <3>1, <3>2, <3>3 DEF Truthful
  <2>5. Truthful(status)' /\ Truthful(nc)'
    BY <2>4, PrimedCopies
  <2>6. \A k \in 1 .. Len(jobs') : jobs'[k].state = "running" => FitsPhase(k, status.phase)'
    <3> SUFFICES ASSUME NEW k \in 1 .. Len(jobs), jobs'[k].state = "running"
                 PROVE  FitsPhase(k, status.phase)'
      BY <1>3
    <3>1. jobs[k].state = "running"
      BY <1>3, <1>7
    <3> QED
      BY <1>1, <1>3, <3>1 DEF BalancedInv, FitsPhase, Surplus
  <2>7. status.phase # "ScaleOut" \/ nc.phase = "Running" =>
          \A o \in Ordinals : o < spec => spaces \subseteq parts'[o]
    <3> SUFFICES ASSUME status.phase # "ScaleOut" \/ nc.phase = "Running",
                        NEW o \in Ordinals, o < spec
                 PROVE  spaces \subseteq parts'[o]
      OBVIOUS
    <3>1. nc.phase # "Running"
      <4>1. CASE pc = "idle"
        <5>1. nc = NewStatus
          BY <1>i, <4>1 DEF PassInv
        <5> QED
          BY <5>1 DEF NewStatus
      <4>2. CASE pc # "idle"
        BY <1>5, <4>2
      <4> QED
        BY <4>1, <4>2
    <3>2. jobs[j].hosts \subseteq Surplus /\ spaces \subseteq parts[o]
      BY <1>5, <3>1 DEF FitsPhase, BalancedInv
    <3>3. o \notin jobs[j].hosts
      BY <1>t, <3>2 DEF Surplus
    <3> QED
      BY <1>t, <2>1, <3>2, <3>3
  <2> QED
    BY <1>1, <2>5, <2>6, <2>7 DEF BalancedInv
<1> QED
  BY <1>6, <1>7

---------------------------------------------------------------------------
LEMMA SettledInvInit == Init => SettledInv
<1> SUFFICES ASSUME Init PROVE SettledInv
  OBVIOUS
<1>1. ReclaimInv
  BY ReclaimInvInit
<1>2. /\ status = NewStatus /\ nc = NewStatus /\ pc = "idle"
      /\ spaces = {} /\ jobs = <<>>
  BY DEF Init
<1>3. /\ NewStatus.phase = "" /\ NewStatus.job = NoJob /\ NewStatus.hostsAdded = FALSE
      /\ NewStatus.balanced = {}
  BY DEF NewStatus
<1>4. RegisteredInv
  BY <1>2, <1>3 DEF RegisteredInv
<1>5. Truthful(status) /\ Truthful(nc)
  BY <1>2, <1>3, TruthfulEmpty
<1>6. BalancedInv
  BY <1>2, <1>5 DEF BalancedInv
<1> QED
  BY <1>1, <1>4, <1>6 DEF SettledInv

LEMMA SettledInvNext == Careful /\ SettledInv /\ [Next]_vars => SettledInv'
<1> SUFFICES ASSUME Careful, SettledInv, [Next]_vars PROVE SettledInv'
  OBVIOUS
<1>i. ReclaimInv /\ RegisteredInv /\ (AutoBalance => BalancedInv)
  BY DEF SettledInv
<1>1. ReclaimInv' /\ PhaseInv' /\ HostInv'
  BY <1>i, ReclaimInvNext DEF ReclaimInv
<1> SUFFICES RegisteredInv' /\ (AutoBalance => BalancedInv')
  BY <1>1 DEF SettledInv
<1>2. CASE Reconcile \/ CallFails \/ Crash
  <2>1. CASE StartReconcile \/ EndReconcile \/ Crash
    BY <1>i, <2>1, RegisteredStart, BalancedStart
  <2>2. CASE AddStorageHosts
    BY <1>i, <2>2, RegisteredAddHosts, BalancedAddHosts
  <2>3. CASE \/ Scale \/ SaveJob \/ ScaleOut \/ ScaleIn \/ DropHosts \/ BalanceLeaders
             \/ PVCMark \/ ScaleInDone \/ ReclaimPV \/ DeletePVC \/ CallFails
    BY <1>i, <1>1, <2>3, RegisteredPass, BalancedPass
  <2>4. CASE ScaleOutBalance
    BY <1>i, <1>1, <2>4, RegisteredPass, BalancedScaleOut
  <2>5. CASE ScaleInRemove
    BY <1>i, <1>1, <2>5, RegisteredPass, BalancedRemove
  <2>6. CASE UpdateWorkload
    BY <1>i, <2>6, RegisteredUpdateWorkload, BalancedUpdateWorkload
  <2> QED
    BY <1>2, <2>1, <2>2, <2>3, <2>4, <2>5, <2>6 DEF Reconcile
<1>3. CASE (\E n \in Replicas : PatchReplicas(n)) \/ (\E s \in Spaces : CreateSpace(s))
  BY <1>i, <1>3, RegisteredUser, BalancedUser
<1>4. ~CacheSync
  BY DEF CacheSync, Careful
<1>5. CASE \/ \E o \in Ordinals : PodStart(o) \/ PodReady(o) \/ PodStop(o) \/ PodFail(o)
           \/ UNCHANGED vars
  BY <1>i, <1>5, RegisteredOther, BalancedOther
<1>6. CASE \E j \in 1 .. Len(jobs) : FinishJob(j) \/ FailJob(j)
  BY <1>i, <1>6, RegisteredOther, BalancedEnds
<1> QED
  BY <1>2, <1>3, <1>4, <1>5, <1>6 DEF Next

\* What a settled cluster has
LEMMA SettledParts == SettledInv => SettledRegistered /\ SettledBalanced
<1> SUFFICES ASSUME SettledInv, Settled
             PROVE  /\ hosts = 0 .. spec - 1
                    /\ AutoBalance =>
                         \A o \in Ordinals : parts[o] = IF o < spec THEN spaces ELSE {}
  BY DEF SettledRegistered, SettledBalanced
<1>i. ReclaimInv /\ RegisteredInv /\ RefInv /\ SpaceInv /\ ClaimInv /\ (AutoBalance => BalancedInv)
  BY DEF SettledInv, ReclaimInv, CarefulInv
<1>t. /\ spec \in Nat /\ sts \in Nat /\ Ordinals \subseteq Nat /\ hosts \subseteq Ordinals
      /\ \A o \in Nat : o < sts => o \in Ordinals
  BY <1>i, Plain
<1>1. /\ sts = spec /\ status.hostsAdded /\ \A o \in hosts : o < sts
      /\ status.phase = "Running"
  BY <1>i, SettledHosts
<1>2. \A o \in Ordinals : o < spec => o \in hosts
  BY <1>i, <1>1 DEF RegisteredInv
<1>3. hosts = 0 .. spec - 1
  <2>1. \A o : o \in hosts => o \in 0 .. spec - 1
    BY <1>t, <1>1
  <2>2. \A o \in 0 .. spec - 1 : o \in hosts
    BY <1>t, <1>1, <1>2
  <2> QED
    BY <2>1, <2>2
<1>4. ASSUME AutoBalance, NEW o \in Ordinals
      PROVE  parts[o] = IF o < spec THEN spaces ELSE {}
  <2>1. parts[o] \subseteq spaces
    BY <1>i DEF SpaceInv
  <2>2. o < spec => spaces \subseteq parts[o]
    BY <1>i, <1>t, <1>1, <1>4 DEF BalancedInv
  <2>3. ~(o < spec) => parts[o] = {}
    BY <1>i, <1>1 DEF ClaimInv
  <2> QED
    BY <2>1, <2>2, <2>3
<1> QED
  BY <1>3, <1>4

\* SettledRegistered and SettledBalanced for every instance with careful users:
\* whatever failed on the way, a cluster that is settled again has exactly its
\* replicas registered, and with automatic balancing every space is on each of
\* them (storaged_cluster.go addStorageHosts, storaged_scaler.go)
THEOREM CarefulSettled == Careful /\ Spec => [](SettledRegistered /\ SettledBalanced)
<1>1. Careful /\ Init => Careful /\ SettledInv
  BY SettledInvInit
<1>2. (Careful /\ SettledInv) /\ [Next]_vars => (Careful /\ SettledInv)'
  BY SettledInvNext DEF Careful
<1> QED
  BY <1>1, <1>2, SettledParts, PTL DEF Spec
=============================================================================
