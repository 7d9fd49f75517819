--------------------------- MODULE NodeZoneProofs ---------------------------
(***************************************************************************)
(* Proofs about NodeZone: the types, and that the pods of a group run in   *)
(* different zones, each in the zone of its host in metad.                 *)
(***************************************************************************)
EXTENDS NodeZone, TLAPS

\* The largest size exists, and the pods of every size have ordinals.
LEMMA MaxSizeType ==
    /\ MaxSize \in Nat \ {0} /\ \A k \in Sizes : k \in Nat \ {0} /\ k <= MaxSize
    /\ Ords \subseteq Nat /\ \A n \in Sizes : 0 .. n - 1 \subseteq Ords
<1>1. MaxSize \in Sizes /\ \A k \in Sizes : k <= MaxSize
  BY ZoneAssumption DEF MaxSize
<1> QED BY <1>1, ZoneAssumption, SMT DEF Ords

\* Only a pod that is not the first of its group has pods before it.
LEMMA GroupIsSymmetric ==
    ASSUME NEW o \in Ords, NEW p \in Ords
    PROVE  /\ p \in Group(o) => o \in Group(p)
           /\ p \in Group(o) /\ p < o => Remainder(o) # 0
<1>1. o \in Nat /\ p \in Nat
  BY MaxSizeType
<1>2. p < o /\ p \div 3 = o \div 3 => o % 3 # 0
  BY <1>1
<1> QED BY <1>2 DEF Group, Remainder, AvailableZones

-----------------------------------------------------------------------------
(***************************************************************************)
(* Types.                                                                  *)
(***************************************************************************)
Names == {"edits", "evictions", "rebuilds", "full", "faults"}

Passes == [n : Nat, ready : BOOLEAN, i : Nat, zone : ZoneOrNone, map : [Ords -> ZoneOrNone]]
PodState == [state : {"gone", "pending", "assumed", "waiting", "binding", "bound", "ready"}, zone : ZoneOrNone]

\* Pods have a zone when the scheduler chose one; the one cycle has a pod and a zone.
PodShape ==
    /\ pods \in [Ords -> PodState]
    /\ \A o \in Ords : /\ pods[o].state \in {"gone", "pending"} <=> pods[o].zone = None
                       /\ pods[o].state = "assumed" => cycle = [pod |-> o, zone |-> pods[o].zone]
    /\ cycle = NoCycle \/ \E o \in Ords, z \in Zones : cycle = [pod |-> o, zone |-> z]
MapShape ==
    /\ claim \in [Ords -> ZoneOrNone] /\ cm \in [Ords -> ZoneOrNone] /\ hosts \in [Ords -> ZoneOrNone]
    /\ lister \in [Ords -> ZoneOrNone] /\ cmLister \in [Ords -> ZoneOrNone]
\* The pass works on one of the pods that it counted when it began.
PassShape ==
    /\ op \in Passes
    /\ pc \in {"idle", "pods", "add", "write", "scale", "mappings", "end"} /\ queued \in BOOLEAN
    /\ pc = "idle" => op = NoPass
    /\ pc # "idle" => op.n \in Sizes
    /\ pc \in {"pods", "add"} => op.i <= op.n
    /\ IF pc = "add" THEN op.i < op.n /\ op.zone # None ELSE op.zone = None
ObjectShape ==
    /\ replicas \in Sizes /\ size \in Sizes /\ phase \in {"Running", "ScaleOut"} /\ full \subseteq Zones
BudgetShape ==
    budget \in [edits : 0 .. MaxEdits, evictions : 0 .. MaxEvictions, rebuilds : 0 .. MaxRebuilds,
                full : 0 .. MaxFull, faults : 0 .. MaxFaults]
TypeInv == PodShape /\ MapShape /\ PassShape /\ ObjectShape /\ BudgetShape

LEMMA NoneTypes ==
    /\ NoPass \in Passes /\ NoPass.n = 0 /\ NoPass.zone = None /\ NoPass.map = [o \in Ords |-> None]
    /\ [o \in Ords |-> None] \in [Ords -> ZoneOrNone]
    /\ None \notin Zones /\ None \in ZoneOrNone /\ Zones \subseteq ZoneOrNone
    /\ Gone = [state |-> "gone", zone |-> None] /\ Pending = [state |-> "pending", zone |-> None]
BY MaxSizeType, ZoneAssumption DEF Passes, NoPass, ZoneOrNone, Gone, Pending

LEMMA TypeOKHolds == TypeInv => TypeOK
BY DEF TypeInv, TypeOK, PodShape, MapShape, PassShape, Passes, ObjectShape, PodState

LEMMA PodTypes ==
    ASSUME PodShape, MapShape, NEW o \in Ords
    PROVE  /\ pods[o] \in PodState /\ pods[o] = [state |-> pods[o].state, zone |-> pods[o].zone]
           /\ pods[o].zone \in ZoneOrNone /\ Scheduled(o) \in ZoneOrNone
           /\ Scheduled(o) # None => Scheduled(o) = pods[o].zone /\ pods[o].state \in {"bound", "ready"}
           /\ lister[o] \in ZoneOrNone /\ cm[o] \in ZoneOrNone /\ hosts[o] \in ZoneOrNone
           /\ claim[o] \in ZoneOrNone /\ cmLister[o] \in ZoneOrNone
BY DEF PodShape, PodState, MapShape, Scheduled, ZoneOrNone

\* A pod that leaves its cycle, or never was in one.
LEMMA SetPodTypes ==
    ASSUME PodShape, NEW o \in Ords, NEW p \in PodState, p.state # "assumed",
           p.state \in {"gone", "pending"} <=> p.zone = None,
           pods' = [pods EXCEPT ![o] = p], UNCHANGED cycle
    PROVE  PodShape'
BY DEF PodShape, PodState

LEMMA UnreserveTypes ==
    ASSUME PodShape, NEW o \in Ords, pods' = Unreserve(o),
           UNCHANGED cycle \/ (cycle' = NoCycle /\ (cycle.pod = o \/ cycle = NoCycle))
    PROVE  /\ PodShape'
           /\ \A p \in Ords : pods'[p] = Pending \/ pods'[p] = pods[p]
<1>1. Pending \in PodState /\ Pending.state = "pending" /\ Pending.zone = None
  BY NoneTypes DEF PodState, ZoneOrNone
<1>2. pods' \in [Ords -> PodState] /\ pods'[o] = Pending /\ \A p \in Ords : pods'[p] = Pending \/ pods'[p] = pods[p]
  BY <1>1 DEF PodShape, Unreserve
<1>3. \A p \in Ords : pods'[p].state \in {"gone", "pending"} <=> pods'[p].zone = None
  BY <1>1, <1>2 DEF PodShape
<1>4. ASSUME NEW p \in Ords, pods'[p].state = "assumed" PROVE cycle' = [pod |-> p, zone |-> pods'[p].zone]
  <2>1. p # o /\ pods'[p] = pods[p] /\ cycle = [pod |-> p, zone |-> pods[p].zone]
    BY <1>1, <1>2, <1>4 DEF PodShape
  <2>2. cycle.pod = p /\ cycle # NoCycle
    BY <2>1, MaxSizeType DEF NoCycle, Ords
  <2> QED BY <2>1, <2>2
<1>5. cycle' = NoCycle \/ \E q \in Ords, z \in Zones : cycle' = [pod |-> q, zone |-> z]
  BY DEF PodShape
<1> QED BY <1>2, <1>3, <1>4, <1>5 DEF PodShape

LEMMA OpTypes ==
    ASSUME PassShape, NEW o \in Ords, NEW z \in ZoneOrNone
    PROVE  /\ LET r == [op EXCEPT !.i = @ + 1, !.map[o] = z] IN
              r \in Passes /\ r.n = op.n /\ r.i = op.i + 1 /\ r.zone = op.zone /\ r.map = [op.map EXCEPT ![o] = z]
           /\ LET r == [op EXCEPT !.i = @ + 1, !.map[o] = z, !.zone = None] IN
              r \in Passes /\ r.n = op.n /\ r.i = op.i + 1 /\ r.zone = None /\ r.map = [op.map EXCEPT ![o] = z]
           /\ LET r == [op EXCEPT !.i = @ + 1] IN
              r \in Passes /\ r.n = op.n /\ r.i = op.i + 1 /\ r.zone = op.zone /\ r.map = op.map
           /\ LET r == [op EXCEPT !.zone = z] IN
              r \in Passes /\ r.n = op.n /\ r.i = op.i /\ r.zone = z /\ r.map = op.map
<1> USE NoneTypes
<1>1. op \in Passes /\ op.i \in Nat
  BY DEF PassShape, Passes
<1>2. ASSUME NEW r \in Passes
      PROVE  LET x == [r EXCEPT !.map[o] = z] IN
             x \in Passes /\ x.n = r.n /\ x.i = r.i /\ x.zone = r.zone /\ x.map = [r.map EXCEPT ![o] = z]
  <2>1. [r.map EXCEPT ![o] = z] \in [Ords -> ZoneOrNone]
    BY DEF Passes
  <2> QED BY <2>1 DEF Passes
<1>3. ASSUME NEW r \in Passes, NEW y \in ZoneOrNone
      PROVE  LET x == [r EXCEPT !.zone = y] IN
             x \in Passes /\ x.n = r.n /\ x.i = r.i /\ x.zone = y /\ x.map = r.map
  BY DEF Passes
<1> DEFINE next == [op EXCEPT !.i = @ + 1]
<1>4. next \in Passes /\ next.n = op.n /\ next.i = op.i + 1 /\ next.zone = op.zone /\ next.map = op.map
  BY <1>1 DEF Passes
<1>5. [op EXCEPT !.i = @ + 1, !.map[o] = z] = [next EXCEPT !.map[o] = z]
  BY <1>1
<1>6. [op EXCEPT !.i = @ + 1, !.map[o] = z, !.zone = None] = [[next EXCEPT !.map[o] = z] EXCEPT !.zone = None]
  BY <1>1
<1> HIDE DEF next
<1>7. LET x == [next EXCEPT !.map[o] = z] IN
      x \in Passes /\ x.n = next.n /\ x.i = next.i /\ x.zone = next.zone /\ x.map = [op.map EXCEPT ![o] = z]
  BY <1>2, <1>4
<1>8. LET x == [[next EXCEPT !.map[o] = z] EXCEPT !.zone = None] IN
      x \in Passes /\ x.n = next.n /\ x.i = next.i /\ x.zone = None /\ x.map = [op.map EXCEPT ![o] = z]
  BY <1>3, <1>7
<1>9. LET x == [op EXCEPT !.zone = z] IN x \in Passes /\ x.n = op.n /\ x.i = op.i /\ x.zone = z /\ x.map = op.map
  BY <1>1, <1>3
<1> QED BY <1>4, <1>5, <1>6, <1>7, <1>8, <1>9 DEF next

LEMMA SpendTypes ==
    ASSUME BudgetShape, NEW what \in Names, Spend(what)
    PROVE  /\ BudgetShape' /\ (what = "edits" => MaxEdits > 0) /\ (what = "rebuilds" => MaxRebuilds > 0)
<1> USE ZoneAssumption
<1>1. CASE what = "edits"
  BY <1>1 DEF BudgetShape, Spend
<1>2. CASE what = "evictions"
  BY <1>2 DEF BudgetShape, Spend
<1>3. CASE what = "rebuilds"
  BY <1>3 DEF BudgetShape, Spend
<1>4. CASE what = "full"
  BY <1>4 DEF BudgetShape, Spend
<1>5. CASE what = "faults"
  BY <1>5 DEF BudgetShape, Spend
<1> QED BY <1>1, <1>2, <1>3, <1>4, <1>5 DEF Names

LEMMA TypeInit == Init => TypeInv
<1> SUFFICES ASSUME Init PROVE TypeInv
  OBVIOUS
<1>1. PodShape
  BY NoneTypes DEF Init, PodShape, PodState
<1>2. MapShape /\ PassShape
  BY NoneTypes DEF Init, MapShape, PassShape
<1>3. ObjectShape /\ BudgetShape
  BY ZoneAssumption DEF Init, ObjectShape, BudgetShape
<1> QED BY <1>1, <1>2, <1>3 DEF TypeInv
LEMMA PassStep == TypeInv /\ Operator => TypeInv'
<1> SUFFICES ASSUME TypeInv, Operator PROVE TypeInv'
  OBVIOUS
<1> USE NoneTypes
<1>0. \A o \in Ords : Scheduled(o) \in ZoneOrNone
  BY PodTypes DEF TypeInv
<1>1. UNCHANGED sched => PodShape'
  BY DEF TypeInv, PodShape, sched
<1>2. op' = NoPass => op'.i = 0 /\ op'.n = 0
  BY DEF NoPass
<1>3. CASE StartPass
  <2>1. op' \in Passes
    BY <1>3, MaxSizeType DEF StartPass, IsReady, TypeInv, MapShape, ObjectShape, Passes
  <2>2. op'.n = replicas /\ op'.i = 0 /\ op'.zone = None /\ pc' \in {"scale", "pods"} /\ queued' = FALSE
    BY <1>3 DEF StartPass
  <2>3. PassShape'
    <3>1. replicas \in Sizes /\ replicas \in Nat /\ pc' # "idle" /\ pc' # "add"
      BY <2>2, MaxSizeType DEF TypeInv, ObjectShape
    <3>2. queued' \in BOOLEAN
      BY <2>2, Zenon
    <3>3. op'.i <= op'.n /\ op'.n \in Sizes /\ op'.zone = None /\ pc' \in {"scale", "pods"}
      BY <2>2, <3>1
    <3> QED BY <2>1, <3>1, <3>2, <3>3 DEF PassShape
  <2> QED BY <1>3, <1>1, <2>3 DEF StartPass, sched, TypeInv, MapShape, ObjectShape, BudgetShape
<1>4. CASE NextPod
  <2>1. op.i < op.n => op.i \in Ords
    BY <1>4, MaxSizeType DEF NextPod, TypeInv, PassShape, Passes
  <2>2. \/ op' = op /\ pc' = "write"
        \/ op.i < op.n /\ pc' = pc /\ op' = [op EXCEPT !.i = @ + 1]
        \/ op.i < op.n /\ pc' = pc /\ \E z \in ZoneOrNone : op' = [op EXCEPT !.i = @ + 1, !.map[op.i] = z]
        \/ /\ op.i < op.n /\ pc' = "add"
           /\ \E z \in ZoneOrNone \ {None} : op' = [op EXCEPT !.zone = z]
    BY <1>4, <1>0, <2>1 DEF NextPod, TypeInv, MapShape
  <2>3. PassShape'
    <3>1. op.n \in Nat /\ op.n \in Sizes /\ op.i \in Nat /\ op.i <= op.n /\ pc = "pods" /\ UNCHANGED queued
      BY <1>4 DEF NextPod, TypeInv, PassShape, Passes
    <3>2. CASE op' = op /\ pc' = "write"
      BY <3>1, <3>2 DEF TypeInv, PassShape, Passes
    <3>3. CASE /\ op.i < op.n /\ pc' = pc
               /\ \/ op' = [op EXCEPT !.i = @ + 1]
                  \/ \E z \in ZoneOrNone : op' = [op EXCEPT !.i = @ + 1, !.map[op.i] = z]
      <4>0. op.i \in Ords /\ op.i < op.n /\ PassShape
        BY <3>3, <2>1 DEF TypeInv
      <4>1. op' \in Passes /\ op'.n = op.n /\ op'.i = op.i + 1 /\ op'.zone = op.zone
        <5>1. CASE op' = [op EXCEPT !.i = @ + 1]
          BY <5>1, <4>0, OpTypes
        <5>2. ASSUME NEW z \in ZoneOrNone, op' = [op EXCEPT !.i = @ + 1, !.map[op.i] = z]
              PROVE  op' \in Passes /\ op'.n = op.n /\ op'.i = op.i + 1 /\ op'.zone = op.zone
          BY <5>2, <4>0, OpTypes
        <5> QED BY <3>3, <5>1, <5>2
      <4>2. op'.i <= op'.n
        BY <3>1, <4>0, <4>1
      <4> QED BY <3>1, <3>3, <4>1, <4>2 DEF TypeInv, PassShape
    <3>4. CASE op.i < op.n /\ pc' = "add" /\ \E z \in ZoneOrNone \ {None} : op' = [op EXCEPT !.zone = z]
      <4>0. op.i \in Ords /\ PassShape
        BY <3>4, <2>1 DEF TypeInv
      <4>1. op' \in Passes /\ op'.n = op.n /\ op'.i = op.i /\ op'.zone # None
        <5>1. PICK z \in ZoneOrNone \ {None} : op' = [op EXCEPT !.zone = z]
          BY <3>4
        <5> QED BY <5>1, <4>0, OpTypes
      <4> QED BY <3>1, <3>4, <4>1 DEF TypeInv, PassShape
    <3> QED BY <3>1, <2>2, <3>2, <3>3, <3>4
  <2> QED BY <1>4, <1>1, <2>3 DEF NextPod, sched, TypeInv, MapShape, ObjectShape, BudgetShape
<1>5. CASE AddHostsIntoZone
  <2>1. op.i \in Ords
    BY <1>5, MaxSizeType DEF AddHostsIntoZone, TypeInv, PassShape, Passes
  <2>2. hosts' \in [Ords -> ZoneOrNone]
    BY <1>5, <2>1 DEF AddHostsIntoZone, Added, TypeInv, PassShape, Passes, MapShape
  <2>3. PassShape'
    <3>1. op.n \in Nat /\ op.n \in Sizes /\ op.i \in Nat /\ op.i < op.n /\ op.zone \in ZoneOrNone
      BY <1>5 DEF AddHostsIntoZone, TypeInv, PassShape, Passes
    <3>2. CASE /\ op' = [op EXCEPT !.i = @ + 1, !.map[op.i] = op.zone, !.zone = None]
               /\ pc' = "pods" /\ UNCHANGED queued
      <4>1. op' \in Passes /\ op'.n = op.n /\ op'.i = op.i + 1
        BY <3>1, <3>2, <2>1, OpTypes DEF TypeInv
      <4>2. op'.i <= op'.n
        BY <3>1, <4>1
      <4> QED BY <3>1, <3>2, <4>1, <4>2 DEF TypeInv, PassShape
    <3>3. CASE Abort
      BY <3>3 DEF Abort, TypeInv, PassShape, Passes
    <3> QED BY <1>5, <3>2, <3>3 DEF AddHostsIntoZone
  <2>5. BudgetShape'
    BY <1>5, SpendTypes DEF AddHostsIntoZone, TypeInv, BudgetShape, Names
  <2> QED BY <1>5, <1>1, <2>2, <2>3, <2>5 DEF AddHostsIntoZone, sched, TypeInv, MapShape, ObjectShape
<1>6. CASE WriteZones
  <2>1. cm' \in [Ords -> ZoneOrNone] /\ PassShape'
    BY <1>6 DEF WriteZones, Abort, TypeInv, PassShape, Passes, MapShape
  <2>2. BudgetShape'
    BY <1>6, SpendTypes DEF WriteZones, TypeInv, BudgetShape, Names
  <2> QED BY <1>6, <1>1, <2>1, <2>2 DEF WriteZones, sched, TypeInv, MapShape, ObjectShape
<1>7. CASE Scale
  <2>1. hosts' \in [Ords -> ZoneOrNone]
    BY <1>7 DEF Scale, DropHosts, TypeInv, MapShape
  <2>2. PassShape' /\ ObjectShape'
    BY <1>7 DEF Scale, TypeInv, PassShape, Passes, ObjectShape, sched
  <2> QED BY <1>7, <1>1, <2>1, <2>2 DEF Scale, sched, TypeInv, MapShape, BudgetShape
<1>8. CASE UpdateZoneMappings
  <2>1. cm' \in [Ords -> ZoneOrNone]
    BY <1>8, <1>0 DEF UpdateZoneMappings, Mappings, TypeInv, MapShape
  <2>2. PassShape'
    BY <1>8 DEF UpdateZoneMappings, Abort, TypeInv, PassShape, Passes
  <2>3. BudgetShape'
    BY <1>8, SpendTypes DEF UpdateZoneMappings, TypeInv, BudgetShape, Names
  <2> QED BY <1>8, <1>1, <2>1, <2>2, <2>3 DEF UpdateZoneMappings, sched, TypeInv, MapShape, ObjectShape
<1>9. CASE EndPass
  <2>1. PassShape' /\ ObjectShape'
    BY <1>9 DEF EndPass, TypeInv, PassShape, Passes, ObjectShape, sched
  <2> QED BY <1>9, <1>1, <2>1 DEF EndPass, sched, TypeInv, MapShape, BudgetShape
<1> QED BY <1>3, <1>4, <1>5, <1>6, <1>7, <1>8, <1>9 DEF Operator


LEMMA SchedulerStep ==
    ASSUME TypeInv, EndCycle \/ ListConfigMap \/ \E o \in Ords : Scheduler(o) PROVE TypeInv'
<1> USE NoneTypes
<1>1. ASSUME UNCHANGED oper, UNCHANGED queued PROVE PassShape'
  BY <1>1 DEF oper, TypeInv, PassShape
<1>2. CASE EndCycle
  <2>1. PodShape'
    <3> DEFINE o == cycle.pod
    <3>1. PICK q \in Ords, z \in Zones : cycle = [pod |-> q, zone |-> z]
      BY <1>2 DEF EndCycle, TypeInv, PodShape
    <3>2. o \in Ords /\ cycle' = NoCycle
      BY <1>2, <3>1 DEF EndCycle
    <3>3. CASE pods[o].state # "assumed"
      <4>1. pods' = pods /\ \A p \in Ords : pods[p].state # "assumed"
        BY <1>2, <3>1, <3>3 DEF EndCycle, TypeInv, PodShape
      <4> QED BY <3>2, <4>1 DEF TypeInv, PodShape
    <3>4. CASE pods' = Unreserve(o)
      BY <3>2, <3>4, UnreserveTypes DEF TypeInv
    <3>5. CASE pods[o].state = "assumed" /\ \E s \in {"waiting", "binding"} : pods' = [pods EXCEPT ![o].state = s]
      <4>1. PICK s \in {"waiting", "binding"} : pods' = [pods EXCEPT ![o].state = s]
        BY <3>5
      <4>2. \A p \in Ords : pods[p].state = "assumed" => p = o
        BY <3>1 DEF TypeInv, PodShape
      <4>3. pods[o] \in PodState /\ pods[o].zone # None
        BY <3>2, <3>5 DEF TypeInv, PodShape
      <4>4. [pods[o] EXCEPT !.state = s] \in PodState /\ [pods[o] EXCEPT !.state = s].state = s
            /\ [pods[o] EXCEPT !.state = s].zone = pods[o].zone
        BY <4>3 DEF PodState
      <4>5. pods' = [pods EXCEPT ![o] = [pods[o] EXCEPT !.state = s]]
        BY <4>1
      <4> QED BY <3>2, <4>2, <4>3, <4>4, <4>5 DEF TypeInv, PodShape
    <3> QED BY <1>2, <3>3, <3>4, <3>5 DEF EndCycle
  <2> QED BY <1>1, <1>2, <2>1 DEF EndCycle, oper, TypeInv, MapShape, ObjectShape, BudgetShape
<1>3. CASE ListConfigMap
  BY <1>1, <1>3 DEF ListConfigMap, oper, TypeInv, PodShape, MapShape, ObjectShape, BudgetShape
<1>4. ASSUME NEW o \in Ords, Schedule(o) PROVE TypeInv'
  <2>1. PICK z \in Zones : /\ cycle' = [pod |-> o, zone |-> z]
                           /\ pods' = [pods EXCEPT ![o] = [state |-> "assumed", zone |-> z]]
    BY <1>4 DEF Schedule
  <2>2. \A p \in Ords : pods[p].state # "assumed"
    BY <1>4, MaxSizeType DEF Schedule, TypeInv, PodShape, NoCycle, Ords
  <2>3. [state |-> "assumed", zone |-> z] \in PodState /\ z # None
    BY DEF PodState, ZoneOrNone
  <2>4. PodShape'
    BY <2>1, <2>2, <2>3 DEF TypeInv, PodShape
  <2> QED BY <1>1, <1>4, <2>4 DEF Schedule, oper, TypeInv, MapShape, ObjectShape, BudgetShape
<1>5. ASSUME NEW o \in Ords, PermitTimeout(o) PROVE TypeInv'
  <2>1. PodShape'
    BY <1>5, UnreserveTypes DEF PermitTimeout, TypeInv
  <2> QED BY <1>1, <1>5, <2>1 DEF PermitTimeout, oper, TypeInv, MapShape, ObjectShape, BudgetShape
<1>6. ASSUME NEW o \in Ords, Bind(o) PROVE TypeInv'
  <2>1. [pods[o] EXCEPT !.state = "bound"] \in PodState /\ pods[o].zone # None
    BY <1>6 DEF Bind, TypeInv, PodShape, PodState
  <2>2. pods' = [pods EXCEPT ![o] = [pods[o] EXCEPT !.state = "bound"]] => PodShape'
    BY <1>6, <2>1, SetPodTypes DEF Bind, TypeInv, PodState
  <2>3. PodShape'
    BY <1>6, <2>2, UnreserveTypes DEF Bind, TypeInv
  <2>4. MapShape'
    BY <1>6, PodTypes DEF Bind, oper, TypeInv, MapShape
  <2>5. BudgetShape'
    BY <1>6, SpendTypes DEF Bind, TypeInv, BudgetShape, Names
  <2> QED BY <1>1, <1>6, <2>3, <2>4, <2>5 DEF Bind, oper, TypeInv, ObjectShape
<1>7. ASSUME NEW o \in Ords, ListPod(o) PROVE TypeInv'
  <2>1. MapShape'
    BY <1>7, PodTypes DEF ListPod, oper, TypeInv, MapShape
  <2> QED BY <1>1, <1>7, <2>1 DEF ListPod, oper, TypeInv, PodShape, ObjectShape, BudgetShape
<1> QED BY <1>2, <1>3, <1>4, <1>5, <1>6, <1>7 DEF Scheduler

LEMMA OtherStep ==
    ASSUME TypeInv,
           Edit \/ MakeRoom \/ (\E z \in Zones : Fill(z))
                \/ \E o \in Ords : Kubernetes(o) \/ Evict(o) \/ Rebuild(o)
    PROVE  TypeInv'
<1> USE NoneTypes
<1>1. CASE Edit
  <2>1. BudgetShape'
    BY <1>1, SpendTypes DEF Edit, TypeInv, Names
  <2> QED BY <1>1, <2>1 DEF Edit, sched, TypeInv, PodShape, MapShape, PassShape, ObjectShape
<1>2. CASE MakeRoom
  BY <1>2 DEF MakeRoom, oper, TypeInv, PodShape, MapShape, PassShape, ObjectShape, BudgetShape
<1>3. ASSUME NEW z \in Zones, Fill(z) PROVE TypeInv'
  <2>1. BudgetShape'
    BY <1>3, SpendTypes DEF Fill, TypeInv, Names
  <2> QED BY <1>3, <2>1 DEF Fill, oper, TypeInv, PodShape, MapShape, PassShape, ObjectShape
<1>4. ASSUME NEW o \in Ords, Kubernetes(o) \/ Evict(o) \/ Rebuild(o) PROVE TypeInv'
  <2>1. \E p \in PodState : /\ SetPod(o, p) /\ p.state # "assumed"
                            /\ p.state \in {"gone", "pending"} <=> p.zone = None
    <3>1. CASE Create(o)
      <4>1. Pending \in PodState
        BY DEF PodState
      <4> QED BY <3>1, <4>1 DEF Create
    <3>2. CASE Ready(o)
      <4>1. [pods[o] EXCEPT !.state = "ready"] \in PodState /\ pods[o].zone # None
        BY <3>2 DEF Ready, TypeInv, PodShape, PodState
      <4> QED BY <3>2, <4>1 DEF Ready, PodState
    <3>3. CASE SetPod(o, Gone)
      <4>1. Gone \in PodState
        BY DEF PodState
      <4> QED BY <3>3, <4>1
    <3> QED BY <1>4, <3>1, <3>2, <3>3 DEF Kubernetes, Remove, Evict, Rebuild
  <2>2. PodShape' /\ UNCHANGED <<oper, lister, cmLister>> /\ queued' = TRUE /\ UNCHANGED full
    BY <2>1, SetPodTypes DEF SetPod, TypeInv
  <2>3. claim' \in {claim, [claim EXCEPT ![o] = None]}
    BY <1>4 DEF Kubernetes, Create, Remove, Ready, Evict, Rebuild
  <2>4. BudgetShape'
    BY <1>4, SpendTypes DEF Kubernetes, Create, Remove, Ready, Evict, Rebuild, TypeInv, Names, BudgetShape
  <2> QED BY <2>2, <2>3, <2>4 DEF oper, TypeInv, MapShape, PassShape, ObjectShape
<1> QED BY <1>1, <1>2, <1>3, <1>4

LEMMA TypeStep == TypeInv /\ [Next]_vars => TypeInv'
<1>1. TypeInv /\ UNCHANGED vars => TypeInv'
  BY DEF vars, TypeInv, PodShape, MapShape, PassShape, ObjectShape, BudgetShape
<1> QED BY <1>1, PassStep, SchedulerStep, OtherStep DEF Next

\* A pod has a zone exactly when the scheduler chose one, only one cycle runs, and every map has
\* zones: whatever the order of the steps of scheduler, operator, Kubernetes and users.
THEOREM TypeCorrect == Safety => []TypeOK
<1>1. Init => TypeInv
  BY TypeInit
<1>2. TypeInv /\ [Next]_vars => TypeInv'
  BY TypeStep
<1>3. TypeInv => TypeOK
  BY TypeOKHolds
<1> QED BY <1>1, <1>2, <1>3, PTL DEF Safety

-----------------------------------------------------------------------------
(***************************************************************************)
(* Every trace of the zone of a pod of storaged names one zone, as long as *)
(* users do not change the replicas, or wait for a scaling to end and no   *)
(* pod loses its claim to failover meanwhile.  (A rebuild of a pod that is *)
(* about to leave may choose another zone.)                                *)
(***************************************************************************)
Kept == Storaged /\ (MaxEdits = 0 \/ (Patient /\ MaxRebuilds = 0))

\* The zones that anything but the pod itself names for it
Known(o) ==
    {claim[o], cm[o], cmLister[o], lister[o], hosts[o], op.map[o], Scheduled(o),
     IF op.i = o THEN op.zone ELSE None} \ {None}
Here(o) == o < size \/ pods[o].state # "gone"
Placed(o) == pods[o].state \in {"binding", "bound", "ready"}
\* What the plugin goes by for a pod whose zone is known
Anchored(o) == claim[o] # None \/ (MaxEdits = 0 /\ cmLister[o] # None)

\* The traces of a pod agree with each other, with its place and with what the plugin goes by;
\* a pod with a node does not share the zone with those before it in the group.
Traced(o) ==
    /\ \A x, y \in Known(o) : x = y
    /\ pods[o].zone # None => Known(o) \subseteq {pods[o].zone}
    /\ Scheduled(o) # None => claim[o] # None
    /\ Here(o) /\ Known(o) # {} => Anchored(o)
Apart(o) ==
    \A p \in Group(o) : p < o /\ Placed(o) /\ Here(p) => Known(p) # {} /\ pods[o].zone \notin Known(p)

\* A pass ends with the replicas it began with
PassInv == pc # "idle" => op.n = replicas
\* Nothing names a zone for the pods above the size but their claims, before they are created
Vacant(o) == Known(o) \subseteq {claim[o]} /\ pods[o] = Gone
Clean ==
    /\ \A o \in Ords : o >= size => hosts[o] = None
    /\ pc = "add" => op.i < size
    /\ pc \in {"mappings", "end"} => \A o \in Ords : o >= op.n => hosts[o] = None
    /\ replicas > size => \A o \in Ords : o >= size => Vacant(o)
\* Without changes of the replicas a recorded zone stays recorded
Fixed ==
    MaxEdits = 0 =>
        /\ replicas = size
        /\ \A o \in Ords : o >= size => pods[o] = Gone /\ cm[o] = None /\ op.map[o] = None
        /\ \A o \in Ords : cmLister[o] # None => cm[o] # None
        /\ pc \in {"pods", "add", "write"} => \A o \in Ords : cm[o] # None => op.map[o] # None
ZoneInv ==
    TypeInv /\ PassInv /\ Clean /\ Fixed /\ \A o \in Ords : Traced(o) /\ Apart(o)

LEMMA ZoneInit == Init => ZoneInv
<1> SUFFICES ASSUME Init PROVE ZoneInv
  OBVIOUS
<1>1. TypeInv
  BY TypeInit
<1>2. ASSUME NEW o \in Ords PROVE Known(o) = {} /\ pods[o] = Gone
  BY <1>2 DEF Init, Known, Scheduled, NoPass, Gone
<1>3. \A o \in Ords : Traced(o) /\ Apart(o)
  BY <1>2 DEF Traced, Apart, Group, Scheduled, Placed, Gone
<1>4. PassInv /\ Clean
  BY <1>2 DEF Init, PassInv, Clean, Vacant
<1>5. Fixed
  BY <1>2 DEF Init, Fixed, NoPass
<1> QED BY <1>1, <1>3, <1>4, <1>5 DEF ZoneInv

\* A step that names no new zone for a pod keeps what is said of it.
Keeps(o) ==
    /\ Known(o)' \subseteq Known(o)
    /\ pods'[o].zone \in {pods[o].zone, None}
    /\ Placed(o)' => Placed(o) /\ pods'[o].zone = pods[o].zone
    /\ Here(o)' => Here(o)
    /\ Scheduled(o)' # None => Scheduled(o) # None /\ claim'[o] = claim[o]
    /\ Here(o)' /\ Known(o) # {} => Anchored(o)'

LEMMA AnchoredIsKnown ==
    ASSUME NEW o \in Ords PROVE Anchored(o) => Known(o) # {}
BY DEF Anchored, Known

LEMMA Frame ==
    ASSUME \A o \in Ords : Traced(o) /\ Apart(o), \A o \in Ords : Keeps(o)
    PROVE  \A o \in Ords : Traced(o)' /\ Apart(o)'
<1>1. ASSUME NEW o \in Ords PROVE Traced(o)'
  BY DEF Traced, Keeps
<1>2. ASSUME NEW o \in Ords, NEW p \in Group(o), p < o, Placed(o)', Here(p)'
      PROVE  Known(p)' # {} /\ pods'[o].zone \notin Known(p)'
  <2>1. p \in Ords
    BY DEF Group
  <2>2. Known(p) # {} /\ pods[o].zone \notin Known(p) /\ pods'[o].zone = pods[o].zone
    BY <1>2, <2>1 DEF Keeps, Apart
  <2>3. Anchored(p)' => Known(p)' # {}
    BY DEF Anchored, Known
  <2> QED BY <1>2, <2>1, <2>2, <2>3 DEF Keeps
<1> QED BY <1>1, <1>2 DEF Apart, Group

\* It also keeps the pods above the size vacant.
LEMMA VacantFrame ==
    ASSUME UNCHANGED <<replicas, size>>,
           \A o \in Ords : o >= size /\ pods[o] = Gone
               => pods'[o] = Gone /\ claim'[o] = claim[o] /\ Known(o)' \subseteq Known(o)
    PROVE  (replicas > size => \A o \in Ords : o >= size => Vacant(o))
           => (replicas > size => \A o \in Ords : o >= size => Vacant(o))'
BY DEF Vacant

\* A step of a pass leaves pods, claims and what the plugin sees alone.
LEMMA PassKeeps ==
    ASSUME ZoneInv, UNCHANGED sched, UNCHANGED <<replicas, size>>,
           \A o \in Ords : Known(o)' \subseteq Known(o)
    PROVE  /\ \A o \in Ords : Traced(o)' /\ Apart(o)'
           /\ (replicas > size => \A o \in Ords : o >= size => Vacant(o))'
<1>1. ASSUME NEW o \in Ords PROVE Keeps(o)
  BY DEF ZoneInv, Traced, Keeps, Placed, Here, Scheduled, Anchored, sched
<1>2. (replicas > size => \A o \in Ords : o >= size => Vacant(o))'
  BY VacantFrame DEF ZoneInv, Clean, sched
<1> QED BY <1>1, <1>2, Frame DEF ZoneInv

LEMMA StartPassZones == ASSUME Kept, ZoneInv, StartPass PROVE ZoneInv'
<1>1. TypeInv'
  BY PassStep DEF ZoneInv, Operator
<1>2. UNCHANGED sched /\ UNCHANGED <<replicas, size, cm, hosts>> /\ op'.map = cm /\ op'.zone = None /\ op'.n = replicas
      /\ pc' \in {"scale", "pods"}
  BY DEF StartPass, Kept
<1>3. ASSUME NEW o \in Ords PROVE Known(o)' \subseteq Known(o)
  BY <1>2 DEF Known, Scheduled, sched
<1>4. \A o \in Ords : Traced(o)' /\ Apart(o)'
  BY <1>2, <1>3, PassKeeps
<1>5. Clean'
  BY <1>2, <1>3, PassKeeps DEF ZoneInv, Clean
<1>6. Fixed'
  BY <1>2 DEF ZoneInv, Fixed, sched
<1>7. PassInv'
  BY <1>2 DEF PassInv
<1> QED BY <1>1, <1>4, <1>5, <1>6, <1>7 DEF ZoneInv

LEMMA NextPodZones == ASSUME Kept, ZoneInv, NextPod PROVE ZoneInv'
<1>1. TypeInv'
  BY PassStep DEF ZoneInv, Operator
<1>2. UNCHANGED sched /\ UNCHANGED <<replicas, size, cm, hosts>> /\ pc = "pods" /\ op.zone = None
  BY DEF NextPod, ZoneInv, TypeInv, PassShape
<1>3. op.i < op.n => op.i \in Ords
  BY MaxSizeType DEF NextPod, ZoneInv, TypeInv, PassShape, Passes
<1>4. \A o \in Ords : Scheduled(o) \in ZoneOrNone /\ cm[o] \in ZoneOrNone
  BY PodTypes DEF ZoneInv, TypeInv
<1>5. /\ op'.n = op.n
      /\ \/ pc' = "write" /\ op' = op
         \/ pc' = "pods" /\ op'.zone = None /\ op'.map = op.map
         \/ /\ pc' = "pods" /\ op'.zone = None /\ op.i \in Ords /\ cm[op.i] # None
            /\ op'.map = [op.map EXCEPT ![op.i] = cm[op.i]]
         \/ /\ pc' = "add" /\ op'.i = op.i /\ op.i \in Ords /\ op.i < op.n /\ op'.map = op.map
            /\ op'.zone = Scheduled(op.i) /\ Scheduled(op.i) # None
  <2>1. CASE op' = op /\ pc' = "write"
    BY <2>1
  <2>2. CASE op' = [op EXCEPT !.i = @ + 1] /\ pc' = pc /\ op.i < op.n
    BY <2>2, <1>2, <1>3, <1>4, OpTypes DEF ZoneInv, TypeInv
  <2>3. CASE op.i < op.n /\ cm[op.i] # None /\ op' = [op EXCEPT !.i = @ + 1, !.map[op.i] = cm[op.i]] /\ pc' = pc
    BY <2>3, <1>2, <1>3, <1>4, OpTypes DEF ZoneInv, TypeInv
  <2>4. CASE op.i < op.n /\ Scheduled(op.i) # None /\ op' = [op EXCEPT !.zone = Scheduled(op.i)] /\ pc' = "add"
    BY <2>4, <1>2, <1>3, <1>4, OpTypes DEF ZoneInv, TypeInv
  <2> QED BY <2>1, <2>2, <2>3, <2>4 DEF NextPod, Kept
<1>6. ASSUME NEW o \in Ords PROVE Known(o)' \subseteq Known(o)
  BY <1>2, <1>5 DEF Known, Scheduled, sched, ZoneInv, TypeInv, PassShape, Passes
<1>7. \A o \in Ords : Traced(o)' /\ Apart(o)'
  BY <1>2, <1>6, PassKeeps
<1>8. pc' = "add" => op.i < size
  <2>0. size \in Nat /\ replicas \in Nat /\ op.i \in Nat /\ op.n = replicas /\ Ords \subseteq Nat
    BY <1>2, MaxSizeType DEF ZoneInv, TypeInv, ObjectShape, PassShape, Passes, PassInv
  <2>1. CASE replicas > size
    <3>1. \A o \in Ords : o >= size => Scheduled(o) = None
      BY <2>1 DEF ZoneInv, Clean, Vacant, Scheduled, Gone
    <3>2. pc' = "add" => op.i \in Ords /\ ~(op.i >= size)
      BY <1>5, <3>1
    <3> QED BY <2>0, <3>2
  <2>2. CASE ~(replicas > size)
    <3>1. pc' = "add" => op.i < op.n
      BY <1>5
    <3> QED BY <2>0, <2>2, <3>1
  <2> QED BY <2>1, <2>2
<1>9. Clean'
  BY <1>2, <1>5, <1>6, <1>8, PassKeeps DEF ZoneInv, Clean
<1>10. Fixed'
  BY <1>2, <1>5 DEF ZoneInv, Fixed, sched, TypeInv, PassShape, Passes
<1>11. PassInv'
  BY <1>2, <1>5 DEF ZoneInv, PassInv
<1> QED BY <1>1, <1>7, <1>9, <1>10, <1>11 DEF ZoneInv

LEMMA AbortZones ==
    ASSUME ZoneInv, TypeInv', Abort, UNCHANGED sched, UNCHANGED <<replicas, size, cm>>,
           hosts' \in [Ords -> ZoneOrNone],
           \A o \in Ords : hosts'[o] \in {None, hosts[o]} \/ (o < size /\ hosts'[o] \in Known(o))
    PROVE  ZoneInv'
<1>1. op' = NoPass /\ pc' = "idle" /\ \A o \in Ords : op'.map[o] = None /\ op'.zone = None
  BY NoneTypes DEF Abort
<1>2. ASSUME NEW o \in Ords PROVE Known(o)' \subseteq Known(o)
  BY <1>1 DEF Known, Scheduled, sched
<1>3. \A o \in Ords : Traced(o)' /\ Apart(o)'
  BY <1>2, PassKeeps
<1>4. Clean'
  BY <1>1, <1>2, PassKeeps, MaxSizeType DEF ZoneInv, TypeInv, ObjectShape, Clean
<1>5. Fixed'
  BY <1>1 DEF ZoneInv, Fixed, sched
<1> QED BY <1>1, <1>3, <1>4, <1>5 DEF ZoneInv, PassInv

LEMMA AddHostsZones == ASSUME Kept, ZoneInv, AddHostsIntoZone PROVE ZoneInv'
<1>1. TypeInv'
  BY PassStep DEF ZoneInv, Operator
<1>2. UNCHANGED sched /\ UNCHANGED <<replicas, size, cm>> /\ pc = "add" /\ op.i < size
  BY DEF AddHostsIntoZone, ZoneInv, Clean
<1>3. op.i \in Ords /\ op.zone # None /\ op.zone \in ZoneOrNone
  BY <1>2, MaxSizeType DEF ZoneInv, TypeInv, PassShape, Passes, ObjectShape
<1>4. \A o \in Ords : Added[o] = hosts[o] \/ (o = op.i /\ Added[o] = op.zone)
  BY <1>3 DEF Added, ZoneInv, TypeInv, MapShape
<1>5. op.zone \in Known(op.i)
  BY <1>3 DEF Known
<1>6. \A o \in Ords : Added[o] = hosts[o] \/ (o < size /\ Added[o] \in Known(o))
  BY <1>2, <1>4, <1>5
<1>7. CASE Abort /\ hosts' \in {hosts, Added}
  BY <1>1, <1>2, <1>6, <1>7, AbortZones DEF TypeInv, MapShape
<1>8. CASE /\ hosts' = Added /\ pc' = "pods"
           /\ op' = [op EXCEPT !.i = @ + 1, !.map[op.i] = op.zone, !.zone = None]
  <2>1. op'.n = op.n /\ op'.zone = None /\ op'.map = [op.map EXCEPT ![op.i] = op.zone]
    BY <1>3, <1>8, OpTypes DEF ZoneInv, TypeInv
  <2>2. ASSUME NEW o \in Ords PROVE op'.map[o] = op.map[o] \/ (o = op.i /\ op'.map[o] = op.zone)
    BY <2>1, <1>3 DEF ZoneInv, TypeInv, PassShape, Passes
  <2>3. ASSUME NEW o \in Ords PROVE Known(o)' \subseteq Known(o)
    BY <1>2, <1>4, <1>5, <1>8, <2>1, <2>2 DEF Known, Scheduled, sched
  <2>4. \A o \in Ords : Traced(o)' /\ Apart(o)'
    BY <1>2, <2>3, PassKeeps
  <2>5. Clean'
    BY <1>2, <1>6, <1>8, <2>3, PassKeeps, MaxSizeType DEF ZoneInv, TypeInv, ObjectShape, Clean
  <2>6. Fixed'
    BY <1>2, <1>3, <1>8, <2>2, MaxSizeType DEF ZoneInv, Fixed, sched, TypeInv, ObjectShape
  <2>7. PassInv'
    BY <1>2, <1>8, <2>1 DEF ZoneInv, PassInv
  <2> QED BY <1>1, <2>4, <2>5, <2>6, <2>7 DEF ZoneInv
<1> QED BY <1>7, <1>8 DEF AddHostsIntoZone

LEMMA WriteZonesZones == ASSUME Kept, ZoneInv, WriteZones PROVE ZoneInv'
<1>1. TypeInv'
  BY PassStep DEF ZoneInv, Operator
<1>2. UNCHANGED sched /\ UNCHANGED <<replicas, size, hosts>> /\ pc = "write"
  BY DEF WriteZones
<1>3. CASE Abort /\ UNCHANGED cm
  BY <1>1, <1>2, <1>3, AbortZones DEF ZoneInv, TypeInv, MapShape
<1>4. CASE cm' = op.map /\ pc' = "scale" /\ UNCHANGED op
  <2>1. ASSUME NEW o \in Ords PROVE Known(o)' \subseteq Known(o)
    BY <1>2, <1>4 DEF Known, Scheduled, sched
  <2>2. \A o \in Ords : Traced(o)' /\ Apart(o)'
    BY <1>2, <2>1, PassKeeps
  <2>3. Clean'
    BY <1>2, <1>4, <2>1, PassKeeps DEF ZoneInv, Clean
  <2>4. Fixed' /\ PassInv'
    BY <1>2, <1>4 DEF ZoneInv, Fixed, PassInv, sched
  <2> QED BY <1>1, <2>2, <2>3, <2>4 DEF ZoneInv
<1> QED BY <1>3, <1>4 DEF WriteZones

LEMMA ScaleZones == ASSUME Kept, ZoneInv, Scale PROVE ZoneInv'
<1>1. TypeInv'
  BY PassStep DEF ZoneInv, Operator
<1>2. UNCHANGED sched /\ UNCHANGED <<replicas, size, cm, op>> /\ pc = "scale" /\ pc' \in {"mappings", "end"}
  BY DEF Scale
<1>3. \A o \in Ords : hosts'[o] = IF o >= op.n THEN None ELSE hosts[o]
  BY DEF Scale, DropHosts
<1>4. ASSUME NEW o \in Ords PROVE Known(o)' \subseteq Known(o)
  BY <1>2, <1>3 DEF Known, Scheduled, sched
<1>5. \A o \in Ords : Traced(o)' /\ Apart(o)'
  BY <1>2, <1>4, PassKeeps
<1>6. Clean'
  BY <1>2, <1>3, <1>4, PassKeeps DEF ZoneInv, Clean
<1>7. Fixed' /\ PassInv'
  BY <1>2 DEF ZoneInv, Fixed, PassInv, sched
<1> QED BY <1>1, <1>5, <1>6, <1>7 DEF ZoneInv

LEMMA MappingsZones == ASSUME Kept, ZoneInv, UpdateZoneMappings PROVE ZoneInv'
<1>1. TypeInv'
  BY PassStep DEF ZoneInv, Operator
<1>2. UNCHANGED sched /\ UNCHANGED <<replicas, size, hosts>> /\ pc = "mappings"
  BY DEF UpdateZoneMappings
<1>3. CASE Abort /\ UNCHANGED cm
  BY <1>1, <1>2, <1>3, AbortZones DEF ZoneInv, TypeInv, MapShape
<1>4. CASE cm' = Mappings /\ pc' = "end" /\ UNCHANGED op
  <2>1. \A o \in Ords : cm'[o] = IF o >= op.n THEN None ELSE IF cm[o] # None THEN cm[o] ELSE Scheduled(o)
    BY <1>4 DEF Mappings
  <2>2. ASSUME NEW o \in Ords PROVE Known(o)' \subseteq Known(o)
    BY <1>2, <1>4, <2>1 DEF Known, Scheduled, sched
  <2>3. \A o \in Ords : Traced(o)' /\ Apart(o)'
    BY <1>2, <2>2, PassKeeps
  <2>4. Clean'
    BY <1>2, <1>4, <2>2, PassKeeps DEF ZoneInv, Clean
  <2>5. PassInv' /\ op.n = replicas
    BY <1>2, <1>4 DEF ZoneInv, PassInv
  <2>6. Fixed'
    BY <1>2, <1>4, <2>1, <2>5 DEF ZoneInv, Fixed, sched
  <2> QED BY <1>1, <2>3, <2>4, <2>5, <2>6 DEF ZoneInv
<1> QED BY <1>3, <1>4 DEF UpdateZoneMappings

LEMMA EndPassZones == ASSUME Kept, ZoneInv, EndPass PROVE ZoneInv'
<1>1. TypeInv'
  BY PassStep DEF ZoneInv, Operator
<1>2. /\ UNCHANGED sched /\ UNCHANGED <<replicas, cm, hosts>> /\ pc = "end" /\ pc' = "idle" /\ size' = replicas
      /\ \A o \in Ords : op'.map[o] = None /\ op'.zone = None
  BY NoneTypes DEF EndPass, ZoneInv, PassInv
<1>3. ASSUME NEW o \in Ords PROVE Known(o)' \subseteq Known(o)
  BY <1>2 DEF Known, Scheduled, sched
<1>4. size \in Nat /\ replicas \in Nat /\ Ords \subseteq Nat
  BY MaxSizeType DEF ZoneInv, TypeInv, ObjectShape
<1>5. ASSUME replicas <= size PROVE \A o \in Ords : Traced(o)' /\ Apart(o)'
  <2>1. ASSUME NEW o \in Ords PROVE Keeps(o)
    BY <1>2, <1>3, <1>4, <1>5 DEF ZoneInv, Traced, Keeps, Placed, Here, Scheduled, Anchored, sched
  <2> QED BY <2>1, Frame DEF ZoneInv
<1>6. ASSUME replicas > size PROVE \A o \in Ords : Traced(o)' /\ Apart(o)'
  <2>1. \A o \in Ords : o >= size => Known(o) \subseteq {claim[o]} /\ pods[o] = Gone
    BY <1>6 DEF ZoneInv, Clean, Vacant
  <2>2. ASSUME NEW o \in Ords PROVE Traced(o)'
    <3>1. Traced(o) /\ Known(o)' \subseteq Known(o) /\ Scheduled(o)' = Scheduled(o) /\ (Anchored(o)' <=> Anchored(o))
      BY <1>2, <1>3 DEF ZoneInv, Scheduled, Anchored, sched
    <3>2. CASE Here(o)
      BY <1>2, <3>1, <3>2 DEF Traced, sched
    <3>3. CASE ~Here(o)
      <4>1. Known(o) \subseteq {claim[o]} \ {None}
        BY <1>4, <2>1, <3>3 DEF Here, Known
      <4> QED BY <1>2, <3>1, <4>1 DEF Traced, Anchored, sched
    <3> QED BY <3>2, <3>3
  <2>3. ASSUME NEW o \in Ords, NEW p \in Group(o), p < o, Placed(o)', Here(p)'
        PROVE  Known(p)' # {} /\ pods'[o].zone \notin Known(p)'
    <3>1. p \in Ords /\ o < size /\ Placed(o) /\ Here(p)
      BY <1>2, <1>4, <2>1, <2>3 DEF Group, Placed, Here, Gone, sched
    <3>2. Known(p) # {} /\ pods[o].zone \notin Known(p) /\ Anchored(p)
      BY <2>3, <3>1 DEF ZoneInv, Apart, Traced
    <3>3. Known(p)' # {}
      BY <1>2, <3>1, <3>2, AnchoredIsKnown DEF Anchored, Known, sched
    <3> QED BY <1>2, <1>3, <3>1, <3>2, <3>3 DEF sched
  <2> QED BY <2>2, <2>3 DEF Apart, Group
<1>7. Clean'
  <2>1. \A o \in Ords : o >= replicas => hosts[o] = None
    BY <1>2 DEF ZoneInv, PassInv, Clean
  <2>2. ~(replicas' > size') /\ pc' \notin {"add", "mappings", "end"} /\ hosts' = hosts
    BY <1>2, <1>4
  <2> QED BY <1>2, <2>1, <2>2 DEF Clean
<1>8. Fixed' /\ PassInv'
  BY <1>2 DEF ZoneInv, Fixed, PassInv, sched
<1> QED BY <1>1, <1>4, <1>5, <1>6, <1>7, <1>8 DEF ZoneInv

\* Steps that do not touch the pass: the traces of the pods that change are what matters.
LEMMA OtherFrame ==
    ASSUME ZoneInv, TypeInv', UNCHANGED oper,
           \A o \in Ords : o >= size /\ pods[o] = Gone
               => pods'[o] = Gone /\ claim'[o] = claim[o] /\ Known(o)' \subseteq Known(o),
           \A o \in Ords : Traced(o)' /\ Apart(o)',
           UNCHANGED cmLister \/ cmLister' = cm
    PROVE  ZoneInv'
<1>1. (replicas > size => \A o \in Ords : o >= size => Vacant(o))'
  BY VacantFrame DEF oper, ZoneInv, Clean
<1>2. Clean'
  BY <1>1 DEF ZoneInv, Clean, oper
<1>3. Fixed'
  BY DEF ZoneInv, Fixed, oper
<1> QED BY <1>2, <1>3 DEF ZoneInv, PassInv, oper

LEMMA KeepsFrame ==
    ASSUME ZoneInv, TypeInv', UNCHANGED oper, \A o \in Ords : Keeps(o),
           \A o \in Ords : o >= size /\ pods[o] = Gone => pods'[o] = Gone /\ claim'[o] = claim[o],
           UNCHANGED cmLister \/ cmLister' = cm
    PROVE  ZoneInv'
<1>1. \A o \in Ords : Traced(o)' /\ Apart(o)'
  BY Frame DEF ZoneInv
<1> QED BY <1>1, OtherFrame DEF Keeps

\* Pods that go back to the queue name no new zone.
LEMMA UnreserveZones ==
    ASSUME ZoneInv, TypeInv', NEW o \in Ords, pods' = Unreserve(o), pods[o] # Gone,
           UNCHANGED <<oper, claim, lister, cmLister>>
    PROVE  ZoneInv'
<1>1. \A p \in Ords : \/ pods'[p] = pods[p]
                      \/ pods'[p] = Pending /\ pods[p].state # "gone"
  BY PodTypes, UnreserveTypes DEF ZoneInv, TypeInv, PodShape, PodState, Unreserve, Pending, Gone
<1>2. ASSUME NEW p \in Ords PROVE Keeps(p)
  BY <1>1 DEF ZoneInv, Traced, Keeps, Known, Scheduled, Placed, Here, Anchored, Pending, oper
<1> QED BY <1>1, <1>2, KeepsFrame DEF Gone

LEMMA EndCycleZones == ASSUME Kept, ZoneInv, EndCycle PROVE ZoneInv'
<1>1. TypeInv' /\ UNCHANGED <<oper, claim, lister, cmLister>>
  BY SchedulerStep DEF ZoneInv, EndCycle
<1> DEFINE o == cycle.pod
<1>2. o \in Ords
  BY DEF EndCycle, ZoneInv, TypeInv, PodShape
<1>3. CASE pods' = pods
  <2>1. ASSUME NEW p \in Ords PROVE Keeps(p)
    BY <1>1, <1>3 DEF ZoneInv, Traced, Keeps, Known, Scheduled, Placed, Here, Anchored, oper
  <2> QED BY <1>1, <1>3, <2>1, KeepsFrame
<1>4. CASE pods[o].state = "assumed" /\ pods' = Unreserve(o)
  BY <1>1, <1>2, <1>4, UnreserveZones DEF Gone
<1>5. CASE pods[o].state = "assumed" /\ pods' = [pods EXCEPT ![o].state = "waiting"]
  <2>0. /\ \A p \in Ords \ {o} : pods'[p] = pods[p]
        /\ pods'[o].state = "waiting" /\ pods'[o].zone = pods[o].zone
    BY <1>2, <1>5 DEF ZoneInv, TypeInv, PodShape, PodState
  <2>1. ASSUME NEW p \in Ords PROVE Keeps(p)
    BY <1>1, <1>5, <2>0 DEF ZoneInv, Traced, Keeps, Known, Scheduled, Placed, Here, Anchored, oper
  <2> QED BY <1>1, <1>5, <2>0, <2>1, KeepsFrame DEF Gone
<1>6. CASE /\ pods[o].state = "assumed" /\ pods' = [pods EXCEPT ![o].state = "binding"]
           /\ Permit(o, cycle.zone) = "Success"
  <2>1. /\ \A p \in Ords \ {o} : pods'[p] = pods[p]
        /\ pods'[o].state = "binding" /\ pods'[o].zone = pods[o].zone /\ cycle.zone = pods[o].zone
    BY <1>2, <1>6 DEF ZoneInv, TypeInv, PodShape, PodState
  <2>2. ASSUME NEW p \in Ords
        PROVE  Known(p)' = Known(p) /\ (Here(p)' <=> Here(p)) /\ (Anchored(p)' <=> Anchored(p))
               /\ Scheduled(p)' = Scheduled(p) /\ pods'[p].zone = pods[p].zone
    BY <1>1, <1>6, <2>1 DEF Known, Scheduled, Here, Anchored, oper
  <2>3. \A p \in Ords : Traced(p)'
    BY <1>1, <2>2 DEF ZoneInv, Traced
  <2>4. ASSUME NEW p \in Group(o), p < o, Here(p) PROVE Known(p) # {} /\ pods[o].zone \notin Known(p)
    <3>1. p \in Ords /\ Remainder(o) # 0
      BY <1>2, <2>4, GroupIsSymmetric DEF Group
    <3>2. lister[p] # None /\ lister[p] # pods[o].zone
      BY <1>6, <2>1, <2>4, <3>1 DEF Permit, ZoneOf
    <3>3. lister[p] \in Known(p)
      BY <3>2 DEF Known
    <3> QED BY <3>1, <3>2, <3>3 DEF ZoneInv, Traced
  <2>5. ASSUME NEW q \in Ords, NEW p \in Group(q), p < q, Placed(q)', Here(p)'
        PROVE  Known(p)' # {} /\ pods'[q].zone \notin Known(p)'
    <3>1. p \in Ords
      BY DEF Group
    <3>2. CASE q = o
      BY <2>2, <2>4, <2>5, <3>1, <3>2
    <3>3. CASE q # o
      BY <2>1, <2>2, <2>5, <3>1, <3>3 DEF ZoneInv, Apart, Placed
    <3> QED BY <3>2, <3>3
  <2>6. \A p \in Ords : Traced(p)' /\ Apart(p)'
    BY <2>3, <2>5 DEF Apart, Group
  <2>7. \A p \in Ords : pods[p] = Gone => pods'[p] = Gone
    BY <1>6, <2>1 DEF Gone
  <2> QED BY <1>1, <2>2, <2>6, <2>7, OtherFrame
<1>7. Permit(o, cycle.zone) \in {"Success", "Wait", "Unschedulable"}
  BY DEF Permit
<1> QED BY <1>3, <1>4, <1>5, <1>6, <1>7 DEF EndCycle

LEMMA ScheduleZones == ASSUME Kept, ZoneInv, NEW o \in Ords, Schedule(o) PROVE ZoneInv'
<1>1. TypeInv' /\ UNCHANGED <<oper, claim, lister, cmLister>>
  BY SchedulerStep DEF ZoneInv, Schedule, Scheduler
<1>2. PICK z \in Zones : /\ Filter(o, z) /\ claim[o] \in {None, z}
                         /\ pods' = [pods EXCEPT ![o] = [state |-> "assumed", zone |-> z]]
  BY DEF Schedule
<1>3. pods[o].state = "pending" /\ pods[o].zone = None
  BY DEF Schedule, ZoneInv, TypeInv, PodShape
<1>4. /\ \A p \in Ords \ {o} : pods'[p] = pods[p]
      /\ pods'[o].state = "assumed" /\ pods'[o].zone = z /\ z # None
  BY <1>2, NoneTypes DEF ZoneInv, TypeInv, PodShape
<1>5. ASSUME NEW p \in Ords
      PROVE  Known(p)' = Known(p) /\ (Here(p)' <=> Here(p)) /\ (Anchored(p)' <=> Anchored(p))
             /\ Scheduled(p)' = Scheduled(p)
  BY <1>1, <1>3, <1>4 DEF Known, Scheduled, Here, Anchored, oper
<1>6. Known(o) \subseteq {z}
  <2>1. Known(o) # {} => claim[o] # None \/ cmLister[o] # None
    BY <1>3 DEF ZoneInv, Traced, Here, Anchored
  <2>2. claim[o] # None => claim[o] = z /\ claim[o] \in Known(o)
    BY <1>2 DEF Known
  <2>3. cmLister[o] # None => cmLister[o] = z /\ cmLister[o] \in Known(o)
    BY <1>2 DEF Filter, Known
  <2> QED BY <2>1, <2>2, <2>3 DEF ZoneInv, Traced
<1>7. ASSUME NEW p \in Ords PROVE Traced(p)'
  <2>1. CASE p = o
    BY <1>1, <1>4, <1>5, <1>6, <2>1 DEF ZoneInv, Traced
  <2>2. CASE p # o
    BY <1>1, <1>4, <1>5, <2>2 DEF ZoneInv, Traced
  <2> QED BY <2>1, <2>2
<1>8. ASSUME NEW q \in Ords, NEW p \in Group(q), p < q, Placed(q)', Here(p)'
      PROVE  Known(p)' # {} /\ pods'[q].zone \notin Known(p)'
  <2>1. p \in Ords /\ q # o
    BY <1>4, <1>8 DEF Group, Placed
  <2> QED BY <1>4, <1>5, <1>8, <2>1 DEF ZoneInv, Apart, Placed
<1>9. \A p \in Ords : Traced(p)' /\ Apart(p)'
  BY <1>7, <1>8 DEF Apart, Group
<1>10. \A p \in Ords : pods[p] = Gone => pods'[p] = Gone
  BY <1>3, <1>4 DEF Gone
<1> QED BY <1>1, <1>5, <1>9, <1>10, OtherFrame

LEMMA BindZones == ASSUME Kept, ZoneInv, NEW o \in Ords, Bind(o) PROVE ZoneInv'
<1>1. TypeInv' /\ UNCHANGED <<oper, lister, cmLister>> /\ pods[o].state = "binding"
  BY SchedulerStep DEF ZoneInv, Bind, Scheduler
<1>2. CASE pods' = Unreserve(o) /\ UNCHANGED claim
  BY <1>1, <1>2, UnreserveZones DEF Gone
<1>3. CASE pods' = [pods EXCEPT ![o].state = "bound"] /\ claim' = [claim EXCEPT ![o] = pods[o].zone]
  <2> DEFINE z == pods[o].zone
  <2>1. /\ \A p \in Ords \ {o} : pods'[p] = pods[p] /\ claim'[p] = claim[p]
        /\ pods'[o].state = "bound" /\ pods'[o].zone = z /\ claim'[o] = z /\ z # None
    BY <1>1, <1>3 DEF ZoneInv, TypeInv, PodShape, PodState, MapShape
  <2>2. Known(o) \subseteq {z}
    BY <2>1 DEF ZoneInv, Traced
  <2>3. Known(o)' = {z} /\ Here(o)' /\ Here(o)
    BY <1>1, <2>1, <2>2 DEF Known, Scheduled, Here, oper
  <2>4. ASSUME NEW p \in Ords, p # o
        PROVE  Known(p)' = Known(p) /\ (Here(p)' <=> Here(p)) /\ (Anchored(p)' <=> Anchored(p))
               /\ Scheduled(p)' = Scheduled(p)
    BY <1>1, <2>1, <2>4 DEF Known, Scheduled, Here, Anchored, oper
  <2>5. ASSUME NEW p \in Ords PROVE Traced(p)'
    <3>1. CASE p = o
      BY <1>1, <2>1, <2>3, <3>1 DEF Traced, Anchored
    <3>2. CASE p # o
      BY <1>1, <2>1, <2>4, <3>2 DEF ZoneInv, Traced
    <3> QED BY <3>1, <3>2
  <2>6. ASSUME NEW q \in Ords, NEW p \in Group(q), p < q, Placed(q)', Here(p)'
        PROVE  Known(p)' # {} /\ pods'[q].zone \notin Known(p)'
    <3>1. p \in Ords /\ Placed(q) /\ pods'[q].zone = pods[q].zone
      BY <1>1, <2>1, <2>6 DEF Group, Placed
    <3>2. Here(p)
      BY <2>3, <2>4, <2>6, <3>1
    <3>3. Known(p) # {} /\ pods[q].zone \notin Known(p)
      BY <2>6, <3>1, <3>2 DEF ZoneInv, Apart
    <3>4. Known(p)' = Known(p)
      BY <2>2, <2>3, <2>4, <3>1, <3>3
    <3> QED BY <3>1, <3>3, <3>4
  <2>7. \A p \in Ords : Traced(p)' /\ Apart(p)'
    BY <2>5, <2>6 DEF Apart, Group
  <2>8. \A p \in Ords : pods[p] = Gone => p # o
    BY <1>1 DEF Gone
  <2> QED BY <1>1, <2>1, <2>4, <2>7, <2>8, OtherFrame
<1> QED BY <1>2, <1>3 DEF Bind, Kept

LEMMA ListerZones ==
    ASSUME Kept, ZoneInv, ListConfigMap \/ \E o \in Ords : ListPod(o) \/ PermitTimeout(o) PROVE ZoneInv'
<1>1. TypeInv'
  BY SchedulerStep DEF ZoneInv, Scheduler
<1>2. CASE ListConfigMap
  <2>1. UNCHANGED <<oper, pods, claim, lister>> /\ cmLister' = cm
    BY <1>2 DEF ListConfigMap
  <2>2. ASSUME NEW p \in Ords PROVE Keeps(p)
    BY <2>1 DEF ZoneInv, Traced, Fixed, Keeps, Known, Scheduled, Placed, Here, Anchored, oper
  <2> QED BY <1>1, <2>1, <2>2, KeepsFrame
<1>3. ASSUME NEW o \in Ords, ListPod(o) PROVE ZoneInv'
  <2>1. UNCHANGED <<oper, pods, claim, cmLister>>
        /\ \A p \in Ords : lister'[p] = lister[p] \/ lister'[p] = Scheduled(p)
    BY <1>3 DEF ListPod, ZoneInv, TypeInv, MapShape
  <2>2. ASSUME NEW p \in Ords PROVE Keeps(p)
    BY <2>1 DEF ZoneInv, Traced, Keeps, Known, Scheduled, Placed, Here, Anchored, oper
  <2> QED BY <1>1, <2>1, <2>2, KeepsFrame
<1>4. ASSUME NEW o \in Ords, PermitTimeout(o) PROVE ZoneInv'
  BY <1>1, <1>4, UnreserveZones DEF PermitTimeout, Gone
<1> QED BY <1>2, <1>3, <1>4

\* Patient users change the replicas when nothing names a zone for the pods above the size.
LEMMA EditZones == ASSUME Kept, ZoneInv, Edit PROVE ZoneInv'
<1>1. TypeInv' /\ UNCHANGED <<size, phase, cm, hosts, pc, op, sched>>
  BY OtherStep DEF ZoneInv, Edit
<1>2. MaxEdits # 0 /\ Patient
  BY SpendTypes, ZoneAssumption DEF Edit, ZoneInv, TypeInv, Names, Kept
<1>3. /\ pc = "idle" /\ IsReady(size) /\ cmLister = cm /\ lister = [o \in Ords |-> Scheduled(o)]
      /\ \A o \in Ords : o >= size => cm[o] = None
  BY <1>2 DEF Edit, Kept
<1>4. \A o \in Ords : op.map[o] = None /\ op.zone = None
  BY <1>3, NoneTypes DEF ZoneInv, TypeInv, PassShape
<1>5. ASSUME NEW o \in Ords, o >= size PROVE Vacant(o)
  <2>1. o \notin 0 .. size - 1
    BY <1>5, MaxSizeType DEF ZoneInv, TypeInv, ObjectShape
  <2>2. pods[o].state = "gone" /\ pods[o] = Gone
    BY <1>3, <2>1, PodTypes DEF IsReady, ZoneInv, TypeInv, PodShape, Gone
  <2>3. cm[o] = None /\ cmLister[o] = None /\ Scheduled(o) = None /\ lister[o] = None /\ hosts[o] = None
    BY <1>3, <1>5, <2>2 DEF Scheduled, ZoneInv, Clean
  <2> QED BY <1>4, <2>2, <2>3 DEF Vacant, Known
<1>6. ASSUME NEW o \in Ords
      PROVE  Known(o)' = Known(o) /\ (Traced(o)' <=> Traced(o)) /\ (Apart(o)' <=> Apart(o)) /\ (Vacant(o)' <=> Vacant(o))
  BY <1>1 DEF Known, Scheduled, Traced, Apart, Placed, Here, Anchored, Vacant, sched
<1>7. Clean'
  BY <1>1, <1>3, <1>5, <1>6 DEF ZoneInv, Clean
<1>8. Fixed' /\ PassInv'
  BY <1>1, <1>2, <1>3 DEF Fixed, PassInv
<1> QED BY <1>1, <1>6, <1>7, <1>8 DEF ZoneInv

LEMMA PodZones ==
    ASSUME Kept, ZoneInv, NEW o \in Ords, Kubernetes(o) \/ Evict(o) \/ Rebuild(o) PROVE ZoneInv'
<1>1. TypeInv'
  BY OtherStep DEF ZoneInv
<1>2. UNCHANGED <<oper, lister, cmLister>> /\ \A p \in Ords \ {o} : pods'[p] = pods[p] /\ claim'[p] = claim[p]
  BY DEF Kubernetes, Create, Remove, Ready, Evict, Rebuild, SetPod, ZoneInv, TypeInv, PodShape, MapShape
<1>3. ASSUME NEW p \in Ords, p # o PROVE Keeps(p)
  BY <1>2, <1>3 DEF ZoneInv, Traced, Keeps, Known, Scheduled, Placed, Here, Anchored, oper
<1>4. CASE Create(o)
  <2>1. pods[o] = Gone /\ o < size /\ pods'[o] = Pending /\ claim' = claim
    BY <1>4 DEF Create, SetPod, ZoneInv, TypeInv, PodShape
  <2>2. Keeps(o)
    BY <1>2, <2>1 DEF ZoneInv, Traced, Keeps, Known, Scheduled, Placed, Here, Anchored, oper, Gone, Pending
  <2>3. \A p \in Ords : p >= size => p # o
    BY <2>1, MaxSizeType DEF ZoneInv, TypeInv, ObjectShape
  <2> QED BY <1>1, <1>2, <1>3, <2>2, <2>3, KeepsFrame
<1>5. CASE Ready(o)
  <2>1. pods[o].state = "bound" /\ pods'[o].state = "ready" /\ pods'[o].zone = pods[o].zone /\ claim' = claim
    BY <1>5 DEF Ready, SetPod, ZoneInv, TypeInv, PodShape, PodState
  <2>2. Keeps(o)
    BY <1>2, <2>1 DEF ZoneInv, Traced, Keeps, Known, Scheduled, Placed, Here, Anchored, oper
  <2>3. pods[o] # Gone
    BY <2>1 DEF Gone
  <2> QED BY <1>1, <1>2, <1>3, <2>2, <2>3, KeepsFrame
<1>6. CASE SetPod(o, Gone) /\ pods[o] # Gone
  <2>1. pods'[o] = Gone /\ pods[o] # Gone /\ claim'[o] \in {claim[o], None}
    BY <1>6 DEF Kubernetes, Create, Remove, Ready, Evict, Rebuild, SetPod, ZoneInv, TypeInv, PodShape, MapShape
  <2>2. pods[o].state # "gone"
    BY <2>1, PodTypes DEF ZoneInv, TypeInv, PodShape, Gone
  <2>3. Here(o)' /\ Known(o) # {} => Anchored(o)'
    <3>1. CASE claim' = claim
      BY <1>2, <2>2, <3>1 DEF ZoneInv, Traced, Here, Anchored, oper
    <3>2. CASE Remove(o)
      BY <1>2, <2>1, <3>2, MaxSizeType DEF Remove, Here, Gone, oper, ZoneInv, TypeInv, ObjectShape
    <3>3. CASE Rebuild(o)
      <4>1. MaxRebuilds # 0 /\ cmLister[o] # None
        BY <3>3, SpendTypes, ZoneAssumption DEF Rebuild, ZoneInv, TypeInv, Names
      <4> QED BY <1>2, <4>1 DEF Kept, Anchored
    <3> QED BY <3>1, <3>2, <3>3 DEF Kubernetes, Create, Ready, Evict
  <2>4. Keeps(o)
    BY <1>2, <2>1, <2>2, <2>3 DEF Keeps, Known, Scheduled, Placed, Here, oper, Gone
  <2> QED BY <1>1, <1>2, <1>3, <2>1, <2>4, KeepsFrame
<1>7. Remove(o) \/ Evict(o) \/ Rebuild(o) => SetPod(o, Gone) /\ pods[o] # Gone
  BY DEF Remove, Evict, Rebuild, Gone
<1> QED BY <1>4, <1>5, <1>6, <1>7 DEF Kubernetes

LEMMA ZoneStep == ASSUME Kept, ZoneInv, [Next]_vars PROVE ZoneInv'
<1>1. TypeInv'
  BY TypeStep DEF ZoneInv
<1>2. CASE UNCHANGED vars \/ MakeRoom \/ \E z \in Zones : Fill(z)
  <2>1. UNCHANGED <<oper, pods, claim, lister, cmLister>>
    BY <1>2 DEF vars, oper, MakeRoom, Fill
  <2>2. ASSUME NEW p \in Ords PROVE Keeps(p)
    BY <2>1 DEF ZoneInv, Traced, Keeps, Known, Scheduled, Placed, Here, Anchored, oper
  <2> QED BY <1>1, <2>1, <2>2, KeepsFrame
<1>3. CASE Operator
  BY <1>3, StartPassZones, NextPodZones, AddHostsZones, WriteZonesZones, ScaleZones, MappingsZones,
     EndPassZones DEF Operator
<1>4. CASE EndCycle \/ ListConfigMap \/ \E o \in Ords : Scheduler(o)
  BY <1>4, EndCycleZones, ListerZones, ScheduleZones, BindZones DEF Scheduler
<1> QED BY <1>2, <1>3, <1>4, EditZones, PodZones DEF Next

LEMMA ZonesFollow == Storaged /\ ZoneInv => ZonesHold
<1> SUFFICES ASSUME Storaged, ZoneInv PROVE ZonesHold
  OBVIOUS
<1>1. TypeOK
  BY TypeOKHolds DEF ZoneInv
<1>2. ZoneKept
  BY DEF ZoneInv, Traced, Known, ZoneKept
<1>3. ASSUME NEW o \in Ords, NEW p \in Ords, p \in Group(o), p < o, Scheduled(o) # None
      PROVE  Scheduled(o) # Scheduled(p)
  <2>1. Placed(o) /\ Scheduled(o) = pods[o].zone
    BY <1>3 DEF Placed, Scheduled
  <2>2. Scheduled(p) # None => Here(p) /\ Scheduled(p) \in Known(p)
    BY DEF Here, Scheduled, Known
  <2> QED BY <1>3, <2>1, <2>2 DEF ZoneInv, Apart
<1>4. \A o \in Ords, p \in Ords : o # p => o < p \/ p < o
  BY MaxSizeType
<1>5. Spread
  <2> SUFFICES ASSUME NEW o \in Ords, NEW p \in Group(o) \ {o}, Scheduled(o) # None, Scheduled(o) = Scheduled(p)
               PROVE  FALSE
    BY DEF Spread
  <2>1. p \in Ords /\ p # o /\ p \in Group(o) /\ o \in Group(p)
    BY GroupIsSymmetric DEF Group
  <2> QED BY <1>3, <1>4, <2>1
<1> QED BY <1>1, <1>2, <1>5 DEF ZonesHold

\* The pods of a group run in different zones, whatever the lagging listers showed to Filter and
\* Permit, and metad has each host in the zone where its pod runs (node_zone.go Filter, Permit;
\* storaged_cluster.go addStorageHostsToZone): for any number of pods, zones, evictions, full
\* zones and failed calls, when users do not rescale, or rescale patiently without rebuilds.
THEOREM ZonesCorrect == Kept /\ Safety => []ZonesHold
<1>1. Kept /\ Init => Kept /\ ZoneInv
  BY ZoneInit
<1>2. (Kept /\ ZoneInv) /\ [Next]_vars => (Kept /\ ZoneInv)'
  <2> SUFFICES ASSUME Kept, ZoneInv, [Next]_vars PROVE Kept' /\ ZoneInv'
    OBVIOUS
  <2>1. Kept'
    BY DEF Kept, Storaged
  <2> QED BY <2>1, ZoneStep
<1>3. Kept /\ ZoneInv => ZonesHold
  BY ZonesFollow DEF Kept
<1> QED BY <1>1, <1>2, <1>3, PTL DEF Safety
=============================================================================
