-------------------------- MODULE AutoscalerProofs --------------------------
(***************************************************************************)
(* Autoscaler, for any number of autoscalers and metrics, any rules,       *)
(* limits, windows, users, faults and restarts: the types, that a change   *)
(* stays within the limits, that replicas are not taken away while a       *)
(* metric cannot be read, and that they are not taken away below a         *)
(* recommendation of the stabilization window.                             *)
(***************************************************************************)
EXTENDS Autoscaler, FiniteSetTheorems, WellFoundedInduction, SequenceTheorems, TLAPS

---------------------------------------------------------------------------
(* Maxima and minima of finite sets of numbers *)

\* Every nonempty set of naturals has a least element
LEMMA LeastNat ==
    ASSUME NEW S, S \subseteq Nat, S # {}
    PROVE  \E n \in S : \A m \in S : n <= m
<1>1. IsWellFoundedOn(OpToRel(<, Nat), Nat)
  BY NatLessThanWellFounded
<1>2. PICK n \in S : \A m \in S : ~ (<<m, n>> \in OpToRel(<, Nat))
  BY <1>1, WFMin
<1>3. \A m \in S : ~ (m < n)
  BY <1>2 DEF OpToRel
<1> QED
  BY <1>3

\* Every finite nonempty set of integers has a largest element, and a least one
HasMax(S) == \E x \in S : \A y \in S : x >= y
HasMin(S) == \E x \in S : \A y \in S : x <= y

LEMMA FiniteBounds ==
    ASSUME NEW S, S \subseteq Int, S # {}, IsFiniteSet(S)
    PROVE  HasMax(S) /\ HasMin(S)
<1> DEFINE Bad == {n \in Nat : \E T \in SUBSET Int :
                     /\ IsFiniteSet(T) /\ T # {} /\ Cardinality(T) = n
                     /\ ~(HasMax(T) /\ HasMin(T))}
<1>1. SUFFICES ASSUME ~(HasMax(S) /\ HasMin(S)) PROVE FALSE
  OBVIOUS
<1>2. Cardinality(S) \in Bad
  BY <1>1, FS_CardinalityType
<1>3. PICK n \in Bad : \A m \in Bad : n <= m
  BY <1>2, LeastNat
<1>4. PICK T \in SUBSET Int : /\ IsFiniteSet(T) /\ T # {} /\ Cardinality(T) = n
                              /\ ~(HasMax(T) /\ HasMin(T))
  BY <1>3
<1>5. PICK t \in T : TRUE
  BY <1>4
<1> DEFINE U == T \ {t}
<1>6. IsFiniteSet(U) /\ Cardinality(U) = n - 1 /\ U \in SUBSET Int
  BY <1>4, <1>5, FS_RemoveElement
<1>7. U # {}
  <2>1. SUFFICES ASSUME U = {} PROVE FALSE
    OBVIOUS
  <2>2. T = {t} /\ t \in Int
    BY <1>5, <2>1
  <2>3. t >= t /\ t <= t
    BY <2>2
  <2> QED
    BY <1>4, <2>2, <2>3 DEF HasMax, HasMin
<1>8. HasMax(U) /\ HasMin(U)
  <2>1. Cardinality(U) \in Nat /\ n \in Nat
    BY <1>6, FS_CardinalityType
  <2>2. Cardinality(U) \notin Bad
    BY <1>3, <1>6, <2>1
  <2> QED
    BY <1>6, <1>7, <2>1, <2>2
<1>9. PICK x \in U : \A y \in U : x >= y
  BY <1>8 DEF HasMax
<1>10. PICK z \in U : \A y \in U : z <= y
  BY <1>8 DEF HasMin
<1>11. t \in Int /\ x \in Int /\ z \in Int /\ T = U \union {t}
  BY <1>5
<1>12. HasMax(T)
  <2>1. CASE x >= t
    BY <1>9, <1>11, <2>1 DEF HasMax
  <2>2. CASE ~(x >= t)
    <3>1. \A y \in T : t >= y
      BY <1>9, <1>11, <2>2
    <3> QED
      BY <1>5, <3>1 DEF HasMax
  <2> QED
    BY <2>1, <2>2
<1>13. HasMin(T)
  <2>1. CASE z <= t
    BY <1>10, <1>11, <2>1 DEF HasMin
  <2>2. CASE ~(z <= t)
    <3>1. \A y \in T : t <= y
      BY <1>10, <1>11, <2>2
    <3> QED
      BY <1>5, <3>1 DEF HasMin
  <2> QED
    BY <2>1, <2>2
<1> QED
  BY <1>4, <1>12, <1>13

\* What the operators of FiniteSetsExt return for them
LEMMA MaxMin ==
    ASSUME NEW S, S \subseteq Int, S # {}, IsFiniteSet(S)
    PROVE  /\ Max(S) \in S /\ \A y \in S : Max(S) >= y
           /\ Min(S) \in S /\ \A y \in S : Min(S) <= y
<1>1. HasMax(S) /\ HasMin(S)
  BY FiniteBounds
<1> QED
  BY <1>1 DEF HasMax, HasMin, Max, Min

LEMMA FinitePair == ASSUME NEW x, NEW y PROVE IsFiniteSet({x, y})
<1> DEFINE S == {x}
<1>1. IsFiniteSet(S)
  BY FS_Singleton
<1> HIDE DEF S
<1>2. IsFiniteSet(S \union {y})
  BY <1>1, FS_AddElement
<1>3. S \union {y} = {x, y}
  BY DEF S
<1> QED
  BY <1>2, <1>3

\* Of two and of three numbers
LEMMA MaxOfTwo ==
    ASSUME NEW x \in Int, NEW y \in Int
    PROVE  /\ Max({x, y}) = IF x >= y THEN x ELSE y
           /\ Min({x, y}) = IF x <= y THEN x ELSE y
<1> DEFINE S == {x, y}
<1>1. S \subseteq Int /\ S # {} /\ IsFiniteSet(S)
  BY FinitePair
<1> HIDE DEF S
<1>2. /\ Max(S) \in S /\ \A z \in S : Max(S) >= z
      /\ Min(S) \in S /\ \A z \in S : Min(S) <= z
  BY <1>1, MaxMin
<1>3. /\ Max(S) \in {x, y} /\ Max(S) >= x /\ Max(S) >= y
      /\ Min(S) \in {x, y} /\ Min(S) <= x /\ Min(S) <= y
  BY <1>2 DEF S
<1>4. /\ Max(S) = IF x >= y THEN x ELSE y
      /\ Min(S) = IF x <= y THEN x ELSE y
  BY <1>3
<1> QED
  BY <1>4 DEF S

LEMMA BoundsOfThree ==
    ASSUME NEW x \in Int, NEW y \in Int, NEW z \in Int
    PROVE  /\ Max({x, y, z}) \in {x, y, z}
           /\ Max({x, y, z}) >= x /\ Max({x, y, z}) >= y /\ Max({x, y, z}) >= z
           /\ Min({x, y, z}) \in {x, y, z}
           /\ Min({x, y, z}) <= x /\ Min({x, y, z}) <= y /\ Min({x, y, z}) <= z
<1> DEFINE S == {x, y, z}
<1>1. S \subseteq Int /\ S # {} /\ IsFiniteSet(S)
  <2> DEFINE P == {x, y}
  <2>1. IsFiniteSet(P)
    BY FinitePair
  <2> HIDE DEF P
  <2>2. IsFiniteSet(P \union {z})
    BY <2>1, FS_AddElement
  <2>3. P \union {z} = S
    BY DEF P
  <2> QED
    BY <2>2, <2>3
<1> HIDE DEF S
<1>2. /\ Max(S) \in S /\ \A w \in S : Max(S) >= w
      /\ Min(S) \in S /\ \A w \in S : Min(S) <= w
  BY <1>1, MaxMin
<1> QED
  BY <1>2 DEF S

\* The values of a function on a finite set
LEMMA FiniteImage ==
    ASSUME NEW S, IsFiniteSet(S), NEW f
    PROVE  IsFiniteSet({f[x] : x \in S})
<1> DEFINE T == {f[x] : x \in S}
           g == [x \in S |-> f[x]]
<1>1. g \in Surjection(S, T)
  BY DEF Surjection
<1> QED
  BY <1>1, FS_Surjection

---------------------------------------------------------------------------
(* Rules *)

Fields == {"window", "select", "policies"}
Typed(r) ==
    /\ r \in [Fields -> {r[f] : f \in Fields}]
    /\ r["window"] \in Nat
    /\ IsFiniteSet(r["policies"])
    /\ \A p \in r["policies"] : p.value \in Nat /\ p.period \in Nat

\* copyHPAScalingRules leaves no field open
LEMMA CopyTyped ==
    ASSUME NEW from, IsRules(from), NEW to, Typed(to)
    PROVE  Typed(CopyHPAScalingRules(from, to))
<1>1. CASE from = Nil
  BY <1>1 DEF CopyHPAScalingRules
<1>2. CASE from # Nil
  <2> DEFINE r == [f \in DOMAIN to |-> IF from[f] # Nil THEN from[f] ELSE to[f]]
  <2>1. DOMAIN to = Fields
    BY DEF Typed
  <2>2. /\ r["window"] = IF from["window"] # Nil THEN from["window"] ELSE to["window"]
        /\ r["policies"] = IF from["policies"] # Nil THEN from["policies"] ELSE to["policies"]
    BY <2>1 DEF Fields
  <2>3. r \in [Fields -> {r[f] : f \in Fields}]
    BY <2>1
  <2>4. CopyHPAScalingRules(from, to) = r
    BY <1>2 DEF CopyHPAScalingRules
  <2> HIDE DEF r
  <2>5. r["window"] \in Nat
    BY <1>2, <2>2 DEF IsRules, Typed
  <2>6. IsFiniteSet(r["policies"]) /\ \A p \in r["policies"] : p.value \in Nat /\ p.period \in Nat
    BY <1>2, <2>2 DEF IsRules, Typed
  <2> QED
    BY <2>3, <2>4, <2>5, <2>6 DEF Typed
<1> QED
  BY <1>1, <1>2

LEMMA RulesTyped ==
    ASSUME Behavior # Nil
    PROVE  Typed(Up) /\ Typed(Down)
<1>1. DefaultPeriod \in Nat /\ DefaultDownWindow \in Nat /\ FlagWindow \in Nat
  BY NumberAssumption
<1>2. /\ Policy("Pods", 4, DefaultPeriod).value \in Nat
      /\ Policy("Pods", 4, DefaultPeriod).period \in Nat
      /\ Policy("Percent", 100, DefaultPeriod).value \in Nat
      /\ Policy("Percent", 100, DefaultPeriod).period \in Nat
  BY <1>1 DEF Policy
<1>3. /\ IsFiniteSet({Policy("Pods", 4, DefaultPeriod), Policy("Percent", 100, DefaultPeriod)})
      /\ IsFiniteSet({Policy("Percent", 100, DefaultPeriod)})
  BY FinitePair, FS_Singleton
<1>4. Typed(DefaultHPAScaleUpRules)
  <2> DEFINE d == DefaultHPAScaleUpRules
  <2>1. d \in [Fields -> {d[f] : f \in Fields}]
    BY DEF Fields, DefaultHPAScaleUpRules
  <2>2. /\ d["window"] = 0
        /\ d["policies"] = {Policy("Pods", 4, DefaultPeriod),
                            Policy("Percent", 100, DefaultPeriod)}
    BY DEF DefaultHPAScaleUpRules
  <2> QED
    BY <1>2, <1>3, <2>1, <2>2 DEF Typed
<1>5. Typed(DefaultHPAScaleDownRules)
  <2> DEFINE d == DefaultHPAScaleDownRules
  <2>1. d \in [Fields -> {d[f] : f \in Fields}]
    BY DEF Fields, DefaultHPAScaleDownRules
  <2>2. /\ d["window"] = DefaultDownWindow
        /\ d["policies"] = {Policy("Percent", 100, DefaultPeriod)}
    BY DEF DefaultHPAScaleDownRules
  <2> QED
    BY <1>1, <1>2, <1>3, <2>1, <2>2 DEF Typed
<1>6. IsRules(Behavior.up) /\ IsRules(Behavior.down)
  BY BehaviorAssumption
<1>7. Typed(Up)
  BY <1>4, <1>6, CopyTyped DEF Up
<1> DEFINE rules == CopyHPAScalingRules(Behavior.down, DefaultHPAScaleDownRules)
<1>8. Typed(rules)
  BY <1>5, <1>6, CopyTyped
<1> HIDE DEF rules
<1>9. Typed([rules EXCEPT !.window = FlagWindow])
  <2> DEFINE e == [rules EXCEPT !["window"] = FlagWindow]
  <2>1. e \in [Fields -> {e[f] : f \in Fields}]
    BY <1>8 DEF Typed
  <2>2. e["window"] = FlagWindow /\ e["policies"] = rules["policies"]
    BY <1>8 DEF Typed, Fields
  <2> HIDE DEF e
  <2>3. Typed(e)
    BY <1>1, <1>8, <2>1, <2>2 DEF Typed
  <2> QED
    BY <2>3 DEF e
<1>10. Typed(Down)
  BY <1>8, <1>9 DEF Down, rules
<1> QED
  BY <1>7, <1>10

\* The ages that windows tell apart
LEMMA AgesTyped ==
    /\ OldAge \in Nat /\ FlagWindow \in Nat /\ FlagWindow < OldAge
    /\ DownWindow \in Nat /\ DownWindow <= OldAge
    /\ Behavior # Nil => Up.window \in Nat /\ Down.window \in Nat
<1>1. FlagWindow \in Nat
  BY NumberAssumption
<1>2. CASE Behavior = Nil
  BY <1>1, <1>2 DEF OldAge, DownWindow
<1>3. CASE Behavior # Nil
  <2> DEFINE P == Up.policies \union Down.policies
             Q == [p \in P |-> p.period]
             S == {Up.window, Down.window, FlagWindow}
             T == {p.period : p \in P}
  <2>1. /\ Up.window \in Nat /\ Down.window \in Nat
        /\ IsFiniteSet(Up.policies) /\ IsFiniteSet(Down.policies)
        /\ \A p \in P : p.period \in Nat
    BY <1>3, RulesTyped DEF Typed
  <2>2. IsFiniteSet(P)
    BY <2>1, FS_Union
  <2>3. IsFiniteSet(T)
    <3>1. IsFiniteSet({Q[p] : p \in P})
      BY <2>2, FiniteImage
    <3>2. {Q[p] : p \in P} = T
      OBVIOUS
    <3> QED
      BY <3>1, <3>2
  <2>4. IsFiniteSet(S)
    <3> DEFINE R == {Up.window, Down.window}
    <3>1. IsFiniteSet(R)
      BY FinitePair
    <3> HIDE DEF R
    <3>2. IsFiniteSet(R \union {FlagWindow})
      BY <3>1, FS_AddElement
    <3>3. R \union {FlagWindow} = S
      BY DEF R
    <3> QED
      BY <3>2, <3>3
  <2>5. IsFiniteSet(S \union T)
    BY <2>3, <2>4, FS_Union
  <2>6. S \union T \subseteq Int /\ S \union T # {} /\ S \union T \subseteq Nat
    BY <1>1, <2>1
  <2> DEFINE ST == S \union T
  <2>7. Up.window \in ST /\ Down.window \in ST /\ FlagWindow \in ST
    OBVIOUS
  <2>8. OldAge = 1 + Max(ST)
    BY <1>3 DEF OldAge
  <2>9. ST \subseteq Int /\ ST # {} /\ IsFiniteSet(ST) /\ ST \subseteq Nat
    BY <2>5, <2>6
  <2> HIDE DEF ST
  <2>10. Max(ST) \in ST /\ \A y \in ST : Max(ST) >= y
    BY <2>9, MaxMin
  <2>11. DownWindow = Down.window
    BY <1>3 DEF DownWindow
  <2>12. /\ Max(ST) \in Nat /\ Max(ST) >= Up.window /\ Max(ST) >= Down.window
         /\ Max(ST) >= FlagWindow
    BY <2>7, <2>9, <2>10
  <2> QED
    BY <1>1, <2>1, <2>8, <2>11, <2>12
<1> QED
  BY <1>2, <1>3

---------------------------------------------------------------------------
(* Types.  Numbers of replicas and ages are not bounded here. *)
Rec   == [rec : Nat, age : Nat]
Event == [change : Nat, age : Nat]
Specs == [graphd : Nat, storaged : {0, 1}]
Admissible == {l \in Limits : Admitted(l)}

Types ==
    /\ nc \in [exists : BOOLEAN, graphd : Nat, storaged : {0, 1}]
    /\ hpa \in [Autoscalers -> [exists : BOOLEAN, limits : Admissible]]
    /\ status \in [Autoscalers -> [current : Nat, desired : Nat]]
    /\ load \in [Metrics -> Loads \union {-1}]
    /\ recs \in [Autoscalers -> Seq(Rec)]
    /\ ups \in [Autoscalers -> Seq(Event)]
    /\ downs \in [Autoscalers -> Seq(Event)]
    /\ pc \in {"idle", "compute", "update", "status"}
    /\ cur \in Autoscalers
    /\ copy \in Specs
    /\ lim \in Admissible \union {NoLimits}
    /\ want \in Nat
    /\ blind \in BOOLEAN
    /\ made \in [Autoscalers -> [Ages -> SUBSET Nat]]

LEMMA LimTyped ==
    ASSUME Types
    PROVE  lim[1] \in Nat /\ lim[2] \in Nat /\ lim[1] <= lim[2]
<1>1. CASE lim = NoLimits
  BY <1>1 DEF NoLimits
<1>2. CASE lim \in Admissible
  BY <1>2, NumberAssumption DEF Admissible, Admitted
<1> QED
  BY <1>1, <1>2 DEF Types

\* Sets of indexes
LEMMA FiniteIndexes ==
    ASSUME NEW T, NEW s \in Seq(T), NEW D, D \subseteq DOMAIN s
    PROVE  IsFiniteSet(D) /\ D \subseteq Int
<1>1. DOMAIN s = 1 .. Len(s) /\ Len(s) \in Nat
  BY LenProperties
<1> DEFINE I == 1 .. Len(s)
<1>2. 1 \in Int /\ Len(s) \in Int
  BY <1>1
<1>3. IsFiniteSet(I)
  BY <1>2, FS_Interval
<1>4. I \subseteq Int /\ D \in SUBSET I
  BY <1>1
<1> HIDE DEF I
<1> QED
  BY <1>3, <1>4, FS_Subset

\* A new sample takes the place of an outdated one, or is added; the others stay
LEMMA ReplaceOldKeeps ==
    ASSUME NEW T, NEW s \in Seq(T), NEW old \in SUBSET DOMAIN s, NEW new \in T
    PROVE  LET t == ReplaceOld(s, old, new) IN
           /\ t \in Seq(T)
           /\ \E j \in DOMAIN t : t[j] = new
           /\ \A i \in DOMAIN s \ old : i \in DOMAIN t /\ t[i] = s[i]
<1> DEFINE t == ReplaceOld(s, old, new)
<1>1. DOMAIN s = 1 .. Len(s) /\ Len(s) \in Nat
  BY LenProperties
<1>2. CASE old = {}
  <2>1. t = Append(s, new)
    BY <1>2 DEF ReplaceOld
  <2>2. /\ t \in Seq(T) /\ DOMAIN t = 1 .. Len(s) + 1
        /\ t[Len(s) + 1] = new
        /\ \A i \in 1 .. Len(s) : t[i] = s[i]
    <3>1. /\ Append(s, new) \in Seq(T)
          /\ Len(Append(s, new)) = Len(s) + 1
          /\ \A i \in 1 .. Len(s) : Append(s, new)[i] = s[i]
          /\ Append(s, new)[Len(s) + 1] = new
      BY AppendProperties
    <3>2. DOMAIN Append(s, new) = 1 .. Len(Append(s, new))
      BY <3>1, LenProperties
    <3> QED
      BY <2>1, <3>1, <3>2
  <2> QED
    BY <1>1, <2>2
<1>3. CASE old # {}
  <2>1. IsFiniteSet(old) /\ old \subseteq Int
    BY FiniteIndexes
  <2>2. Max(old) \in old
    BY <1>3, <2>1, MaxMin
  <2>3. t = [s EXCEPT ![Max(old)] = new]
    BY <1>3 DEF ReplaceOld
  <2>4. /\ t \in Seq(T) /\ DOMAIN t = DOMAIN s /\ t[Max(old)] = new
        /\ \A i \in DOMAIN s \ old : t[i] = s[i]
    BY <1>1, <2>2, <2>3, ExceptSeq
  <2> QED
    BY <2>2, <2>4
<1> QED
  BY <1>2, <1>3

\* The recommendations of a window
LEMMA YoungerTyped ==
    ASSUME NEW s \in Seq(Rec), NEW age \in Nat
    PROVE  /\ Younger(s, age) \subseteq Nat /\ IsFiniteSet(Younger(s, age))
           /\ \A i \in DOMAIN s : s[i].age < age => s[i].rec \in Younger(s, age)
<1> DEFINE D == {j \in DOMAIN s : s[j].age < age}
           f == [i \in D |-> s[i].rec]
<1>1. DOMAIN s = 1 .. Len(s) /\ Len(s) \in Nat
  BY LenProperties
<1>2. IsFiniteSet(D)
  <2>1. D \subseteq DOMAIN s
    OBVIOUS
  <2> HIDE DEF D
  <2> QED
    BY <2>1, FiniteIndexes
<1>3. {f[i] : i \in D} = Younger(s, age)
  BY DEF Younger
<1>4. IsFiniteSet({f[i] : i \in D})
  BY <1>2, FiniteImage
<1>5. \A i \in DOMAIN s : s[i] \in Rec
  BY <1>1, ElementOfSeq
<1>6. Younger(s, age) \subseteq Nat
  BY <1>5 DEF Younger, Rec
<1> QED
  BY <1>3, <1>4, <1>6 DEF Younger

\* The replicas changed in a period
LEMMA ChangeTyped ==
    ASSUME NEW period \in Nat, NEW events \in Seq(Event)
    PROVE  GetReplicasChangePerPeriod(period, events) \in Nat
<1> DEFINE D == {j \in DOMAIN events : events[j].age < period}
           f == [i \in D |-> {i} \X (1 .. events[i].change)]
           S == {{i} \X (1 .. events[i].change) : i \in D}
<1>1. DOMAIN events = 1 .. Len(events) /\ Len(events) \in Nat
  BY LenProperties
<1>2. IsFiniteSet(D)
  <2>1. D \subseteq DOMAIN events
    OBVIOUS
  <2> HIDE DEF D
  <2> QED
    BY <2>1, FiniteIndexes
<1>3. IsFiniteSet(S)
  <2>1. IsFiniteSet({f[i] : i \in D})
    <3> HIDE DEF D, f
    <3> QED
      BY <1>2, FiniteImage
  <2>2. {f[i] : i \in D} = S
    OBVIOUS
  <2> QED
    BY <2>1, <2>2
<1>4. ASSUME NEW T \in S PROVE IsFiniteSet(T)
  <2>1. PICK i \in D : T = {i} \X (1 .. events[i].change)
    OBVIOUS
  <2>2. events[i].change \in Int
    <3>1. events[i] \in Event
      BY <1>1, ElementOfSeq
    <3> QED
      BY <3>1 DEF Event
  <2>3. IsFiniteSet({i})
    BY FS_Singleton
  <2>4. IsFiniteSet(1 .. events[i].change)
    <3> DEFINE n == events[i].change
    <3>1. 1 \in Int /\ n \in Int
      BY <2>2
    <3> HIDE DEF n
    <3>2. IsFiniteSet(1 .. n)
      BY <3>1, FS_Interval
    <3> QED
      BY <3>2 DEF n
  <2> QED
    BY <2>1, <2>3, <2>4, FS_Product
<1>5. IsFiniteSet(UNION S)
  BY <1>3, <1>4, FS_UNION
<1> QED
  BY <1>5, FS_CardinalityType DEF GetReplicasChangePerPeriod

---------------------------------------------------------------------------
(* What a change may be *)

\* The proposals of the policies are numbers, and there are finitely many
LEMMA ProposalsTyped ==
    ASSUME Types, Behavior # Nil, NEW a \in Autoscalers
    PROVE  /\ CalculateScaleUpLimitWithScalingRules(a) \in Int
           /\ CalculateScaleDownLimitWithBehaviors(a) \in Int
<1>1. /\ Typed(Up) /\ Typed(Down) /\ copy.graphd \in Nat
      /\ ups[a] \in Seq(Event) /\ downs[a] \in Seq(Event)
  BY RulesTyped DEF Types, Specs
<1>2. ASSUME NEW p, p.value \in Nat, p.period \in Nat
      PROVE  PeriodStart(a, p) \in Int /\ ProposedUp(p, PeriodStart(a, p)) \in Int
             /\ ProposedDown(p, PeriodStart(a, p)) \in Int
  <2>1. /\ GetReplicasChangePerPeriod(p.period, ups[a]) \in Nat
        /\ GetReplicasChangePerPeriod(p.period, downs[a]) \in Nat
    BY <1>1, <1>2, ChangeTyped
  <2>2. PeriodStart(a, p) \in Int
    BY <1>1, <2>1 DEF PeriodStart
  <2> DEFINE start == PeriodStart(a, p)
             v == p.value
  <2>3. start \in Int /\ v \in Nat
    BY <1>2, <2>2
  <2> HIDE DEF start, v
  <2>4. start * (100 + v) \in Int /\ start * (100 - v) \in Int
    BY <2>3
  <2> DEFINE x == start * (100 - v)
             y == start * (100 + v)
  <2>5. x \in Int /\ y \in Int
    BY <2>4
  <2> HIDE DEF x, y
  <2>6. /\ x \div 100 \in Int /\ -((-x) \div 100) \in Int /\ (y + 99) \div 100 \in Int
        /\ start + v \in Int /\ start - v \in Int
    BY <2>3, <2>5
  <2>7. ProposedUp(p, start) \in Int
    BY <2>6 DEF ProposedUp, y, v
  <2>8. ProposedDown(p, start) \in Int
    BY <2>6 DEF ProposedDown, x, v
  <2> QED
    BY <2>2, <2>7, <2>8 DEF start
<1>3. MaxInt32 \in Int /\ MinInt32 \in Int
  BY DEF MaxInt32, MinInt32
<1>4. ASSUME NEW n \in Int, NEW S, S \subseteq Int, IsFiniteSet(S)
      PROVE  Max({n} \union S) \in Int /\ Min({n} \union S) \in Int
  <2> DEFINE T == S \union {n}
  <2>1. IsFiniteSet(T) /\ T \subseteq Int /\ T # {}
    BY <1>4, FS_AddElement
  <2>2. {n} \union S = T
    OBVIOUS
  <2> HIDE DEF T
  <2>3. Max(T) \in T /\ Min(T) \in T
    BY <2>1, MaxMin
  <2> QED
    BY <2>1, <2>2, <2>3
<1>5. CalculateScaleUpLimitWithScalingRules(a) \in Int
  <2> DEFINE P == Up.policies
             f == [p \in P |-> ProposedUp(p, PeriodStart(a, p))]
             S == {ProposedUp(p, PeriodStart(a, p)) : p \in P}
  <2>1. IsFiniteSet(P) /\ \A p \in P : p.value \in Nat /\ p.period \in Nat
    BY <1>1 DEF Typed
  <2>2. S \subseteq Int
    BY <1>2, <2>1
  <2>3. S = {f[p] : p \in P}
    OBVIOUS
  <2>4. IsFiniteSet(S)
    <3> HIDE DEF P, f, S
    <3> QED
      BY <2>1, <2>3, FiniteImage
  <2> HIDE DEF S
  <2>5. Max({MinInt32} \union S) \in Int /\ Min({MaxInt32} \union S) \in Int
    BY <1>3, <1>4, <2>2, <2>4
  <2> QED
    BY <1>1, <2>5 DEF CalculateScaleUpLimitWithScalingRules, S
<1>6. CalculateScaleDownLimitWithBehaviors(a) \in Int
  <2> DEFINE P == Down.policies
             f == [p \in P |-> ProposedDown(p, PeriodStart(a, p))]
             S == {ProposedDown(p, PeriodStart(a, p)) : p \in P}
  <2>1. IsFiniteSet(P) /\ \A p \in P : p.value \in Nat /\ p.period \in Nat
    BY <1>1 DEF Typed
  <2>2. S \subseteq Int
    BY <1>2, <2>1
  <2>3. S = {f[p] : p \in P}
    OBVIOUS
  <2>4. IsFiniteSet(S)
    <3> HIDE DEF P, f, S
    <3> QED
      BY <2>1, <2>3, FiniteImage
  <2> HIDE DEF S
  <2>5. Max({MinInt32} \union S) \in Int /\ Min({MaxInt32} \union S) \in Int
    BY <1>3, <1>4, <2>2, <2>4
  <2> QED
    BY <1>1, <2>5 DEF CalculateScaleDownLimitWithBehaviors, S
<1> QED
  BY <1>5, <1>6

\* The stabilized recommendation is not below what was asked for in the window,
\* nor below the current replicas if that is less
LEMMA Stabilized ==
    ASSUME NEW s \in Seq(Rec), NEW current \in Nat, NEW desired \in Nat
    PROVE  /\ Behavior = Nil =>
                LET w == StabilizeRecommendation(s, desired) IN
                /\ w \in Nat /\ w >= desired
                /\ \A i \in DOMAIN s : s[i].age < DownWindow => w >= s[i].rec
           /\ Behavior # Nil =>
                LET w == StabilizeRecommendationWithBehaviors(s, current, desired) IN
                /\ w \in Nat /\ (w >= desired \/ w >= current)
                /\ \A i \in DOMAIN s : s[i].age < DownWindow => w >= s[i].rec \/ w >= current
<1>1. ASSUME NEW S, S \subseteq Nat, IsFiniteSet(S)
      PROVE  LET m == Max({desired} \union S)
                 n == Min({desired} \union S) IN
             m \in Nat /\ m >= desired /\ (\A y \in S : m >= y) /\ n \in Nat
  <2> DEFINE T == S \union {desired}
  <2>1. IsFiniteSet(T) /\ T \subseteq Int /\ T \subseteq Nat /\ T # {} /\ desired \in T /\ S \subseteq T
    BY <1>1, FS_AddElement
  <2>2. {desired} \union S = T
    OBVIOUS
  <2> HIDE DEF T
  <2>3. Max(T) \in T /\ Min(T) \in T /\ \A y \in T : Max(T) >= y
    BY <2>1, MaxMin
  <2> QED
    BY <2>1, <2>2, <2>3
<1>2. CASE Behavior = Nil
  <2>1. DownWindow = FlagWindow + 1 /\ FlagWindow + 1 \in Nat
    BY <1>2, AgesTyped DEF DownWindow
  <2>2. /\ Younger(s, FlagWindow + 1) \subseteq Nat /\ IsFiniteSet(Younger(s, FlagWindow + 1))
        /\ \A i \in DOMAIN s : s[i].age < FlagWindow + 1 => s[i].rec \in Younger(s, FlagWindow + 1)
    BY <2>1, YoungerTyped
  <2> QED
    BY <1>1, <1>2, <2>1, <2>2 DEF StabilizeRecommendation
<1>3. CASE Behavior # Nil
  <2> DEFINE up == Min({desired} \union Younger(s, Up.window))
             down == Max({desired} \union Younger(s, Down.window))
             w == StabilizeRecommendationWithBehaviors(s, current, desired)
  <2>1. DownWindow = Down.window /\ Down.window \in Nat /\ Up.window \in Nat
    BY <1>3, AgesTyped DEF DownWindow
  <2>2. /\ Younger(s, Down.window) \subseteq Nat /\ IsFiniteSet(Younger(s, Down.window))
        /\ Younger(s, Up.window) \subseteq Nat /\ IsFiniteSet(Younger(s, Up.window))
        /\ \A i \in DOMAIN s : s[i].age < Down.window => s[i].rec \in Younger(s, Down.window)
    BY <2>1, YoungerTyped
  <2>3. /\ up \in Nat /\ down \in Nat /\ down >= desired
        /\ \A y \in Younger(s, Down.window) : down >= y
    BY <1>1, <2>2
  <2>4. w = Min({Max({current, up}), down})
    BY DEF StabilizeRecommendationWithBehaviors
  <2> HIDE DEF up, down, w
  <2>5. Max({current, up}) = IF current >= up THEN current ELSE up
    BY <2>3, MaxOfTwo
  <2> DEFINE m == Max({current, up})
  <2>6. m \in Nat /\ m >= current
    BY <2>3, <2>5
  <2>7. w = Min({m, down})
    BY <2>4
  <2> HIDE DEF m
  <2>8. w = IF m <= down THEN m ELSE down
    <3>1. m \in Int /\ down \in Int
      BY <2>3, <2>6
    <3>2. Min({m, down}) = IF m <= down THEN m ELSE down
      BY <3>1, MaxOfTwo
    <3> QED
      BY <2>7, <3>2
  <2>9. w \in Nat /\ (w >= current \/ w = down)
    BY <2>3, <2>6, <2>8
  <2>10. \A i \in DOMAIN s : s[i].age < DownWindow => w >= s[i].rec \/ w >= current
    BY <2>1, <2>2, <2>3, <2>9
  <2>11. w \in Nat /\ (w >= desired \/ w >= current)
    BY <2>3, <2>9
  <2> QED
    BY <1>3, <2>10, <2>11 DEF w
<1> QED
  BY <1>2, <1>3

\* A change within the limits that does not go below the desired replicas
LEMMA Limited ==
    ASSUME Types, NEW a \in Autoscalers, NEW desired \in Nat, copy.graphd \in lim[1] .. lim[2]
    PROVE  /\ Behavior = Nil =>
                LET w == ConvertDesiredReplicasWithRules(copy.graphd, desired, lim[1], lim[2]) IN
                w \in lim[1] .. lim[2] /\ (w >= desired \/ w >= copy.graphd)
           /\ Behavior # Nil =>
                LET w == ConvertDesiredReplicasWithBehaviorRate(a, desired) IN
                w \in lim[1] .. lim[2] /\ (w >= desired \/ w >= copy.graphd)
<1> DEFINE c == copy.graphd
           low == lim[1]
           high == lim[2]
<1>1. c \in Nat /\ low \in Nat /\ high \in Nat /\ low <= c /\ c <= high
  BY LimTyped DEF Types, Specs
<1> HIDE DEF c, low, high
<1>2. CASE Behavior = Nil
  <2> DEFINE k == 2 * c
             up == Max({k, 4})
             allowed == Min({high, up})
             w == ConvertDesiredReplicasWithRules(c, desired, low, high)
  <2>1. k \in Nat /\ k >= c
    BY <1>1
  <2> HIDE DEF k
  <2>2. up = IF k >= 4 THEN k ELSE 4
    BY <2>1, MaxOfTwo
  <2>3. up \in Nat /\ up >= c
    BY <1>1, <2>1, <2>2
  <2> HIDE DEF up
  <2>4. allowed = IF high <= up THEN high ELSE up
    <3>1. high \in Int /\ up \in Int
      BY <1>1, <2>3
    <3> QED
      BY <3>1, MaxOfTwo
  <2>5. allowed \in Nat /\ allowed >= c /\ allowed <= high
    BY <1>1, <2>3, <2>4
  <2>6. w = IF desired < low THEN low ELSE Min({desired, allowed})
    BY DEF ConvertDesiredReplicasWithRules, CalculateScaleUpLimit, up, k
  <2> HIDE DEF allowed, w
  <2>7. Min({desired, allowed}) = IF desired <= allowed THEN desired ELSE allowed
    <3>1. desired \in Int /\ allowed \in Int
      BY <2>5
    <3> QED
      BY <3>1, MaxOfTwo
  <2>8. w \in low .. high /\ (w >= desired \/ w >= c)
    BY <1>1, <2>5, <2>6, <2>7
  <2> QED
    BY <1>2, <2>8 DEF w, c, low, high
<1>3. CASE Behavior # Nil
  <2> DEFINE u == CalculateScaleUpLimitWithScalingRules(a)
             d == CalculateScaleDownLimitWithBehaviors(a)
             rise == Max({u, c})
             fall == Min({d, c})
             x == Min({desired, high, rise})
             y == Max({desired, low, fall})
             w == ConvertDesiredReplicasWithBehaviorRate(a, desired)
  <2>1. u \in Int /\ d \in Int
    BY <1>3, ProposalsTyped
  <2>2. w = IF desired > c THEN x ELSE IF desired < c THEN y ELSE desired
    <3>1. \/ desired > c /\ ~(desired < c)
          \/ ~(desired > c) /\ desired < c
          \/ ~(desired > c) /\ ~(desired < c)
      BY <1>1
    <3> QED
      BY <3>1 DEF ConvertDesiredReplicasWithBehaviorRate, c, low, high
  <2> HIDE DEF u, d, w
  <2>3. rise = IF u >= c THEN u ELSE c
    BY <1>1, <2>1, MaxOfTwo
  <2>4. fall = IF d <= c THEN d ELSE c
    <3>1. d \in Int /\ c \in Int
      BY <1>1, <2>1
    <3>2. Min({d, c}) = IF d <= c THEN d ELSE c
      BY <3>1, MaxOfTwo
    <3> QED
      BY <3>2
  <2> HIDE DEF rise, fall
  <2>5. rise \in Int /\ rise >= c /\ fall \in Int /\ fall <= c
    BY <1>1, <2>1, <2>3, <2>4
  <2>6. /\ x \in {desired, high, rise} /\ x <= desired /\ x <= high /\ x <= rise
    <3>1. desired \in Int /\ high \in Int /\ rise \in Int
      BY <1>1, <2>5
    <3> QED
      BY <3>1, BoundsOfThree
  <2>7. /\ y \in {desired, low, fall} /\ y >= desired /\ y >= low /\ y >= fall
    <3>1. desired \in Int /\ low \in Int /\ fall \in Int
      BY <1>1, <2>5
    <3> QED
      BY <3>1, BoundsOfThree
  <2> HIDE DEF x, y
  <2>8. w \in low .. high /\ (w >= desired \/ w >= c)
    <3>1. CASE desired > c
      BY <1>1, <2>2, <2>5, <2>6, <3>1
    <3>2. CASE desired < c
      BY <1>1, <2>2, <2>5, <2>7, <3>2
    <3>3. CASE desired = c
      BY <1>1, <2>2, <3>3
    <3> QED
      BY <1>1, <3>1, <3>2, <3>3
  <2> QED
    BY <1>3, <2>8 DEF w, c, low, high
<1> QED
  BY <1>2, <1>3

\* What normalizeDesiredReplicas makes of a recommendation
LEMMA Normalized ==
    ASSUME Types, NEW a \in Autoscalers, NEW desired \in Nat, copy.graphd \in lim[1] .. lim[2]
    PROVE  LET w == NormalizeDesiredReplicas(a, desired) IN
           /\ w \in lim[1] .. lim[2]
           /\ w >= desired \/ w >= copy.graphd
           /\ \A i \in DOMAIN recs[a] :
                 recs[a][i].age < DownWindow => w >= recs[a][i].rec \/ w >= copy.graphd
<1> DEFINE w == NormalizeDesiredReplicas(a, desired)
           s == IF Behavior = Nil THEN StabilizeRecommendation(recs[a], desired)
                ELSE StabilizeRecommendationWithBehaviors(recs[a], copy.graphd, desired)
<1>1. /\ recs[a] \in Seq(Rec) /\ copy.graphd \in Nat
      /\ \A i \in DOMAIN recs[a] : recs[a][i].rec \in Nat
  <2>1. recs[a] \in Seq(Rec) /\ copy.graphd \in Nat
    BY DEF Types, Specs
  <2>2. \A i \in DOMAIN recs[a] : recs[a][i] \in Rec
    BY <2>1, LenProperties, ElementOfSeq
  <2> QED
    BY <2>1, <2>2 DEF Rec
<1>2. /\ s \in Nat /\ (s >= desired \/ s >= copy.graphd)
      /\ \A i \in DOMAIN recs[a] :
            recs[a][i].age < DownWindow => s >= recs[a][i].rec \/ s >= copy.graphd
  BY <1>1, Stabilized
<1>3. /\ Behavior = Nil =>
           w = ConvertDesiredReplicasWithRules(copy.graphd, s, lim[1], lim[2])
      /\ Behavior # Nil => w = ConvertDesiredReplicasWithBehaviorRate(a, s)
  BY DEF NormalizeDesiredReplicas
<1> HIDE DEF w, s
<1>4. w \in lim[1] .. lim[2] /\ (w >= s \/ w >= copy.graphd)
  BY <1>2, <1>3, Limited
<1>5. w \in Int
  BY <1>4, LimTyped
<1>6. \A n \in Nat : s >= n \/ s >= copy.graphd => w >= n \/ w >= copy.graphd
  BY <1>1, <1>2, <1>4, <1>5
<1>7. \A i \in DOMAIN recs[a] :
         recs[a][i].age < DownWindow => w >= recs[a][i].rec \/ w >= copy.graphd
  BY <1>1, <1>2, <1>6
<1> QED
  BY <1>2, <1>4, <1>6, <1>7 DEF w

---------------------------------------------------------------------------
(* Every step keeps the types *)

\* Samples grow older, and are the same samples
LEMMA OlderKeeps ==
    ASSUME NEW s \in Seq(Rec)
    PROVE  /\ Older(s) \in Seq(Rec) /\ DOMAIN Older(s) = DOMAIN s
           /\ \A i \in DOMAIN s : /\ Older(s)[i].rec = s[i].rec
                                  /\ s[i].age < OldAge => Older(s)[i].age = s[i].age + 1
<1>1. DOMAIN s = 1 .. Len(s) /\ Len(s) \in Nat /\ \A i \in DOMAIN s : s[i] \in Rec
  BY LenProperties, ElementOfSeq
<1>2. ASSUME NEW i \in DOMAIN s
      PROVE  /\ Older(s)[i] \in Rec
             /\ Older(s)[i].rec = s[i].rec
             /\ s[i].age < OldAge => Older(s)[i].age = s[i].age + 1
  <2> DEFINE m == Min({s[i].age + 1, OldAge})
             o == Older(s)[i]
             r == s[i]
             g == s[i].age
  <2>1. r \in Rec /\ g \in Nat /\ OldAge \in Nat
    BY <1>1, AgesTyped DEF Rec
  <2> HIDE DEF g
  <2>2. Min({g + 1, OldAge}) = IF g + 1 <= OldAge THEN g + 1 ELSE OldAge
    <3> DEFINE h == g + 1
    <3>1. h \in Int /\ OldAge \in Int
      BY <2>1
    <3> HIDE DEF h
    <3>2. Min({h, OldAge}) = IF h <= OldAge THEN h ELSE OldAge
      BY <3>1, MaxOfTwo
    <3> QED
      BY <3>2 DEF h
  <2>3. m \in Nat /\ (g < OldAge => m = g + 1)
    BY <2>1, <2>2 DEF g
  <2>4. o = [r EXCEPT !.age = m]
    BY DEF Older
  <2> HIDE DEF m, o, r
  <2>5. o \in Rec /\ o.rec = r.rec /\ o.age = m
    BY <2>1, <2>3, <2>4 DEF Rec
  <2> QED
    BY <2>3, <2>5 DEF o, r, g
<1>3. DOMAIN Older(s) = 1 .. Len(s)
  BY <1>1 DEF Older
<1>4. Older(s) \in [1 .. Len(s) -> Rec]
  BY <1>1, <1>2, <1>3 DEF Older
<1>5. Older(s) \in Seq(Rec)
  BY <1>1, <1>4, SeqDef
<1> QED
  BY <1>1, <1>2, <1>3, <1>5

LEMMA OlderEvents ==
    ASSUME NEW s \in Seq(Event)
    PROVE  Older(s) \in Seq(Event)
<1>1. DOMAIN s = 1 .. Len(s) /\ Len(s) \in Nat /\ \A i \in DOMAIN s : s[i] \in Event
  BY LenProperties, ElementOfSeq
<1>2. ASSUME NEW i \in DOMAIN s
      PROVE  [s[i] EXCEPT !.age = Min({@ + 1, OldAge})] \in Event
  <2> DEFINE r == s[i]
             h == r.age + 1
             m == Min({h, OldAge})
  <2>1. r \in Event /\ h \in Int /\ h \in Nat /\ OldAge \in Nat /\ OldAge \in Int
    BY <1>1, AgesTyped DEF Event
  <2> HIDE DEF h
  <2>2. m = IF h <= OldAge THEN h ELSE OldAge
    BY <2>1, MaxOfTwo
  <2>3. m \in Nat
    BY <2>1, <2>2
  <2> HIDE DEF m, r
  <2>4. [r EXCEPT !.age = m] \in Event
    BY <2>1, <2>3 DEF Event
  <2> QED
    BY <2>4 DEF m, h, r
<1>3. Older(s) \in [1 .. Len(s) -> Event]
  BY <1>1, <1>2 DEF Older
<1> QED
  BY <1>1, <1>3, SeqDef

LEMMA EventStored ==
    ASSUME NEW s \in Seq(Event), NEW rules, NEW change \in Nat
    PROVE  StoreScaleEvent(s, rules, change) \in Seq(Event)
<1> DEFINE old == {i \in DOMAIN s : s[i].age > GetLongestPolicyPeriod(rules)}
           new == [change |-> change, age |-> 0]
<1>1. old \in SUBSET DOMAIN s
  OBVIOUS
<1>2. new \in Event
  BY DEF Event
<1>3. StoreScaleEvent(s, rules, change) = ReplaceOld(s, old, new)
  BY DEF StoreScaleEvent
<1> HIDE DEF old, new
<1> QED
  BY <1>1, <1>2, <1>3, ReplaceOldKeeps

\* A recommendation is recorded, and those of the window stay
LEMMA Recorded ==
    ASSUME NEW s \in Seq(Rec), NEW desired \in Nat
    PROVE  LET t == RecordRecommendation(s, desired) IN
           /\ t \in Seq(Rec)
           /\ \E j \in DOMAIN t : t[j] = [rec |-> desired, age |-> 0]
           /\ \A i \in DOMAIN s : s[i].age < DownWindow => i \in DOMAIN t /\ t[i] = s[i]
<1> DEFINE t == RecordRecommendation(s, desired)
           old == IF Behavior = Nil THEN OutdatedRecommendations(s)
                  ELSE OutdatedWithBehaviors(s)
           new == [rec |-> desired, age |-> 0]
<1>1. old \in SUBSET DOMAIN s
  BY DEF OutdatedRecommendations, OutdatedWithBehaviors
<1>2. new \in Rec
  BY DEF Rec
<1>3. t = ReplaceOld(s, old, new)
  BY DEF RecordRecommendation
<1>4. \A i \in DOMAIN s : s[i].age \in Nat
  <2>1. \A i \in DOMAIN s : s[i] \in Rec
    BY LenProperties, ElementOfSeq
  <2> QED
    BY <2>1 DEF Rec
<1>5. \A i \in DOMAIN s : s[i].age < DownWindow => i \notin old
  BY <1>4, AgesTyped DEF OutdatedRecommendations, OutdatedWithBehaviors, DownWindow
<1> HIDE DEF t, old, new
<1>6. /\ t \in Seq(Rec)
      /\ \E j \in DOMAIN t : t[j] = new
      /\ \A i \in DOMAIN s \ old : i \in DOMAIN t /\ t[i] = s[i]
  BY <1>1, <1>2, <1>3, ReplaceOldKeeps
<1> QED
  BY <1>5, <1>6 DEF t, new

LEMMA FinishTyped ==
    ASSUME NEW a \in Autoscalers, Finish(a)
    PROVE  /\ pc' \in {"idle", "compute", "update", "status"} /\ copy' \in Specs
           /\ lim' \in Admissible \union {NoLimits} /\ want' \in Nat /\ blind' \in BOOLEAN
           /\ pc' = "idle"
  BY DEF Finish, Specs, Spec0

LEMMA TypesInit == Init => Types
<1> SUFFICES ASSUME Init PROVE Types
  OBVIOUS
<1> USE DEF Init
<1>1. UserReplicas \subseteq Nat
  BY NumberAssumption
<1>2. << >> \in Seq(Rec) /\ << >> \in Seq(Event)
  BY EmptySeq
<1>3. nc \in [exists : BOOLEAN, graphd : Nat, storaged : {0, 1}]
  BY <1>1
<1>4. hpa \in [Autoscalers -> [exists : BOOLEAN, limits : Admissible]]
  BY DEF Admissible
<1>5. status \in [Autoscalers -> [current : Nat, desired : Nat]]
  OBVIOUS
<1>6. /\ recs \in [Autoscalers -> Seq(Rec)] /\ ups \in [Autoscalers -> Seq(Event)]
      /\ downs \in [Autoscalers -> Seq(Event)]
  BY <1>2 DEF Nothing
<1>7. copy \in Specs
  BY DEF Specs, Spec0
<1>8. made \in [Autoscalers -> [Ages -> SUBSET Nat]]
  OBVIOUS
<1> QED
  BY <1>3, <1>4, <1>5, <1>6, <1>7, <1>8 DEF Types

\* Metrics ask for a number of replicas, or for none
LEMMA MetricsTyped ==
    ASSUME Types
    PROVE  /\ ComputeReplicasForMetrics \in Nat \union {-1}
           /\ (-1 \in {load[m] : m \in Metrics}) /\ ComputeReplicasForMetrics # -1
              => ComputeReplicasForMetrics >= copy.graphd
<1> DEFINE all == {load[m] : m \in Metrics}
           valid == all \ {-1}
           T == valid \union {0}
<1>1. /\ all \subseteq Nat \union {-1} /\ copy.graphd \in Nat
      /\ IsFiniteSet(Metrics)
  <2>1. Loads \subseteq Nat /\ IsFiniteSet(Metrics)
    BY NumberAssumption
  <2>2. load \in [Metrics -> Loads \union {-1}] /\ copy.graphd \in Nat
    BY DEF Types, Specs
  <2> QED
    BY <2>1, <2>2
<1>2. IsFiniteSet(all)
  BY <1>1, FiniteImage
<1> HIDE DEF all
<1>3. IsFiniteSet(valid) /\ valid \subseteq Nat
  BY <1>1, <1>2, FS_Subset
<1>4. IsFiniteSet(T) /\ T \subseteq Int /\ T # {} /\ T \subseteq Nat
  <2> HIDE DEF valid
  <2> QED
    BY <1>3, FS_AddElement
<1> DEFINE most == Max(T)
<1>5. most \in Nat
  <2> HIDE DEF T
  <2> QED
    BY <1>4, MaxMin
<1>6. ComputeReplicasForMetrics =
        IF valid = {} \/ (-1 \in all /\ most < copy.graphd) THEN -1 ELSE most
  BY DEF ComputeReplicasForMetrics, all
<1> HIDE DEF most, valid
<1>7. most # -1
  BY <1>5
<1> QED
  BY <1>1, <1>5, <1>6, <1>7 DEF all

\* The result of Compute
LEMMA ComputeDecides ==
    ASSUME Types, Compute
    PROVE  /\ pc = "compute" /\ cur' = cur /\ copy' = copy /\ lim' = lim
           /\ pc' \in {"update", "status"} /\ want' \in Nat /\ blind' \in BOOLEAN
           /\ \/ pc' = "status" /\ UNCHANGED <<recs, made>>
              \/ /\ pc' = "update" /\ UNCHANGED <<recs, made>>
                 /\ \/ copy.graphd > lim[2] /\ want' = lim[2]
                    \/ copy.graphd < lim[1] /\ want' = lim[1]
              \/ \E desired \in Nat :
                    /\ copy.graphd \in lim[1] .. lim[2]
                    /\ want' = NormalizeDesiredReplicas(cur, desired)
                    /\ blind' => desired >= copy.graphd
                    /\ recs' = [recs EXCEPT ![cur] = RecordRecommendation(@, desired)]
                    /\ made' = IF History THEN [made EXCEPT ![cur][0] = @ \union {desired}]
                               ELSE made
<1>1. /\ pc = "compute" /\ cur' = cur /\ copy' = copy /\ lim' = lim
      /\ blind' = (-1 \in {load[m] : m \in Metrics})
  BY DEF Compute
<1>2. lim[1] \in Nat /\ lim[2] \in Nat /\ lim[1] <= lim[2] /\ copy.graphd \in Nat
  BY LimTyped DEF Types, Specs
<1>3. blind' \in BOOLEAN
  BY <1>1
<1>4. CASE copy.graphd = 0 /\ lim[1] # 0 /\ Decide(0, "status") /\ UNCHANGED <<recs, made>>
  BY <1>1, <1>3, <1>4 DEF Decide
<1>5. CASE copy.graphd > lim[2] /\ Decide(lim[2], "update") /\ UNCHANGED <<recs, made>>
  BY <1>1, <1>2, <1>3, <1>5 DEF Decide
<1>6. CASE copy.graphd < lim[1] /\ Decide(lim[1], "update") /\ UNCHANGED <<recs, made>>
  BY <1>1, <1>2, <1>3, <1>6 DEF Decide
<1>7. CASE copy.graphd \in lim[1] .. lim[2] /\ Decide(copy.graphd, "status")
           /\ UNCHANGED <<recs, made>>
  BY <1>1, <1>2, <1>3, <1>7 DEF Decide
<1>8. ASSUME NEW desired, desired # -1,
             desired = IF Ambiguous(cur) THEN -1 ELSE ComputeReplicasForMetrics,
             copy.graphd \in lim[1] .. lim[2],
             Decide(NormalizeDesiredReplicas(cur, desired),
                    IF NormalizeDesiredReplicas(cur, desired) = copy.graphd
                    THEN "status" ELSE "update"),
             recs' = [recs EXCEPT ![cur] = RecordRecommendation(@, desired)],
             made' = IF History THEN [made EXCEPT ![cur][0] = @ \union {desired}] ELSE made
      PROVE  /\ desired \in Nat /\ want' = NormalizeDesiredReplicas(cur, desired)
             /\ blind' => desired >= copy.graphd
             /\ pc' \in {"update", "status"} /\ want' \in Nat
  <2>1. desired \in Nat /\ (blind' => desired >= copy.graphd)
    BY <1>1, <1>8, MetricsTyped
  <2>2. want' = NormalizeDesiredReplicas(cur, desired) /\ pc' \in {"update", "status"}
    BY <1>8 DEF Decide
  <2>3. cur \in Autoscalers
    BY DEF Types
  <2>4. want' \in lim[1] .. lim[2]
    BY <1>8, <2>1, <2>2, <2>3, Normalized
  <2>5. want' \in Nat
    BY <1>2, <2>4
  <2> QED
    BY <2>1, <2>2, <2>5
<1> QED
  <2> DEFINE desired == IF Ambiguous(cur) THEN -1 ELSE ComputeReplicasForMetrics
  <2>1. CASE /\ copy.graphd \in lim[1] .. lim[2] /\ desired # -1
             /\ Decide(NormalizeDesiredReplicas(cur, desired),
                    IF NormalizeDesiredReplicas(cur, desired) = copy.graphd
                    THEN "status" ELSE "update")
             /\ recs' = [recs EXCEPT ![cur] = RecordRecommendation(@, desired)]
             /\ made' = IF History THEN [made EXCEPT ![cur][0] = @ \union {desired}] ELSE made
    <3>1. /\ desired \in Nat /\ want' = NormalizeDesiredReplicas(cur, desired)
          /\ blind' => desired >= copy.graphd
          /\ pc' \in {"update", "status"} /\ want' \in Nat
      BY <1>8, <2>1
    <3> HIDE DEF desired
    <3> QED
      BY <1>1, <1>3, <2>1, <3>1
  <2>2. CASE /\ copy.graphd \in lim[1] .. lim[2] /\ desired = -1
             /\ Decide(copy.graphd, "status") /\ UNCHANGED <<recs, made>>
    BY <1>7, <2>2
  <2> QED
    BY <1>4, <1>5, <1>6, <2>1, <2>2 DEF Compute

LEMMA ReconcileTyped ==
    ASSUME Types, NEW a \in Autoscalers, Reconcile(a)
    PROVE  Types'
<1>1. /\ cur' = a /\ UNCHANGED <<nc, hpa, load>>
  BY DEF Reconcile, objects
<1>2. << >> \in Seq(Rec) /\ << >> \in Seq(Event)
  BY EmptySeq
<1>3. 0 \in Ages
  BY AgesTyped DEF Ages
<1>4. CASE ~hpa[a].exists /\ Forget(a) /\ Finish(a) /\ UNCHANGED status
  <2>1. /\ recs' \in [Autoscalers -> Seq(Rec)] /\ ups' \in [Autoscalers -> Seq(Event)]
        /\ downs' \in [Autoscalers -> Seq(Event)]
        /\ made' \in [Autoscalers -> [Ages -> SUBSET Nat]]
    BY <1>2, <1>4 DEF Forget, Types
  <2>f. /\ pc' \in {"idle", "compute", "update", "status"} /\ copy' \in Specs
        /\ lim' \in Admissible \union {NoLimits} /\ want' \in Nat /\ blind' \in BOOLEAN
    BY <1>4, FinishTyped
  <2> QED
    BY <1>1, <1>4, <2>1, <2>f DEF Types
<1>5. CASE /\ status' = [status EXCEPT ![a].current = 0] /\ Finish(a)
           /\ UNCHANGED <<recs, ups, downs, history>>
  <2>1. status' \in [Autoscalers -> [current : Nat, desired : Nat]]
    BY <1>5 DEF Types
  <2>f. /\ pc' \in {"idle", "compute", "update", "status"} /\ copy' \in Specs
        /\ lim' \in Admissible \union {NoLimits} /\ want' \in Nat /\ blind' \in BOOLEAN
    BY <1>5, FinishTyped
  <2> QED
    BY <1>1, <1>5, <2>1, <2>f DEF Types, history
<1>6. CASE /\ copy' = [graphd |-> nc.graphd, storaged |-> nc.storaged]
           /\ lim' = hpa[a].limits
           /\ RecordInitialRecommendation(a)
           /\ made' = IF recs[a] # <<>> \/ ~History THEN made
                      ELSE [made EXCEPT ![a][0] = @ \union {nc.graphd}]
           /\ pc' = "compute"
           /\ UNCHANGED <<ran, status, want, blind, ups, downs, changed>>
  <2>1. nc.graphd \in Nat /\ nc.storaged \in {0, 1}
    BY DEF Types
  <2>2. copy' \in Specs
    BY <1>6, <2>1 DEF Specs
  <2>3. lim' \in Admissible
    BY <1>6 DEF Types
  <2>4. recs' \in [Autoscalers -> Seq(Rec)]
    <3>1. <<[rec |-> nc.graphd, age |-> 0]>> \in Seq(Rec)
      BY <2>1 DEF Rec
    <3> QED
      BY <1>6, <3>1 DEF RecordInitialRecommendation, Types
  <2>5. made' \in [Autoscalers -> [Ages -> SUBSET Nat]]
    BY <1>3, <1>6, <2>1 DEF Types
  <2> QED
    BY <1>1, <1>6, <2>2, <2>3, <2>4, <2>5 DEF Types
<1> QED
  BY <1>4, <1>5, <1>6 DEF Reconcile

LEMMA ComputeTyped == ASSUME Types, Compute PROVE Types'
<1>1. UNCHANGED <<nc, hpa, load, status, ups, downs>>
  BY DEF Compute, objects
<1>2. /\ pc = "compute" /\ cur' = cur /\ copy' = copy /\ lim' = lim
      /\ pc' \in {"update", "status"} /\ want' \in Nat /\ blind' \in BOOLEAN
  BY ComputeDecides
<1>3. 0 \in Ages
  BY AgesTyped DEF Ages
<1>4. /\ recs' \in [Autoscalers -> Seq(Rec)]
      /\ made' \in [Autoscalers -> [Ages -> SUBSET Nat]]
  <2>1. CASE UNCHANGED <<recs, made>>
    BY <2>1 DEF Types
  <2>2. ASSUME NEW desired \in Nat,
               recs' = [recs EXCEPT ![cur] = RecordRecommendation(@, desired)],
               made' = IF History THEN [made EXCEPT ![cur][0] = @ \union {desired}] ELSE made
        PROVE  /\ recs' \in [Autoscalers -> Seq(Rec)]
               /\ made' \in [Autoscalers -> [Ages -> SUBSET Nat]]
    <3>1. cur \in Autoscalers /\ recs[cur] \in Seq(Rec)
      BY DEF Types
    <3>2. RecordRecommendation(recs[cur], desired) \in Seq(Rec)
      BY <3>1, Recorded
    <3> QED
      BY <1>3, <2>2, <3>1, <3>2 DEF Types
  <2> QED
    BY <2>1, <2>2, ComputeDecides
<1> QED
  BY <1>1, <1>2, <1>4 DEF Types

LEMMA UpdateTyped == ASSUME Types, Update \/ UpdateFails PROVE Types'
<1>1. UNCHANGED <<hpa, load, recs, cur, made>>
  BY DEF Update, UpdateFails, memory, pass
<1>2. nc' \in [exists : BOOLEAN, graphd : Nat, storaged : {0, 1}]
  BY DEF Update, UpdateFails, WriteCluster, Types, Specs
<1>3. want \in Nat /\ copy.graphd \in Nat /\ cur \in Autoscalers
  BY DEF Types, Specs
<1>4. CASE Update
  <2>1. /\ pc' = "status" /\ UNCHANGED <<status, copy, lim, want, blind>>
    BY <1>4 DEF Update, pass
  <2>2. /\ ups' \in [Autoscalers -> Seq(Event)] /\ downs' \in [Autoscalers -> Seq(Event)]
    <3>1. CASE UNCHANGED <<ups, downs>>
      BY <3>1 DEF Types
    <3>2. CASE /\ want > copy.graphd /\ UNCHANGED downs
               /\ ups' = [ups EXCEPT ![cur] = StoreScaleEvent(@, Up, want - copy.graphd)]
      <4>1. want - copy.graphd \in Nat
        BY <1>3, <3>2
      <4>2. StoreScaleEvent(ups[cur], Up, want - copy.graphd) \in Seq(Event)
        BY <1>3, <4>1, EventStored DEF Types
      <4> QED
        BY <1>3, <3>2, <4>2 DEF Types
    <3>3. CASE /\ ~(want > copy.graphd) /\ UNCHANGED ups
               /\ downs' = [downs EXCEPT ![cur] = StoreScaleEvent(@, Down, copy.graphd - want)]
      <4>1. copy.graphd - want \in Nat
        BY <1>3, <3>3
      <4>2. StoreScaleEvent(downs[cur], Down, copy.graphd - want) \in Seq(Event)
        BY <1>3, <4>1, EventStored DEF Types
      <4> QED
        BY <1>3, <3>3, <4>2 DEF Types
    <3> QED
      BY <1>4, <3>1, <3>2, <3>3 DEF Update
  <2> QED
    BY <1>1, <1>2, <2>1, <2>2 DEF Types
<1>5. CASE UpdateFails
  <2>1. status' \in [Autoscalers -> [current : Nat, desired : Nat]]
    BY <1>3, <1>5 DEF UpdateFails, Types
  <2>2. UNCHANGED <<ups, downs>> /\ Finish(cur)
    BY <1>5 DEF UpdateFails, memory
  <2>f. /\ pc' \in {"idle", "compute", "update", "status"} /\ copy' \in Specs
        /\ lim' \in Admissible \union {NoLimits} /\ want' \in Nat /\ blind' \in BOOLEAN
    BY <1>3, <2>2, FinishTyped
  <2> QED
    BY <1>1, <1>2, <2>1, <2>2, <2>f DEF Types
<1> QED
  BY <1>4, <1>5

LEMMA OthersTyped ==
    ASSUME Types, SaveStatus \/ Restart \/ Tick \/ LoadChanges \/ UserChange
    PROVE  Types'
<1>1. CASE SaveStatus
  <2>1. cur \in Autoscalers /\ copy.graphd \in Nat /\ want \in Nat
    BY DEF Types, Specs
  <2>2. status' \in [Autoscalers -> [current : Nat, desired : Nat]]
    <3>1. [current |-> copy.graphd, desired |-> want] \in [current : Nat, desired : Nat]
      BY <2>1
    <3>2. status \in [Autoscalers -> [current : Nat, desired : Nat]]
      BY DEF Types
    <3> QED
      BY <1>1, <2>1, <3>1, <3>2 DEF SaveStatus
  <2>3. UNCHANGED <<objects, memory, cur, history>> /\ Finish(cur)
    BY <1>1 DEF SaveStatus
  <2>f. /\ pc' \in {"idle", "compute", "update", "status"} /\ copy' \in Specs
        /\ lim' \in Admissible \union {NoLimits} /\ want' \in Nat /\ blind' \in BOOLEAN
    BY <2>1, <2>3, FinishTyped
  <2> QED
    BY <2>2, <2>3, <2>f DEF Types, objects, memory, history
<1>2. CASE Restart
  <2>1. << >> \in Seq(Rec) /\ << >> \in Seq(Event)
    BY EmptySeq
  <2>2. /\ recs' \in [Autoscalers -> Seq(Rec)] /\ ups' \in [Autoscalers -> Seq(Event)]
        /\ downs' \in [Autoscalers -> Seq(Event)]
        /\ made' \in [Autoscalers -> [Ages -> SUBSET Nat]]
    BY <1>2, <2>1 DEF Restart, Nothing
  <2>3. pc' = "idle" /\ copy' \in Specs /\ lim' = NoLimits /\ want' = 0 /\ blind' = FALSE
        /\ UNCHANGED <<objects, status, cur>>
    BY <1>2 DEF Restart, Specs, Spec0
  <2> QED
    BY <2>2, <2>3 DEF Types, objects
<1>3. CASE Tick
  <2>1. UNCHANGED <<objects, status, pc, pass>>
    BY <1>3 DEF Tick
  <2>2. recs' \in [Autoscalers -> Seq(Rec)]
    BY <1>3, OlderKeeps DEF Tick, Types
  <2>3. ups' \in [Autoscalers -> Seq(Event)] /\ downs' \in [Autoscalers -> Seq(Event)]
    BY <1>3, OlderEvents DEF Tick, Types
  <2>4. made' \in [Autoscalers -> [Ages -> SUBSET Nat]]
    <3>1. \A g \in Ages : g # 0 => g - 1 \in Ages
      BY AgesTyped DEF Ages
    <3> QED
      BY <1>3, <3>1 DEF Tick, Types
  <2> QED
    BY <2>1, <2>2, <2>3, <2>4 DEF Types, objects, pass
<1>4. CASE LoadChanges
  BY <1>4 DEF LoadChanges, Types, memory, pass, history
<1>5. CASE UserChange
  <2>1. UserReplicas \subseteq Nat
    BY NumberAssumption
  <2>2. UNCHANGED <<load, status, memory, pc, pass, history>>
    BY <1>5 DEF UserChange
  <2>3. /\ nc' \in [exists : BOOLEAN, graphd : Nat, storaged : {0, 1}]
        /\ hpa' \in [Autoscalers -> [exists : BOOLEAN, limits : Admissible]]
    <3>1. CASE UNCHANGED hpa
      <4>1. nc' \in [exists : BOOLEAN, graphd : Nat, storaged : {0, 1}]
        BY <1>5, <2>1 DEF UserChange, Types
      <4> QED
        BY <3>1, <4>1 DEF Types
    <3>2. CASE UNCHANGED nc
      <4>1. hpa' \in [Autoscalers -> [exists : BOOLEAN, limits : Admissible]]
        <5>1. CASE UNCHANGED hpa
          BY <5>1 DEF Types
        <5>2. ASSUME NEW a \in Autoscalers, NEW l \in Limits, Admitted(l),
                     hpa' = [hpa EXCEPT ![a].limits = l]
              PROVE  hpa' \in [Autoscalers -> [exists : BOOLEAN, limits : Admissible]]
          <6>1. l \in Admissible
            BY <5>2 DEF Admissible
          <6> QED
            BY <5>2, <6>1 DEF Types
        <5>3. ASSUME NEW a \in Autoscalers, hpa' = [hpa EXCEPT ![a].exists = ~@]
              PROVE  hpa' \in [Autoscalers -> [exists : BOOLEAN, limits : Admissible]]
          <6>1. (~hpa[a].exists) \in BOOLEAN
            OBVIOUS
          <6> QED
            BY <5>3, <6>1, Zenon DEF Types
        <5> QED
          BY <1>5, <5>1, <5>2, <5>3 DEF UserChange
      <4> QED
        BY <3>2, <4>1 DEF Types
    <3> QED
      BY <1>5, <3>1, <3>2 DEF UserChange
  <2> QED
    BY <2>2, <2>3 DEF Types, memory, pass, history
<1> QED
  BY <1>1, <1>2, <1>3, <1>4, <1>5

LEMMA TypesNext == Types /\ [Next]_vars => Types'
<1>1. CASE UNCHANGED vars
  BY <1>1 DEF vars, Types, objects, memory, pass, history
<1> QED
  BY <1>1, ReconcileTyped, ComputeTyped, UpdateTyped, OthersTyped DEF Next, Controller

\* The types of the state: replicas and ages are never negative, and a pass
\* works with limits that the webhook admitted
THEOREM TypeCorrect == Spec => []Types
  BY TypesInit, TypesNext, PTL DEF Spec

---------------------------------------------------------------------------
(* What a pass decides *)

\* A pass that cannot read a metric takes nothing away within the limits
Sighted == pc = "update" /\ blind /\ copy.graphd <= lim[2] => want >= copy.graphd

DecideInv == Types /\ Sampled /\ InBounds /\ Sighted /\ StabilizedDown

LEMMA DecideInvInit == Init => DecideInv
<1> SUFFICES ASSUME Init PROVE DecideInv
  OBVIOUS
<1>1. Types
  BY TypesInit
<1>2. Sampled
  BY DEF Init, Sampled
<1> QED
  BY <1>1, <1>2 DEF Init, DecideInv, InBounds, Sighted, StabilizedDown

\* The samples of the window stay, and the new recommendation is one of them
LEMMA SampledNext ==
    ASSUME Types, Sampled, [Next]_vars
    PROVE  Sampled'
<1>t. /\ recs \in [Autoscalers -> Seq(Rec)] /\ made \in [Autoscalers -> [Ages -> SUBSET Nat]]
      /\ cur \in Autoscalers
  BY DEF Types
<1>1. CASE UNCHANGED <<recs, made>>
  BY <1>1 DEF Sampled
<1>2. ASSUME NEW a \in Autoscalers, Forget(a)
      PROVE  Sampled'
  <2>1. \A g \in Ages : made'[a][g] = {}
    BY <1>t, <1>2 DEF Forget
  <2>2. \A b \in Autoscalers \ {a} : made'[b] = made[b] /\ recs'[b] = recs[b]
    BY <1>t, <1>2 DEF Forget
  <2> QED
    BY <2>1, <2>2 DEF Sampled
<1>3. ASSUME NEW a \in Autoscalers, RecordInitialRecommendation(a),
             made' = IF recs[a] # <<>> \/ ~History THEN made
                     ELSE [made EXCEPT ![a][0] = @ \union {nc.graphd}]
      PROVE  Sampled'
  <2>1. CASE recs[a] # <<>>
    BY <1>1, <1>3, <2>1 DEF RecordInitialRecommendation
  <2>2. CASE recs[a] = <<>>
    <3> DEFINE s == <<[rec |-> nc.graphd, age |-> 0]>>
    <3>1. recs'[a] = s /\ \A b \in Autoscalers \ {a} : recs'[b] = recs[b]
      BY <1>t, <1>3, <2>2 DEF RecordInitialRecommendation
    <3>2. /\ \A b \in Autoscalers \ {a} : made'[b] = made[b]
          /\ \A g \in Ages : \A r \in made'[a][g] :
                r \in made[a][g] \/ (g = 0 /\ r = nc.graphd)
      BY <1>t, <1>3, <2>2
    <3>3. \A g \in Ages : g < DownWindow => made[a][g] = {}
      BY <2>2 DEF Sampled
    <3>4. 1 \in DOMAIN s /\ s[1].rec = nc.graphd /\ s[1].age = 0
      OBVIOUS
    <3>5. ASSUME NEW g \in Ages, g < DownWindow, NEW r \in made'[a][g]
          PROVE  \E i \in DOMAIN recs'[a] : recs'[a][i].rec = r /\ recs'[a][i].age = g
      <4>1. g = 0 /\ r = nc.graphd
        BY <3>2, <3>3, <3>5
      <4> QED
        BY <3>1, <3>4, <4>1
    <3> QED
      BY <3>1, <3>2, <3>5 DEF Sampled
  <2> QED
    BY <2>1, <2>2
<1>4. ASSUME NEW a \in Autoscalers, Reconcile(a)
      PROVE  Sampled'
  <2>1. \/ Forget(a)
        \/ UNCHANGED <<recs, made>>
        \/ /\ RecordInitialRecommendation(a)
           /\ made' = IF recs[a] # <<>> \/ ~History THEN made
                      ELSE [made EXCEPT ![a][0] = @ \union {nc.graphd}]
    BY <1>4 DEF Reconcile, history
  <2> QED
    BY <1>1, <1>2, <1>3, <2>1
<1>5. CASE Compute
  <2>1. CASE UNCHANGED <<recs, made>>
    BY <1>1, <2>1
  <2>2. ASSUME NEW desired \in Nat,
               recs' = [recs EXCEPT ![cur] = RecordRecommendation(@, desired)],
               made' = IF History THEN [made EXCEPT ![cur][0] = @ \union {desired}] ELSE made
        PROVE  Sampled'
    <3> DEFINE s == recs[cur]
               t == RecordRecommendation(s, desired)
    <3>1. recs'[cur] = t /\ \A b \in Autoscalers \ {cur} : recs'[b] = recs[b]
      BY <1>t, <2>2
    <3>2. /\ \A b \in Autoscalers \ {cur} : made'[b] = made[b]
          /\ \A g \in Ages : \A r \in made'[cur][g] :
                r \in made[cur][g] \/ (g = 0 /\ r = desired)
      BY <1>t, <2>2
    <3>3. s \in Seq(Rec)
      BY <1>t
    <3>4. /\ \E j \in DOMAIN t : t[j] = [rec |-> desired, age |-> 0]
          /\ \A i \in DOMAIN s : s[i].age < DownWindow => i \in DOMAIN t /\ t[i] = s[i]
      BY <3>3, Recorded
    <3>5. \A g \in Ages : g < DownWindow => \A r \in made[cur][g] :
             \E i \in DOMAIN s : s[i].rec = r /\ s[i].age = g
      BY <1>t DEF Sampled
    <3> HIDE DEF s, t
    <3>6. ASSUME NEW g \in Ages, g < DownWindow, NEW r \in made'[cur][g]
          PROVE  \E i \in DOMAIN t : t[i].rec = r /\ t[i].age = g
      <4>1. CASE r \in made[cur][g]
        <5>1. PICK i \in DOMAIN s : s[i].rec = r /\ s[i].age = g
          BY <3>5, <3>6, <4>1
        <5>2. i \in DOMAIN t /\ t[i] = s[i]
          BY <3>4, <3>6, <5>1
        <5> QED
          BY <5>1, <5>2
      <4>2. CASE g = 0 /\ r = desired
        BY <3>4, <4>2
      <4> QED
        BY <3>2, <3>6, <4>1, <4>2
    <3>7. SUFFICES ASSUME NEW a \in Autoscalers, NEW g \in Ages, g < DownWindow,
                          NEW r \in made'[a][g]
                   PROVE  \E i \in DOMAIN recs'[a] : recs'[a][i].rec = r /\ recs'[a][i].age = g
      BY DEF Sampled
    <3>8. CASE a = cur
      BY <3>1, <3>6, <3>7, <3>8
    <3>9. CASE a # cur
      <4>1. made'[a] = made[a] /\ recs'[a] = recs[a]
        BY <3>1, <3>2, <3>9
      <4> QED
        BY <3>7, <4>1 DEF Sampled
    <3> QED
      BY <3>8, <3>9
  <2> QED
    BY <1>5, <2>1, <2>2, ComputeDecides
<1>6. CASE Restart
  BY <1>6 DEF Restart, Sampled
<1>7. CASE Tick
  <2>1. SUFFICES ASSUME NEW a \in Autoscalers, NEW g \in Ages, g < DownWindow,
                        NEW r \in made'[a][g]
                 PROVE  \E i \in DOMAIN recs'[a] : recs'[a][i].rec = r /\ recs'[a][i].age = g
    BY DEF Sampled
  <2>2. /\ recs'[a] = Older(recs[a])
        /\ made'[a][g] = IF g = 0 THEN {} ELSE made[a][g - 1]
    BY <1>7 DEF Tick
  <2>3. g \in Nat /\ g # 0 /\ DownWindow \in Nat /\ OldAge \in Nat /\ g <= OldAge
    BY <2>1, <2>2, AgesTyped DEF Ages
  <2>4. g - 1 \in Ages /\ g - 1 < DownWindow /\ g - 1 < OldAge /\ (g - 1) + 1 = g
    BY <2>1, <2>3 DEF Ages
  <2>5. r \in made[a][g - 1]
    BY <2>1, <2>2, <2>3
  <2>6. PICK i \in DOMAIN recs[a] : recs[a][i].rec = r /\ recs[a][i].age = g - 1
    BY <2>4, <2>5 DEF Sampled
  <2>7. recs[a] \in Seq(Rec)
    BY <1>t
  <2>8. /\ i \in DOMAIN Older(recs[a]) /\ Older(recs[a])[i].rec = r
        /\ Older(recs[a])[i].age = g
    BY <2>4, <2>6, <2>7, OlderKeeps
  <2> QED
    BY <2>2, <2>8
<1>8. CASE Update \/ UpdateFails \/ SaveStatus \/ LoadChanges \/ UserChange
  BY <1>1, <1>8 DEF Update, UpdateFails, SaveStatus, LoadChanges, UserChange, memory, history
<1>9. CASE UNCHANGED vars
  BY <1>1, <1>9 DEF vars, memory, history
<1> QED
  BY <1>4, <1>5, <1>6, <1>7, <1>8, <1>9 DEF Next, Controller

\* Compute decides on a change that is within the limits and does not go below
\* what was recommended in the window
LEMMA DecideCompute ==
    ASSUME DecideInv, Compute
    PROVE  InBounds' /\ Sighted' /\ StabilizedDown'
<1>t. /\ lim[1] \in Nat /\ lim[2] \in Nat /\ lim[1] <= lim[2] /\ copy.graphd \in Nat
      /\ cur \in Autoscalers /\ recs \in [Autoscalers -> Seq(Rec)]
      /\ made \in [Autoscalers -> [Ages -> SUBSET Nat]]
      /\ Types
  BY LimTyped DEF DecideInv, Types, Specs
<1>1. cur' = cur /\ copy' = copy /\ lim' = lim
  BY <1>t, ComputeDecides
<1>2. CASE pc' = "status"
  BY <1>2 DEF InBounds, Sighted, StabilizedDown
<1>3. CASE /\ pc' = "update"
           /\ \/ copy.graphd > lim[2] /\ want' = lim[2]
              \/ copy.graphd < lim[1] /\ want' = lim[1]
  <2>1. want' \in lim[1] .. lim[2] /\ (copy.graphd <= lim[2] => want' >= copy.graphd)
        /\ (copy.graphd <= lim[2] => ~(want' < copy.graphd))
    BY <1>t, <1>3
  <2> QED
    BY <1>1, <2>1 DEF InBounds, Sighted, StabilizedDown
<1>4. ASSUME NEW desired \in Nat,
             copy.graphd \in lim[1] .. lim[2],
             want' = NormalizeDesiredReplicas(cur, desired),
             blind' => desired >= copy.graphd,
             made' = IF History THEN [made EXCEPT ![cur][0] = @ \union {desired}] ELSE made
      PROVE  InBounds' /\ Sighted' /\ StabilizedDown'
  <2>1. /\ want' \in lim[1] .. lim[2]
        /\ want' >= desired \/ want' >= copy.graphd
        /\ \A i \in DOMAIN recs[cur] :
              recs[cur][i].age < DownWindow => want' >= recs[cur][i].rec \/ want' >= copy.graphd
    BY <1>t, <1>4, Normalized
  <2>2. want' \in Nat
    BY <1>t, <2>1
  <2>3. InBounds'
    BY <1>1, <2>1 DEF InBounds
  <2>4. blind' => want' >= copy.graphd
    BY <1>t, <1>4, <2>1, <2>2
  <2>5. Sighted'
    BY <1>1, <2>4 DEF Sighted
  <2>6. ASSUME NEW g \in 0 .. DownWindow - 1, NEW r \in made'[cur][g]
        PROVE  r \in Nat /\ (want' >= r \/ want' >= copy.graphd)
    <3>1. g \in Ages /\ g < DownWindow
      BY AgesTyped DEF Ages
    <3>2. CASE r = desired
      BY <2>1, <3>2
    <3>3. CASE r \in made[cur][g]
      <4>1. PICK i \in DOMAIN recs[cur] : recs[cur][i].rec = r /\ recs[cur][i].age = g
        BY <1>t, <3>1, <3>3 DEF DecideInv, Sampled
      <4>2. r \in Nat
        BY <1>t, <3>1, <3>3
      <4> QED
        BY <2>1, <3>1, <4>1, <4>2
    <3>4. r \in made[cur][g] \/ r = desired
      BY <1>t, <1>4, <3>1
    <3> QED
      BY <3>2, <3>3, <3>4
  <2>7. StabilizedDown'
    <3>1. SUFFICES ASSUME NEW r \in Recommended(DownWindow)'
                   PROVE  want' >= Min({r, copy.graphd})
      BY <1>1 DEF StabilizedDown
    <3>2. PICK g \in 0 .. DownWindow - 1 : r \in made'[cur][g]
      BY <1>1, <3>1 DEF Recommended
    <3>3. r \in Nat /\ (want' >= r \/ want' >= copy.graphd)
      BY <2>6, <3>2
    <3>4. Min({r, copy.graphd}) = IF r <= copy.graphd THEN r ELSE copy.graphd
      <4> DEFINE c == copy.graphd
      <4>1. r \in Int /\ c \in Int
        BY <1>t, <3>3
      <4> HIDE DEF c
      <4>2. Min({r, c}) = IF r <= c THEN r ELSE c
        BY <4>1, MaxOfTwo
      <4> QED
        BY <4>2 DEF c
    <3> QED
      BY <1>t, <2>2, <3>3, <3>4
  <2> QED
    BY <2>3, <2>5, <2>7
<1> QED
  BY <1>t, <1>2, <1>3, <1>4, ComputeDecides

LEMMA DecideInvNext == DecideInv /\ [Next]_vars => DecideInv'
<1> SUFFICES ASSUME DecideInv, [Next]_vars PROVE DecideInv'
  OBVIOUS
<1>1. Types' /\ Sampled'
  BY TypesNext, SampledNext DEF DecideInv
<1>2. CASE Compute
  BY <1>1, <1>2, DecideCompute DEF DecideInv
<1>3. CASE pc' # "update"
  BY <1>1, <1>3 DEF DecideInv, InBounds, Sighted, StabilizedDown
<1>4. CASE UNCHANGED <<pc, cur, copy, lim, want, blind, made>>
  BY <1>1, <1>4 DEF DecideInv, InBounds, Sighted, StabilizedDown, Recommended
<1>5. ASSUME NEW a \in Autoscalers, Reconcile(a) PROVE pc' # "update"
  BY <1>5 DEF Reconcile, Finish
<1>6. CASE Update \/ UpdateFails \/ SaveStatus \/ Restart
  BY <1>3, <1>6 DEF Update, UpdateFails, SaveStatus, Restart, Finish
<1>7. CASE Tick
  BY <1>3, <1>7 DEF Tick
<1>8. CASE LoadChanges \/ UserChange \/ UNCHANGED vars
  BY <1>4, <1>8 DEF LoadChanges, UserChange, vars, pass, history
<1> QED
  BY <1>2, <1>3, <1>5, <1>6, <1>7, <1>8 DEF Next, Controller

\* InBounds for every instance: whatever rates and windows say, a change stays
\* within the limits that the pass read (autoscaler.go
\* convertDesiredReplicasWithRules, convertDesiredReplicasWithBehaviorRate)
THEOREM ChangeInBounds == Spec => []InBounds
<1>1. DecideInv => InBounds
  BY DEF DecideInv
<1> QED
  BY <1>1, DecideInvInit, DecideInvNext, PTL DEF Spec

\* StabilizedDown for every instance: nothing recommended in the window asks
\* for more than a pass leaves, however samples were replaced (autoscaler.go
\* stabilizeRecommendation, stabilizeRecommendationWithBehaviors)
THEOREM ShrinkStabilized == Spec => []StabilizedDown
<1>1. DecideInv => StabilizedDown
  BY DEF DecideInv
<1> QED
  BY <1>1, DecideInvInit, DecideInvNext, PTL DEF Spec

\* NoShrinkBlind for every instance: while a metric cannot be read no replicas
\* are taken away, unless there are more than the maximum (autoscaler.go
\* computeReplicasForMetrics)
THEOREM ShrinkSighted == Spec => NoShrinkBlind
<1>1. DecideInv /\ [Next]_vars => [~ShrinksBlind]_vars
  <2> SUFFICES ASSUME DecideInv, ShrinksBlind PROVE FALSE
    OBVIOUS
  <2>1. want \in Nat /\ copy.graphd \in Nat
    BY DEF DecideInv, Types, Specs
  <2>2. want >= copy.graphd /\ want < copy.graphd
    BY DEF DecideInv, Sighted, ShrinksBlind
  <2> QED
    BY <2>1, <2>2
<1> QED
  BY <1>1, DecideInvInit, DecideInvNext, PTL DEF Spec, NoShrinkBlind
=============================================================================
