--------------------------- MODULE ScheduleProofs ---------------------------
(***************************************************************************)
(* Theorems about the reader thread (ReaderSchedule), for every number of  *)
(* measurements, all intervals, and readouts of any length.  They are      *)
(* stated of a behaviour of BaseParts while it is that part's turn.  At    *)
(* the end, with the invariants of the others, the types of all parts.     *)
(***************************************************************************)
EXTENDS BaseProofs, Integers, FiniteSetTheorems, WellFoundedInduction

\* Whose turn it is does not change.
LEMMA ReaderTurn ==
  ASSUME [Next]_all
  PROVE  part' = part /\ (part = "schedule" => Reader!Next \/ UNCHANGED Reader!vars)
<1>1. CASE UNCHANGED all
  BY <1>1 DEF all, scheduleVars, Reader!vars
<1>2. CASE Next
  BY <1>2 DEF Next
<1> QED BY <1>1, <1>2

-----------------------------------------------------------------------------
(* Numbers *)

LEMMA Times ==
  ASSUME NEW r \in Nat, NEW a \in Nat, NEW b \in Nat
  PROVE  /\ r * a \in Nat /\ r * (a + 1) = r * a + r
         /\ a <= b => r * a <= r * b
<1>1. r * a \in Nat
  OBVIOUS
<1>2. r * (a + 1) = r * a + r
  OBVIOUS
<1>3. a <= b => r * a <= r * b
  <2> SUFFICES ASSUME a <= b PROVE r * a <= r * b
    OBVIOUS
  <2>1. PICK d \in Nat : b = a + d
    <3>1. b - a \in Nat /\ b = a + (b - a)
      OBVIOUS
    <3> QED BY <3>1
  <2>2. r * b = r * a + r * d /\ r * d >= 0
    BY <2>1
  <2> QED BY <1>1, <2>2
<1> QED BY <1>1, <1>2, <1>3

\* Max of FiniteSetsExt, of the sets it is used for.
LEMMA MaxIsGreatest ==
  ASSUME NEW S, NEW b \in Nat, S \subseteq 0..b, S # {}
  PROVE  Reader!Max(S) \in S /\ \A x \in S : x <= Reader!Max(S)
<1>1. \E x \in S : \A y \in S : x >= y
  <2> DEFINE T == {b - x : x \in S}
  <2>1. T \subseteq Nat /\ T # {}
    <3>1. \A x \in S : b - x \in Nat
      OBVIOUS
    <3>2. PICK x \in S : TRUE
      OBVIOUS
    <3>3. b - x \in T
      OBVIOUS
    <3> QED BY <3>1, <3>3
  <2>2. \E t \in T : \A u \in T : ~(<<u, t>> \in OpToRel(<, Nat))
    <3> HIDE DEF T
    <3> QED BY <2>1, NatLessThanWellFounded, WFMin
  <2>3. PICK t \in T : \A u \in T : ~(u < t)
    BY <2>1, <2>2 DEF OpToRel
  <2>4. PICK x \in S : t = b - x
    OBVIOUS
  <2>5. ASSUME NEW y \in S PROVE x >= y
    <3>1. b - y \in T
      OBVIOUS
    <3>2. ~(b - y < b - x)
      BY <2>3, <2>4, <3>1
    <3> QED BY <3>2
  <2> QED BY <2>5
<1>2. Reader!Max(S) \in S /\ \A y \in S : Reader!Max(S) >= y
  BY <1>1 DEF Reader!Max
<1> QED BY <1>2

LEMMA MaxOfTwo ==
  ASSUME NEW a \in Int, NEW b \in Int
  PROVE  Reader!Max({a, b}) = IF a >= b THEN a ELSE b
<1>1. \E x \in {a, b} : \A y \in {a, b} : x >= y
  OBVIOUS
<1>2. Reader!Max({a, b}) \in {a, b} /\ \A y \in {a, b} : Reader!Max({a, b}) >= y
  BY <1>1 DEF Reader!Max
<1> QED BY <1>2

\* The first readouts of a schedule are spread over less than an interval.
LEMMA Spread ==
  ASSUME NEW M \in Nat \ {0}, NEW n \in Nat \ {0}, NEW o \in 0..(n - 1)
  PROVE  M \div n \in Nat /\ o * (M \div n) \in 0..(M - 1)
<1>1. PICK s \in Nat, r \in 0..(n - 1) : s = M \div n /\ M = n * s + r
  <2>1. M \div n \in Nat /\ M % n \in 0..(n - 1) /\ M = n * (M \div n) + (M % n)
    OBVIOUS
  <2> QED BY <2>1
<1>2. s * o \in Nat /\ s * o <= s * (n - 1) /\ s * ((n - 1) + 1) = s * (n - 1) + s
      /\ s * (n - 1) \in Nat
  <2>1. n - 1 \in Nat /\ o \in Nat /\ o <= n - 1
    OBVIOUS
  <2> QED BY <2>1, Times
<1>3. s * o = o * s /\ n * s = s * ((n - 1) + 1)
  OBVIOUS
<1>4. o * s <= M - 1
  <2>1. CASE s = 0
    BY <2>1
  <2>2. CASE s > 0
    BY <1>1, <1>2, <1>3, <2>2
  <2> QED BY <2>1, <2>2
<1> QED BY <1>1, <1>2, <1>3, <1>4

-----------------------------------------------------------------------------
(* What the thread keeps *)

SchedType ==
  /\ registered \subseteq Measurement /\ DOMAIN due \subseteq registered
  /\ interval \in [Measurement -> 1..Ceiling]
  /\ \A m \in Measurement : interval[m] \in Intervals[m]
  /\ sinceRead \in [Measurement -> Nat]
  /\ \A m \in Measurement : m \notin DOMAIN due => sinceRead[m] = 0
  /\ \A m \in DOMAIN due : due[m] \in Int /\ due[m] <= Ceiling
  /\ schPc \in {"plan", "look", "sleep", "read", "stopped"}
  /\ current \in Measurement \cup {None} /\ spent \in 0..MaxRead
  /\ lHeartBeatPeriod \in Nat \ {0} /\ toBeat \in Int /\ toBeat <= lHeartBeatPeriod
  /\ promised \in 1..lHeartBeatPeriod
  /\ stopping \in Int /\ stopping >= -1 /\ changes \in 0..MaxChanges

\* The thread plans anew only for a measurement that is not planned, and reads one that was
\* due first and still is.
TurnInv ==
  /\ schPc = "plan" => registered # DOMAIN due \/ DOMAIN due = {}
  /\ schPc \in {"look", "sleep"} => DOMAIN due # {}
  /\ DOMAIN due # {} /\ registered # DOMAIN due => changes >= 1
  /\ schPc = "read" => /\ current \in DOMAIN due /\ due[current] + spent <= 0
                       /\ \A n \in DOMAIN due : due[current] <= due[n]

Awake == schPc = "sleep" \/ (schPc = "look" /\ stopping < 0)

\* What is overdue has waited for those that had their turn since, which are now due later,
\* and for the readout that was under way: at most this.
Later(d, m) == {n \in DOMAIN d : d[n] > d[m]}
Limit(d, m) == MaxRead * (Cardinality(Later(d, m)) + 1)
LateInv ==
  \A m \in DOMAIN due :
    /\ due[m] >= -Reader!Delay
    /\ Awake => due[m] >= -Limit(due, m)
    /\ schPc = "read" => (due[m] + spent > 0 \/ due[m] >= -(Limit(due, m) + spent))

\* The time between two readouts grows only with the schedules that were made anew.
Span == Ceiling + Reader!Delay
WaitedInv ==
  \A m \in DOMAIN due :
    /\ registered = DOMAIN due => sinceRead[m] + due[m] <= Ceiling + changes * Span
    /\ registered # DOMAIN due => sinceRead[m] + due[m] + Span <= Ceiling + changes * Span

StopInv ==
  /\ schPc \in {"look", "plan"} => stopping <= Ceiling + MaxRead
  /\ schPc = "sleep" => stopping <= Ceiling /\ \A m \in DOMAIN due : stopping + due[m] <= Ceiling
  /\ schPc = "read" => stopping <= Ceiling + spent

BeatInv ==
  /\ schPc \in {"look", "plan"} =>
       toBeat >= -(Ceiling + MaxRead) /\ (stopping < 0 => toBeat >= -1)
  /\ Awake => toBeat >= -Ceiling /\ \A m \in DOMAIN due : toBeat >= due[m] - Ceiling
  /\ schPc = "read" => toBeat >= -(Ceiling + spent)

ScheduleInv == SchedType /\ TurnInv /\ LateInv /\ WaitedInv /\ StopInv /\ BeatInv

SchedConstants ==
  /\ Ceiling \in Nat \ {0} /\ MaxRead \in Nat /\ MaxChanges \in Nat /\ Beat \in Nat \ {0}
  /\ IsFiniteSet(Measurement) /\ Measurement # {} /\ None \notin Measurement
  /\ \A m \in Measurement : Intervals[m] \subseteq 1..Ceiling /\ Intervals[m] # {}
  /\ Reader!Delay \in Nat /\ Span \in Nat /\ Span = Ceiling + Reader!Delay
  /\ Cardinality(Measurement) \in Nat
  /\ Reader!Delay = MaxRead * (Cardinality(Measurement) + 1)
LEMMA SameCardinality == \A S : Reader!Cardinality(S) = Cardinality(S)
BY DEF Reader!Cardinality, Cardinality
LEMMA ConstantFacts == SchedConstants
<1>0. \A S : Reader!IsFiniteSet(S) <=> IsFiniteSet(S)
  BY DEF Reader!IsFiniteSet, IsFiniteSet
<1>1. /\ Ceiling \in Nat \ {0} /\ MaxRead \in Nat /\ MaxChanges \in Nat /\ Beat \in Nat \ {0}
      /\ IsFiniteSet(Measurement) /\ Measurement # {} /\ None \notin Measurement
      /\ \A m \in Measurement : Intervals[m] \subseteq 1..Ceiling /\ Intervals[m] # {}
  BY <1>0, PartsAssumption DEF Reader!ScheduleAssumption
<1>4. Reader!Delay = MaxRead * (Cardinality(Measurement) + 1)
  BY SameCardinality DEF Reader!Delay
<1>2. Cardinality(Measurement) \in Nat
  BY <1>1, FS_CardinalityType
<1>3. MaxRead * (Cardinality(Measurement) + 1) \in Nat
  BY <1>1, <1>2, Times
<1> QED BY <1>1, <1>2, <1>3, <1>4 DEF SchedConstants, Span

\* The limit of a measurement lies between one readout and those of all.
LimitShape(d, m) ==
  /\ IsFiniteSet(Later(d, m)) /\ Cardinality(Later(d, m)) \in Nat
  /\ Limit(d, m) \in Nat /\ Limit(d, m) = MaxRead * (Cardinality(Later(d, m)) + 1)
  /\ Limit(d, m) >= MaxRead /\ Limit(d, m) + MaxRead <= Reader!Delay
LEMMA LimitFacts ==
  ASSUME NEW d, DOMAIN d \subseteq Measurement, \A n \in DOMAIN d : d[n] \in Int,
         NEW m \in DOMAIN d
  PROVE  LimitShape(d, m)
<1>1. SchedConstants
  BY ConstantFacts
<1>2. IsFiniteSet(Measurement) /\ Cardinality(Measurement) \in Nat /\ MaxRead \in Nat
  BY <1>1 DEF SchedConstants
<1>3. PICK L : L = Later(d, m)
  OBVIOUS
<1>4. L \in SUBSET Measurement /\ m \notin L /\ m \in Measurement
  BY <1>3 DEF Later
<1>5. IsFiniteSet(L)
  BY <1>2, <1>4, FS_Subset
<1>6. Cardinality(L) \in Nat
  BY <1>5, FS_CardinalityType
<1>7. Cardinality(L \cup {m}) = Cardinality(L) + 1
  BY <1>4, <1>5, FS_AddElement
<1>8. Cardinality(L) + 1 <= Cardinality(Measurement)
  <2>1. L \cup {m} \in SUBSET Measurement
    BY <1>4
  <2>2. Cardinality(L \cup {m}) <= Cardinality(Measurement)
    BY <1>2, <2>1, FS_Subset
  <2> QED BY <1>7, <2>2
<1>9. PICK c \in Nat : c = Cardinality(L)
  BY <1>6
<1>10. PICK n \in Nat : n = Cardinality(Measurement)
  BY <1>2
<1>11. /\ MaxRead * (c + 1) \in Nat /\ MaxRead * (c + 1) = MaxRead * c + MaxRead
       /\ MaxRead * c \in Nat
       /\ MaxRead * (c + 1) <= MaxRead * n /\ MaxRead * (n + 1) = MaxRead * n + MaxRead
       /\ MaxRead * n \in Nat
  BY <1>2, <1>8, <1>9, <1>10, Times
<1>12. Limit(d, m) = MaxRead * (c + 1) /\ Reader!Delay = MaxRead * (n + 1)
  BY <1>1, <1>3, <1>9, <1>10 DEF Limit, SchedConstants
<1> QED BY <1>2, <1>3, <1>5, <1>6, <1>9, <1>11, <1>12 DEF LimitShape

LEMMA ScheduleInit == Reader!Init => ScheduleInv
<1> SUFFICES ASSUME Reader!Init PROVE ScheduleInv
  OBVIOUS
<1>1. SchedConstants
  BY ConstantFacts
<1>2. /\ registered \in {{}, {CHOOSE m \in Measurement : TRUE}, Measurement}
      /\ interval = [m \in Measurement |-> Reader!Max(Intervals[m])]
      /\ DOMAIN due = {} /\ schPc = "plan" /\ current = None /\ spent = 0
      /\ lHeartBeatPeriod = Beat /\ toBeat = Beat /\ promised = Beat
      /\ sinceRead = [m \in Measurement |-> 0] /\ stopping = -1 /\ changes = 0
  BY DEF Reader!Init
<1>3. registered \subseteq Measurement
  BY <1>1, <1>2 DEF SchedConstants
<1>4. ASSUME NEW m \in Measurement
      PROVE  Reader!Max(Intervals[m]) \in Intervals[m] /\ Reader!Max(Intervals[m]) \in 1..Ceiling
  <2>1. Ceiling \in Nat /\ Intervals[m] \subseteq 1..Ceiling /\ Intervals[m] # {}
    BY <1>1, <1>4 DEF SchedConstants
  <2>2. Intervals[m] \subseteq 0..Ceiling
    BY <2>1
  <2>3. Reader!Max(Intervals[m]) \in Intervals[m]
    BY <2>1, <2>2, MaxIsGreatest
  <2> QED BY <2>1, <2>3
<1>5. SchedType
  BY <1>1, <1>2, <1>3, <1>4 DEF SchedType, SchedConstants
<1>6. TurnInv /\ LateInv /\ WaitedInv
  BY <1>2 DEF TurnInv, LateInv, WaitedInv
<1>7. StopInv /\ BeatInv
  BY <1>1, <1>2 DEF StopInv, BeatInv, Awake, SchedConstants
<1> QED BY <1>5, <1>6, <1>7 DEF ScheduleInv

\* A new schedule.
LEMMA PlanStep ==
  ASSUME ScheduleInv, Reader!Plan
  PROVE  ScheduleInv'
<1>1. SchedConstants /\ SchedType
  BY ConstantFacts DEF ScheduleInv
<1>2. /\ schPc = "plan" /\ registered # {} /\ schPc' = "look"
      /\ lHeartBeatPeriod' = Reader!Max({lHeartBeatPeriod, Reader!Spacing})
      /\ UNCHANGED <<registered, interval, current, spent, toBeat, promised, sinceRead,
                     stopping, changes>>
  BY DEF Reader!Plan
<1>3. PICK order \in [registered -> 0..(Cardinality(registered) - 1)] :
        due' = [m \in registered |-> order[m] * Reader!Spacing]
  BY SameCardinality DEF Reader!Plan
<1>4. PICK n \in Nat \ {0} : n = Cardinality(registered)
  <2>1. IsFiniteSet(registered)
    BY <1>1, FS_Subset DEF SchedConstants, SchedType
  <2>2. Cardinality(registered) \in Nat /\ Cardinality(registered) # 0
    BY <1>2, <2>1, FS_CardinalityType, FS_EmptySet
  <2> QED BY <2>2
<1>5. PICK M \in 1..Ceiling : Reader!Spacing = M \div n
  <2> DEFINE S == {interval[m] : m \in registered}
  <2>1. S \subseteq 1..Ceiling /\ S # {}
    BY <1>1, <1>2 DEF SchedType
  <2>2. Ceiling \in Nat /\ S \subseteq 0..Ceiling
    BY <1>1, <2>1 DEF SchedConstants
  <2>3. Reader!Max(S) \in S
    <3> HIDE DEF S
    <3> QED BY <2>1, <2>2, MaxIsGreatest
  <2>4. Reader!Spacing = Reader!Max(S) \div n
    BY <1>4, SameCardinality DEF Reader!Spacing
  <2> QED BY <2>1, <2>3, <2>4
<1>6. PICK s \in Nat : s = Reader!Spacing
  <2>1. 0 \in 0..(n - 1) /\ M \in Nat \ {0}
    BY <1>1 DEF SchedConstants
  <2> QED BY <1>5, <2>1, Spread
<1>7. DOMAIN due' = registered /\ \A m \in registered : due'[m] \in 0..(Ceiling - 1)
  <2>1. ASSUME NEW m \in registered PROVE due'[m] \in 0..(Ceiling - 1)
    <3>1. PICK o \in 0..(n - 1) : o = order[m]
      BY <1>3, <1>4
    <3>2. M \in Nat \ {0} /\ Ceiling \in Nat /\ M <= Ceiling
      BY <1>1 DEF SchedConstants
    <3>3. o * (M \div n) \in 0..(M - 1)
      BY <3>2, Spread
    <3>4. due'[m] = o * (M \div n)
      BY <1>3, <1>5, <3>1
    <3> QED BY <3>2, <3>3, <3>4
  <2> QED BY <1>3, <2>1
<1>8. lHeartBeatPeriod' \in Nat /\ lHeartBeatPeriod' >= lHeartBeatPeriod
  <2>1. lHeartBeatPeriod \in Int /\ s \in Int
    BY <1>1 DEF SchedType
  <2>2. lHeartBeatPeriod' = IF lHeartBeatPeriod >= s THEN lHeartBeatPeriod ELSE s
    BY <1>2, <1>6, <2>1, MaxOfTwo
  <2> QED BY <1>1, <2>2 DEF SchedType
<1>9. SchedType'
  <2>1. \A m \in Measurement : m \notin DOMAIN due' => sinceRead[m] = 0
    BY <1>1, <1>7 DEF SchedType
  <2>2. \A m \in DOMAIN due' : due'[m] \in Int /\ due'[m] <= Ceiling
    BY <1>1, <1>7 DEF SchedConstants
  <2>3. /\ lHeartBeatPeriod' \in Nat \ {0} /\ toBeat <= lHeartBeatPeriod'
        /\ promised \in 1..lHeartBeatPeriod'
    BY <1>1, <1>8 DEF SchedType
  <2> QED BY <1>1, <1>2, <1>7, <2>1, <2>2, <2>3 DEF SchedType
<1>10. TurnInv'
  BY <1>2, <1>7 DEF TurnInv
<1>11. LateInv'
  <2>1. ASSUME NEW m \in DOMAIN due'
        PROVE  due'[m] >= -Reader!Delay /\ due'[m] >= -Limit(due', m)
    <3>1. DOMAIN due' \subseteq Measurement /\ \A k \in DOMAIN due' : due'[k] \in Int
      BY <1>1, <1>7 DEF SchedType
    <3>2. LimitShape(due', m)
      BY <2>1, <3>1, LimitFacts
    <3>3. Limit(due', m) \in Nat /\ Reader!Delay \in Nat /\ due'[m] >= 0 /\ due'[m] \in Int
      BY <1>1, <1>7, <2>1, <3>2 DEF LimitShape, SchedConstants
    <3> QED BY <3>3
  <2>2. Reader!Delay' = Reader!Delay
    BY DEF Reader!Delay
  <2> QED BY <1>2, <2>1, <2>2 DEF LateInv
<1>12. WaitedInv'
  <2>1. ASSUME NEW m \in DOMAIN due'
        PROVE  sinceRead[m] + due'[m] <= Ceiling + changes * Span
    <3>1. PICK c \in Nat : c = changes * Span
      <4>1. changes \in Nat /\ Span \in Nat
        BY <1>1 DEF SchedType, SchedConstants
      <4>2. Span * changes \in Nat /\ Span * changes = changes * Span
        BY <4>1, Times
      <4> QED BY <4>2
    <3>2. /\ due'[m] \in Nat /\ due'[m] <= Ceiling /\ m \in Measurement
          /\ sinceRead[m] \in Nat /\ Ceiling \in Nat /\ Reader!Delay \in Nat
          /\ Span = Ceiling + Reader!Delay
      BY <1>1, <1>7, <2>1 DEF SchedType, SchedConstants
    <3>3. CASE m \notin DOMAIN due
      <4>1. sinceRead[m] = 0
        BY <1>1, <3>2, <3>3 DEF SchedType
      <4> QED BY <3>1, <3>2, <4>1
    <3>4. CASE m \in DOMAIN due
      <4>1. due[m] \in Int
        BY <1>1, <3>4 DEF SchedType
      <4>2. registered # DOMAIN due
        BY <1>2, <3>4 DEF ScheduleInv, TurnInv
      <4>3. sinceRead[m] + due[m] + Span <= Ceiling + c
        BY <3>1, <3>4, <4>2 DEF ScheduleInv, WaitedInv
      <4>4. due[m] >= -Reader!Delay
        BY <3>4 DEF ScheduleInv, LateInv
      <4> QED BY <3>1, <3>2, <4>1, <4>3, <4>4
    <3> QED BY <3>3, <3>4
  <2>2. Span' = Span
    BY DEF Span, Reader!Delay
  <2> QED BY <1>2, <1>7, <2>1, <2>2 DEF WaitedInv
<1>13. StopInv'
  BY <1>2 DEF ScheduleInv, StopInv
<1>14. BeatInv'
  <2>1. /\ toBeat >= -(Ceiling + MaxRead) /\ (stopping < 0 => toBeat >= -1) /\ toBeat \in Int
        /\ Ceiling \in Nat \ {0}
    BY <1>1, <1>2 DEF ScheduleInv, BeatInv, SchedType, SchedConstants
  <2>2. stopping < 0 => toBeat >= -Ceiling /\ \A m \in DOMAIN due' : toBeat >= due'[m] - Ceiling
    BY <1>7, <2>1
  <2> QED BY <1>2, <2>1, <2>2 DEF BeatInv, Awake
<1> QED BY <1>9, <1>10, <1>11, <1>12, <1>13, <1>14 DEF ScheduleInv

\* A readout is over, and the next one of the same measurement planned.
LEMMA RescheduleStep ==
  ASSUME ScheduleInv, Reader!Reschedule
  PROVE  ScheduleInv'
<1>1. SchedConstants /\ SchedType
  BY ConstantFacts DEF ScheduleInv
<1>2. PICK p : p = current
  OBVIOUS
<1>3. /\ schPc = "read" /\ schPc' = "look" /\ current' = None
      /\ due' = [due EXCEPT ![p] = interval[p] - spent]
      /\ sinceRead' = [sinceRead EXCEPT ![p] = 0]
      /\ UNCHANGED <<registered, interval, spent, lHeartBeatPeriod, stopping, changes>>
  BY <1>2 DEF Reader!Reschedule
<1>4. /\ toBeat < 0 => toBeat' = lHeartBeatPeriod /\ promised' = lHeartBeatPeriod
      /\ toBeat >= 0 => UNCHANGED <<toBeat, promised>>
  <2>1. toBeat \in Int
    BY <1>1 DEF SchedType
  <2> QED BY <2>1 DEF Reader!Reschedule, Reader!BeatIfDue
<1>5. /\ p \in DOMAIN due /\ p \in Measurement /\ due[p] + spent <= 0
      /\ \A n \in DOMAIN due : due[p] <= due[n] /\ due[n] \in Int
      /\ spent \in 0..MaxRead /\ MaxRead \in Nat /\ Ceiling \in Nat /\ interval[p] \in 1..Ceiling
      /\ DOMAIN due \subseteq Measurement
  BY <1>1, <1>2, <1>3 DEF ScheduleInv, TurnInv, SchedType, SchedConstants
<1>6. /\ DOMAIN due' = DOMAIN due /\ due'[p] = interval[p] - spent
      /\ \A m \in DOMAIN due : m # p => due'[m] = due[m]
  BY <1>3, <1>5
<1>7. due'[p] \in Int /\ due'[p] <= Ceiling /\ due'[p] >= 1 - spent /\ due'[p] >= -MaxRead
  BY <1>5, <1>6
<1>8. /\ sinceRead' \in [Measurement -> Nat] /\ sinceRead'[p] = 0
      /\ \A m \in Measurement : m # p => sinceRead'[m] = sinceRead[m]
  BY <1>1, <1>3, <1>5 DEF SchedType
<1>9. SchedType'
  <2>1. \A m \in DOMAIN due' : due'[m] \in Int /\ due'[m] <= Ceiling
    BY <1>1, <1>6, <1>7 DEF SchedType
  <2>2. \A m \in Measurement : m \notin DOMAIN due' => sinceRead'[m] = 0
    BY <1>1, <1>6, <1>8 DEF SchedType
  <2>3. toBeat' \in Int /\ toBeat' <= lHeartBeatPeriod /\ promised' \in 1..lHeartBeatPeriod
    BY <1>1, <1>4 DEF SchedType
  <2> QED BY <1>1, <1>3, <1>6, <1>8, <2>1, <2>2, <2>3 DEF SchedType
<1>10. TurnInv'
  BY <1>3, <1>5, <1>6 DEF ScheduleInv, TurnInv
<1>11. LateInv'
  <2>1. ASSUME NEW m \in DOMAIN due'
        PROVE  due'[m] >= -Reader!Delay /\ due'[m] >= -Limit(due', m)
    <3>1. m \in DOMAIN due /\ due[m] \in Int
      BY <1>5, <1>6, <2>1
    <3>2. LimitShape(due', m) /\ LimitShape(due, m)
      <4>1. \A n \in DOMAIN due' : due'[n] \in Int
        BY <1>5, <1>6, <1>7
      <4> QED BY <1>5, <1>6, <3>1, <4>1, LimitFacts
    <3>3. /\ Limit(due', m) \in Nat /\ Limit(due, m) \in Nat /\ Reader!Delay \in Nat
          /\ Limit(due', m) >= MaxRead /\ Limit(due', m) + MaxRead <= Reader!Delay
      BY <1>1, <3>2 DEF LimitShape, SchedConstants
    <3>4. due'[m] >= -Limit(due', m)
      <4>1. CASE m = p
        BY <1>5, <1>7, <3>3, <4>1
      <4>2. CASE m # p /\ due[m] + spent > 0
        <5>1. due'[m] = due[m]
          BY <1>6, <3>1, <4>2
        <5> QED BY <1>5, <3>1, <3>3, <4>2, <5>1
      <4>3. CASE m # p /\ due[m] + spent <= 0
        <5>1. Later(due', m) = Later(due, m) \cup {p} /\ p \notin Later(due, m)
          <6>1. due'[m] = due[m] /\ due'[p] > due[m]
            BY <1>5, <1>6, <1>7, <3>1, <4>3
          <6>2. ~(due[p] > due[m])
            BY <1>5, <3>1
          <6> QED BY <1>5, <1>6, <6>1, <6>2 DEF Later
        <5>2. PICK c \in Nat : c = Cardinality(Later(due, m))
          BY <3>2 DEF LimitShape
        <5>3. Cardinality(Later(due', m)) = c + 1
          <6>1. IsFiniteSet(Later(due, m))
            BY <3>2 DEF LimitShape
          <6> QED BY <5>1, <5>2, <6>1, FS_AddElement
        <5>4. /\ Limit(due', m) = MaxRead * ((c + 1) + 1) /\ Limit(due, m) = MaxRead * (c + 1)
          BY <3>2, <5>2, <5>3 DEF LimitShape
        <5>5. MaxRead * ((c + 1) + 1) = MaxRead * (c + 1) + MaxRead
          BY <1>5, Times
        <5>6. due[m] >= -(Limit(due, m) + spent)
          BY <1>3, <1>5, <3>1, <4>3 DEF ScheduleInv, LateInv
        <5>7. due'[m] = due[m]
          BY <1>6, <3>1, <4>3
        <5> QED BY <1>5, <3>1, <3>3, <5>4, <5>5, <5>6, <5>7
      <4> QED BY <1>5, <3>1, <4>1, <4>2, <4>3
    <3>5. due'[m] \in Int
      BY <1>5, <1>6, <1>7, <3>1
    <3> QED BY <1>5, <3>3, <3>4, <3>5
  <2>2. Reader!Delay' = Reader!Delay
    BY DEF Reader!Delay
  <2> QED BY <1>3, <2>1, <2>2 DEF LateInv
<1>12. WaitedInv'
  <2>1. PICK c \in Nat : c = changes * Span
    <3>1. changes \in Nat /\ Span \in Nat
      BY <1>1 DEF SchedType, SchedConstants
    <3>2. Span * changes \in Nat /\ Span * changes = changes * Span
      BY <3>1, Times
    <3> QED BY <3>2
  <2>2. Span' = Span /\ changes' = changes /\ registered' = registered
    BY <1>3 DEF Span, Reader!Delay
  <2>3. ASSUME NEW m \in DOMAIN due
        PROVE  /\ registered = DOMAIN due => sinceRead'[m] + due'[m] <= Ceiling + c
               /\ registered # DOMAIN due => sinceRead'[m] + due'[m] + Span <= Ceiling + c
    <3>1. /\ registered = DOMAIN due => sinceRead[m] + due[m] <= Ceiling + c
          /\ registered # DOMAIN due => sinceRead[m] + due[m] + Span <= Ceiling + c
      BY <2>1, <2>3 DEF ScheduleInv, WaitedInv
    <3>2. CASE m # p
      BY <1>5, <1>6, <1>8, <2>3, <3>1, <3>2
    <3>3. CASE m = p
      <4>1. registered # DOMAIN due => c >= Span
        <5> SUFFICES ASSUME registered # DOMAIN due PROVE c >= Span
          OBVIOUS
        <5>1. changes >= 1 /\ changes \in Nat /\ Span \in Nat
          BY <1>1, <2>3 DEF ScheduleInv, TurnInv, SchedType, SchedConstants
        <5>2. Span * 1 <= Span * changes /\ Span * changes = changes * Span /\ Span * 1 = Span
          BY <5>1, Times
        <5> QED BY <2>1, <5>2
      <4>2. Span \in Nat
        BY <1>1 DEF SchedConstants
      <4> QED BY <1>5, <1>7, <1>8, <2>1, <3>3, <4>1, <4>2
    <3> QED BY <3>2, <3>3
  <2> QED BY <1>6, <2>1, <2>2, <2>3 DEF WaitedInv
<1>13. StopInv'
  BY <1>1, <1>3 DEF ScheduleInv, StopInv, SchedType, SchedConstants
<1>14. BeatInv'
  <2>1. toBeat' >= 0 /\ toBeat' \in Int
    BY <1>1, <1>4 DEF SchedType
  <2>2. \A m \in DOMAIN due' : due'[m] <= Ceiling /\ due'[m] \in Int
    BY <1>9 DEF SchedType
  <2> QED BY <1>3, <1>5, <2>1, <2>2 DEF BeatInv, Awake
<1> QED BY <1>9, <1>10, <1>11, <1>12, <1>13, <1>14 DEF ScheduleInv

\* Time passes.
LEMMA TickStep ==
  ASSUME ScheduleInv, Reader!Tick
  PROVE  ScheduleInv'
<1>1. SchedConstants /\ SchedType
  BY ConstantFacts DEF ScheduleInv
<1>2. /\ \/ schPc = "sleep" /\ \A m \in DOMAIN due : due[m] > 0
         \/ schPc = "read" /\ spent < MaxRead
         \/ schPc = "plan" /\ registered = {} /\ toBeat >= 0 /\ stopping < 0
      /\ spent' = (IF schPc = "read" THEN spent + 1 ELSE spent)
      /\ due' = [m \in DOMAIN due |-> due[m] - 1]
      /\ toBeat' = toBeat - 1
      /\ sinceRead' = [m \in Measurement |-> IF m \in DOMAIN due THEN sinceRead[m] + 1 ELSE 0]
      /\ stopping' = (IF stopping >= 0 THEN stopping + 1 ELSE stopping)
      /\ UNCHANGED <<registered, interval, schPc, current, lHeartBeatPeriod, promised, changes>>
  <2>1. stopping \in Int
    BY <1>1 DEF SchedType
  <2> QED BY <2>1 DEF Reader!Tick, Reader!Stopping
<1>3. /\ DOMAIN due' = DOMAIN due /\ \A m \in DOMAIN due : due'[m] = due[m] - 1
      /\ \A m \in DOMAIN due : due[m] \in Int
      /\ DOMAIN due \subseteq registered /\ registered \subseteq Measurement
  BY <1>1, <1>2 DEF SchedType
<1>4. /\ sinceRead' \in [Measurement -> Nat]
      /\ \A m \in DOMAIN due : sinceRead'[m] = sinceRead[m] + 1 /\ sinceRead[m] \in Nat
      /\ \A m \in Measurement : m \notin DOMAIN due => sinceRead'[m] = 0
  BY <1>1, <1>2, <1>3 DEF SchedType
<1>5. /\ spent \in 0..MaxRead /\ MaxRead \in Nat /\ Ceiling \in Nat \ {0} /\ toBeat \in Int
      /\ stopping \in Int /\ stopping >= -1 /\ Reader!Delay \in Nat
  BY <1>1 DEF SchedType, SchedConstants
<1>6. SchedType'
  <2>1. \A m \in DOMAIN due' : due'[m] \in Int /\ due'[m] <= Ceiling
    BY <1>1, <1>3, <1>5 DEF SchedType
  <2>2. spent' \in 0..MaxRead
    BY <1>2, <1>5
  <2>3. toBeat' \in Int /\ toBeat' <= lHeartBeatPeriod /\ stopping' \in Int /\ stopping' >= -1
    BY <1>1, <1>2, <1>5 DEF SchedType
  <2> QED BY <1>1, <1>2, <1>3, <1>4, <2>1, <2>2, <2>3 DEF SchedType
<1>7. TurnInv'
  <2>1. schPc = "read" => /\ current \in DOMAIN due' /\ due'[current] + spent' <= 0
                          /\ \A n \in DOMAIN due' : due'[current] <= due'[n]
    BY <1>2, <1>3, <1>5 DEF ScheduleInv, TurnInv
  <2> QED BY <1>2, <1>3, <2>1 DEF ScheduleInv, TurnInv
<1>8. LateInv'
  <2>1. ASSUME NEW m \in DOMAIN due'
        PROVE  /\ due'[m] >= -Reader!Delay
               /\ Awake' => due'[m] >= -Limit(due', m)
               /\ schPc = "read" =>
                    (due'[m] + spent' > 0 \/ due'[m] >= -(Limit(due', m) + spent'))
    <3>1. m \in DOMAIN due /\ due[m] \in Int /\ due'[m] = due[m] - 1
      BY <1>3, <2>1
    <3>2. Limit(due', m) = Limit(due, m)
      <4>1. \A n \in DOMAIN due : due'[n] > due'[m] <=> due[n] > due[m]
        BY <1>3, <3>1
      <4>2. Later(due', m) = Later(due, m)
        BY <1>3, <4>1 DEF Later
      <4> QED BY <4>2 DEF Limit
    <3>3. LimitShape(due, m)
      BY <1>3, <3>1, LimitFacts
    <3>4. Limit(due, m) \in Nat /\ Limit(due, m) + MaxRead <= Reader!Delay
      BY <3>3 DEF LimitShape
    <3>5. CASE schPc = "read" /\ spent < MaxRead
      <4>1. due[m] + spent > 0 \/ due[m] >= -(Limit(due, m) + spent)
        BY <3>1, <3>5 DEF ScheduleInv, LateInv
      <4>2. spent' = spent + 1 /\ schPc' = "read"
        BY <1>2, <3>5
      <4>3. due'[m] + spent' > 0 \/ due'[m] >= -(Limit(due, m) + spent')
        BY <1>5, <3>1, <3>4, <4>1, <4>2
      <4>4. due'[m] >= -Reader!Delay
        BY <1>5, <3>1, <3>4, <3>5, <4>1
      <4> QED BY <3>2, <4>2, <4>3, <4>4 DEF Awake
    <3>6. CASE schPc = "sleep" /\ \A n \in DOMAIN due : due[n] > 0
      BY <1>5, <3>1, <3>2, <3>4, <3>6
    <3>7. schPc # "plan" \/ registered # {}
      BY <1>3, <3>1
    <3> QED BY <1>2, <3>5, <3>6, <3>7
  <2>2. Reader!Delay' = Reader!Delay
    BY DEF Reader!Delay
  <2> QED BY <1>2, <2>1, <2>2 DEF LateInv
<1>9. WaitedInv'
  <2>1. ASSUME NEW m \in DOMAIN due PROVE sinceRead'[m] + due'[m] = sinceRead[m] + due[m]
    BY <1>3, <1>4, <2>1
  <2>2. Span' = Span /\ changes' = changes /\ registered' = registered
    BY <1>2 DEF Span, Reader!Delay
  <2> QED BY <1>3, <2>1, <2>2 DEF ScheduleInv, WaitedInv
<1>10. StopInv'
  <2>1. CASE schPc = "sleep" /\ \A n \in DOMAIN due : due[n] > 0
    <3>1. PICK m \in DOMAIN due : due[m] > 0
      BY <2>1 DEF ScheduleInv, TurnInv
    <3>2. \A n \in DOMAIN due : stopping + due[n] <= Ceiling
      BY <2>1 DEF ScheduleInv, StopInv
    <3>3. stopping' <= Ceiling
      BY <1>2, <1>3, <1>5, <3>1, <3>2
    <3>4. \A n \in DOMAIN due' : stopping' + due'[n] <= Ceiling
      <4>1. \A n \in DOMAIN due : due[n] - 1 <= Ceiling
        BY <1>1, <1>3, <1>5 DEF SchedType
      <4>2. \A n \in DOMAIN due : due[n] <= Ceiling
        BY <1>1 DEF SchedType
      <4> QED BY <1>2, <1>3, <1>5, <3>2, <4>2
    <3> QED BY <1>2, <2>1, <3>3, <3>4 DEF StopInv
  <2>2. CASE schPc = "read"
    BY <1>2, <1>5, <2>2 DEF ScheduleInv, StopInv
  <2>3. CASE schPc = "plan" /\ stopping < 0
    BY <1>2, <1>5, <2>3 DEF StopInv
  <2> QED BY <1>2, <2>1, <2>2, <2>3
<1>11. BeatInv'
  <2>1. CASE schPc = "sleep" /\ \A n \in DOMAIN due : due[n] > 0
    <3>1. PICK m \in DOMAIN due : due[m] > 0
      BY <2>1 DEF ScheduleInv, TurnInv
    <3>2. \A n \in DOMAIN due : toBeat >= due[n] - Ceiling
      BY <2>1 DEF ScheduleInv, BeatInv, Awake
    <3>3. toBeat' >= -Ceiling
      BY <1>2, <1>3, <1>5, <3>1, <3>2
    <3>4. \A n \in DOMAIN due' : toBeat' >= due'[n] - Ceiling
      BY <1>2, <1>3, <1>5, <3>2
    <3> QED BY <1>2, <2>1, <3>3, <3>4 DEF BeatInv
  <2>2. CASE schPc = "read"
    BY <1>2, <1>5, <2>2 DEF ScheduleInv, BeatInv, Awake
  <2>3. CASE schPc = "plan" /\ toBeat >= 0
    BY <1>2, <1>5, <2>3 DEF BeatInv, Awake
  <2> QED BY <1>2, <2>1, <2>2, <2>3
<1> QED BY <1>6, <1>7, <1>8, <1>9, <1>10, <1>11 DEF ScheduleInv

\* The steps that do not touch the schedule.
LEMMA OtherStep ==
  ASSUME ScheduleInv, due' = due, sinceRead' = sinceRead, spent' = spent \/ schPc' = "read",
         SchedType', TurnInv', StopInv', BeatInv',
         \/ changes' = changes /\ registered' = registered
         \/ changes' = changes + 1 /\ DOMAIN due \subseteq registered
              /\ (registered' = DOMAIN due => registered = DOMAIN due),
         Awake' => Awake,
         schPc' = "read" => \/ schPc = "read" /\ spent' = spent
                            \/ schPc = "sleep" /\ spent' = 0
  PROVE  ScheduleInv'
<1>1. SchedConstants /\ SchedType
  BY ConstantFacts DEF ScheduleInv
<1>2. LateInv'
  <2>1. Reader!Delay' = Reader!Delay
    BY DEF Reader!Delay
  <2>2. ASSUME NEW m \in DOMAIN due
        PROVE  /\ due[m] >= -Reader!Delay
               /\ Awake' => due[m] >= -Limit(due, m)
               /\ schPc' = "read" => (due[m] + spent' > 0 \/ due[m] >= -(Limit(due, m) + spent'))
    <3>1. /\ due[m] >= -Reader!Delay /\ (Awake => due[m] >= -Limit(due, m))
          /\ schPc = "read" => (due[m] + spent > 0 \/ due[m] >= -(Limit(due, m) + spent))
      BY <2>2 DEF ScheduleInv, LateInv
    <3>2. LimitShape(due, m)
      <4>1. DOMAIN due \subseteq Measurement /\ \A n \in DOMAIN due : due[n] \in Int
        BY <1>1 DEF SchedType
      <4> QED BY <2>2, <4>1, LimitFacts
    <3>3. Limit(due, m) \in Nat
      BY <3>2 DEF LimitShape
    <3>4. schPc = "sleep" => Awake
      BY DEF Awake
    <3> QED BY <3>1, <3>3, <3>4
  <2> QED BY <2>1, <2>2 DEF LateInv
<1>3. WaitedInv'
  <2>1. Span' = Span
    BY DEF Span, Reader!Delay
  <2>2. /\ changes \in Nat /\ Span \in Nat /\ Ceiling \in Nat
        /\ \A m \in DOMAIN due : sinceRead[m] \in Nat /\ due[m] \in Int
    BY <1>1 DEF SchedType, SchedConstants
  <2>3. PICK c \in Nat : c = changes * Span
    <3>1. Span * changes \in Nat /\ Span * changes = changes * Span
      BY <2>2, Times
    <3> QED BY <3>1
  <2>4. (changes + 1) * Span = c + Span
    <3>1. Span * (changes + 1) = Span * changes + Span /\ Span * changes = changes * Span
          /\ Span * (changes + 1) = (changes + 1) * Span
      BY <2>2, Times
    <3> QED BY <2>3, <3>1
  <2>5. \A m \in DOMAIN due :
          /\ registered = DOMAIN due => sinceRead[m] + due[m] <= Ceiling + c
          /\ registered # DOMAIN due => sinceRead[m] + due[m] + Span <= Ceiling + c
    BY <2>3 DEF ScheduleInv, WaitedInv
  <2>6. CASE changes' = changes /\ registered' = registered
    BY <2>1, <2>3, <2>5, <2>6 DEF WaitedInv
  <2>7. CASE changes' = changes + 1 /\ (registered' = DOMAIN due => registered = DOMAIN due)
    <3>1. changes' * Span = c + Span
      BY <2>4, <2>7
    <3>2. ASSUME NEW m \in DOMAIN due
          PROVE  /\ registered' = DOMAIN due => sinceRead[m] + due[m] <= Ceiling + (c + Span)
                 /\ registered' # DOMAIN due => sinceRead[m] + due[m] + Span <= Ceiling + (c + Span)
      BY <2>2, <2>5, <2>7, <3>2
    <3> QED BY <2>1, <3>1, <3>2 DEF WaitedInv
  <2> QED BY <2>6, <2>7
<1> QED BY <1>2, <1>3 DEF ScheduleInv

\* A step of the thread, or of those who register, configure and stop it.
LEMMA ScheduleStep ==
  ASSUME ScheduleInv, Reader!Next \/ UNCHANGED Reader!vars
  PROVE  ScheduleInv'
<1>1. SchedConstants /\ SchedType
  BY ConstantFacts DEF ScheduleInv
<1>2. /\ stopping \in Int /\ stopping >= -1 /\ toBeat \in Int /\ Ceiling \in Nat \ {0}
      /\ MaxRead \in Nat /\ spent \in 0..MaxRead
      /\ \A m \in DOMAIN due : due[m] \in Int /\ due[m] <= Ceiling
  BY <1>1 DEF SchedType, SchedConstants
<1>3. CASE UNCHANGED Reader!vars
  <2>1. UNCHANGED <<registered, interval, due, schPc, current, spent, lHeartBeatPeriod, toBeat,
                    promised, sinceRead, stopping, changes>>
    BY <1>3 DEF Reader!vars
  <2>2. SchedType' /\ TurnInv' /\ StopInv' /\ BeatInv' /\ (Awake' <=> Awake)
    BY <2>1 DEF ScheduleInv, SchedType, TurnInv, StopInv, BeatInv, Awake
  <2> QED BY <2>1, <2>2, OtherStep
<1>4. CASE Reader!Idle
  <2>1. /\ schPc = "plan" /\ registered = {}
        /\ \/ schPc' = "stopped" /\ UNCHANGED <<toBeat, promised>>
           \/ toBeat' = lHeartBeatPeriod /\ promised' = lHeartBeatPeriod /\ schPc' = "plan"
        /\ UNCHANGED <<registered, interval, due, current, spent, lHeartBeatPeriod, sinceRead,
                       stopping, changes>>
    BY <1>4 DEF Reader!Idle, Reader!BeatIfDue
  <2>2. SchedType'
    BY <1>1, <2>1 DEF SchedType
  <2>3. TurnInv' /\ StopInv'
    BY <2>1 DEF ScheduleInv, TurnInv, StopInv
  <2>4. BeatInv'
    <3>1. lHeartBeatPeriod \in Nat
      BY <1>1 DEF SchedType
    <3> QED BY <1>2, <2>1, <3>1 DEF ScheduleInv, BeatInv, Awake
  <2>5. ~Awake' /\ schPc' # "read"
    BY <2>1 DEF Awake
  <2> QED BY <2>1, <2>2, <2>3, <2>4, <2>5, OtherStep
<1>5. CASE Reader!Look
  <2>1. /\ schPc = "look"
        /\ \/ registered # DOMAIN due /\ schPc' = "plan"
           \/ stopping >= 0 /\ schPc' = "stopped"
           \/ stopping < 0 /\ schPc' = "sleep"
        /\ UNCHANGED <<registered, interval, due, current, spent, lHeartBeatPeriod, toBeat,
                       promised, sinceRead, stopping, changes>>
    <3>1. /\ schPc = "look"
          /\ UNCHANGED <<registered, interval, due, current, spent, lHeartBeatPeriod, toBeat,
                         promised, sinceRead, stopping, changes>>
      BY <1>5 DEF Reader!Look
    <3>2. CASE registered # DOMAIN due
      <4>1. schPc' = "plan"
        BY <1>5, <3>2 DEF Reader!Look
      <4> QED BY <3>1, <3>2, <4>1
    <3>3. CASE registered = DOMAIN due /\ stopping >= 0
      <4>1. schPc' = "stopped"
        BY <1>5, <3>3 DEF Reader!Look, Reader!Stopping
      <4> QED BY <3>1, <3>3, <4>1
    <3>4. CASE registered = DOMAIN due /\ ~(stopping >= 0)
      <4>1. schPc' = "sleep"
        BY <1>5, <3>4 DEF Reader!Look, Reader!Stopping
      <4> QED BY <1>2, <3>1, <3>4, <4>1
    <3> QED BY <3>2, <3>3, <3>4
  <2>2. SchedType'
    BY <1>1, <2>1 DEF SchedType
  <2>3. TurnInv'
    BY <2>1 DEF ScheduleInv, TurnInv
  <2>4. StopInv'
    BY <1>2, <2>1 DEF ScheduleInv, StopInv
  <2>5. BeatInv' /\ (Awake' => Awake)
    BY <1>2, <2>1 DEF ScheduleInv, BeatInv, Awake
  <2> QED BY <2>1, <2>2, <2>3, <2>4, <2>5, OtherStep
<1>6. CASE Reader!ReadoutThrows
  <2>1. /\ schPc = "read" /\ schPc' = "look" /\ current' = None
        /\ stopping' = (IF stopping >= 0 THEN stopping ELSE 0)
        /\ UNCHANGED <<registered, interval, due, spent, lHeartBeatPeriod, toBeat, promised,
                       sinceRead, changes>>
    BY <1>2, <1>6, MaxOfTwo DEF Reader!ReadoutThrows
  <2>2. SchedType'
    BY <1>1, <2>1 DEF SchedType
  <2>3. TurnInv'
    BY <2>1 DEF ScheduleInv, TurnInv
  <2>4. StopInv'
    BY <1>2, <2>1 DEF ScheduleInv, StopInv
  <2>5. BeatInv' /\ ~Awake'
    BY <1>2, <2>1 DEF ScheduleInv, BeatInv, Awake
  <2> QED BY <2>1, <2>2, <2>3, <2>4, <2>5, OtherStep
<1>7. CASE Reader!StopRequested
  <2>1. /\ stopping < 0 /\ stopping' = 0
        /\ UNCHANGED <<registered, interval, due, schPc, current, spent, lHeartBeatPeriod, toBeat,
                       promised, sinceRead, changes>>
    BY <1>2, <1>7 DEF Reader!StopRequested, Reader!Stopping
  <2>2. SchedType'
    BY <1>1, <2>1 DEF SchedType
  <2>3. TurnInv'
    BY <2>1 DEF ScheduleInv, TurnInv
  <2>4. StopInv'
    BY <1>2, <2>1 DEF StopInv
  <2>5. BeatInv' /\ (Awake' => Awake)
    BY <1>2, <2>1 DEF ScheduleInv, BeatInv, Awake
  <2> QED BY <2>1, <2>2, <2>3, <2>4, <2>5, OtherStep
<1>8. ASSUME NEW m \in Measurement, Reader!Wake(m) PROVE ScheduleInv'
  <2>1. /\ schPc = "sleep" /\ m \in DOMAIN due /\ \A n \in DOMAIN due : due[m] <= due[n]
        /\ due[m] <= 0 /\ current' = m /\ spent' = 0 /\ schPc' = "read"
        /\ UNCHANGED <<registered, interval, due, lHeartBeatPeriod, toBeat, promised, sinceRead,
                       stopping, changes>>
    BY <1>8 DEF Reader!Wake, Reader!First
  <2>2. SchedType'
    BY <1>1, <1>2, <1>8, <2>1 DEF SchedType
  <2>3. TurnInv'
    BY <1>2, <2>1 DEF ScheduleInv, TurnInv
  <2>4. StopInv'
    BY <1>2, <2>1 DEF ScheduleInv, StopInv
  <2>5. BeatInv' /\ ~Awake'
    BY <1>2, <2>1 DEF ScheduleInv, BeatInv, Awake
  <2> QED BY <2>1, <2>2, <2>3, <2>4, <2>5, OtherStep
<1>9. ASSUME NEW m \in Measurement, Reader!Register(m) PROVE ScheduleInv'
  <2>1. /\ changes < MaxChanges /\ m \notin registered /\ registered' = registered \cup {m}
        /\ changes' = changes + 1
        /\ UNCHANGED <<interval, due, schPc, current, spent, lHeartBeatPeriod, toBeat, promised,
                       sinceRead, stopping>>
    BY <1>9 DEF Reader!Register
  <2>2. SchedType'
    <3>1. changes' \in 0..MaxChanges
      BY <1>1, <2>1 DEF SchedType, SchedConstants
    <3> QED BY <1>1, <1>9, <2>1, <3>1 DEF SchedType
  <2>3. registered' # DOMAIN due /\ changes' >= 1 /\ DOMAIN due \subseteq registered
    BY <1>1, <2>1 DEF SchedType
  <2>4. TurnInv'
    BY <2>1, <2>3 DEF ScheduleInv, TurnInv
  <2>5. StopInv' /\ BeatInv' /\ (Awake' <=> Awake)
    BY <2>1 DEF ScheduleInv, StopInv, BeatInv, Awake
  <2> QED BY <2>1, <2>2, <2>3, <2>4, <2>5, OtherStep
<1>10. ASSUME NEW m \in Measurement, NEW n \in Intervals[m], Reader!Configure(m, n)
       PROVE  ScheduleInv'
  <2>1. /\ changes < MaxChanges /\ interval' = [interval EXCEPT ![m] = n]
        /\ changes' = changes + 1
        /\ UNCHANGED <<registered, due, schPc, current, spent, lHeartBeatPeriod, toBeat, promised,
                       sinceRead, stopping>>
    BY <1>10 DEF Reader!Configure
  <2>2. SchedType'
    <3>1. changes' \in 0..MaxChanges /\ n \in 1..Ceiling
      BY <1>1, <1>10, <2>1 DEF SchedType, SchedConstants
    <3>2. /\ interval' \in [Measurement -> 1..Ceiling]
          /\ \A k \in Measurement : interval'[k] \in Intervals[k]
      BY <1>1, <1>10, <2>1, <3>1 DEF SchedType
    <3> QED BY <1>1, <2>1, <3>1, <3>2 DEF SchedType
  <2>3. TurnInv'
    <3>1. changes \in Nat
      BY <1>1 DEF SchedType
    <3> QED BY <2>1, <3>1 DEF ScheduleInv, TurnInv
  <2>4. DOMAIN due \subseteq registered
    BY <1>1 DEF SchedType
  <2>5. StopInv' /\ BeatInv' /\ (Awake' <=> Awake)
    BY <2>1 DEF ScheduleInv, StopInv, BeatInv, Awake
  <2> QED BY <2>1, <2>2, <2>3, <2>4, <2>5, OtherStep
<1> QED BY <1>3, <1>4, <1>5, <1>6, <1>7, <1>8, <1>9, <1>10, PlanStep, RescheduleStep, TickStep
        DEF Reader!Next

LEMMA ScheduleInvariant == Spec => [](part = "schedule" => ScheduleInv)
<1> DEFINE Inv == part = "schedule" => ScheduleInv
<1>1. Init => Inv
  BY ScheduleInit DEF Init
<1>2. Inv /\ [Next]_all => Inv'
  BY ReaderTurn, ScheduleStep
<1> QED BY <1>1, <1>2, PTL DEF Spec

\* However long readouts take and whatever is registered, configured or stopped meanwhile: no
\* measurement is overdue by more than one readout of each and the one under way, or unread for
\* longer than its interval and that, once more for each change; the thread ends, and the
\* daemon shows that it lives, after at most the longest interval and a readout (fReaderThread
\* and fBeatHeart, base/slowcontrolDaemon.cpp).
THEOREM ScheduleIsAlwaysKept == Spec => []ScheduleKept
<1>1. ASSUME ScheduleInv PROVE Reader!ScheduleKept
  <2>1. SchedConstants /\ SchedType
    BY <1>1, ConstantFacts DEF ScheduleInv
  <2>2. Reader!EveryoneIsRead
    <3>1. ASSUME NEW m \in DOMAIN due
          PROVE  due[m] >= -Reader!Delay /\ sinceRead[m] <= (changes + 1) * (Ceiling + Reader!Delay)
      <4>1. due[m] >= -Reader!Delay
        BY <1>1, <3>1 DEF ScheduleInv, LateInv
      <4>2. /\ changes \in Nat /\ Span \in Nat /\ Span = Ceiling + Reader!Delay /\ Ceiling \in Nat
            /\ Reader!Delay \in Nat /\ due[m] \in Int /\ sinceRead[m] \in Nat
        BY <2>1, <3>1 DEF SchedType, SchedConstants
      <4>3. PICK c \in Nat : c = changes * Span /\ (changes + 1) * Span = c + Span
        <5>1. /\ Span * changes \in Nat /\ Span * changes = changes * Span
              /\ Span * (changes + 1) = Span * changes + Span
              /\ Span * (changes + 1) = (changes + 1) * Span
          BY <4>2, Times
        <5> QED BY <5>1
      <4>4. sinceRead[m] + due[m] <= Ceiling + c
        BY <1>1, <3>1, <4>2, <4>3 DEF ScheduleInv, WaitedInv
      <4> QED BY <4>1, <4>2, <4>3, <4>4
    <3> QED BY <3>1 DEF Reader!EveryoneIsRead
  <2>3. Reader!StopsInTime
    BY <1>1, <2>1 DEF ScheduleInv, StopInv, SchedType, SchedConstants, Reader!StopsInTime
  <2>4. Reader!BeatsGoOn
    BY <1>1, <2>1 DEF ScheduleInv, BeatInv, SchedType, SchedConstants, Reader!BeatsGoOn, Awake
  <2> QED BY <2>2, <2>3, <2>4 DEF Reader!ScheduleKept
<1>2. (part = "schedule" => ScheduleInv) => ScheduleKept
  BY <1>1 DEF ScheduleKept
<1> QED BY <1>2, ScheduleInvariant, PTL

-----------------------------------------------------------------------------
(* The types of all parts *)

\* What WriteRequestsProofs proves about the service of setvalue requests, for the part that it
\* is here.
Service == INSTANCE WriteRequestsProofs WITH
    crashes <- wrCrashes, result <- wrResult, listening <- wrListening, row <- wrRow

LEMMA RequestsTurn ==
  ASSUME [Next]_all
  PROVE  part' = part /\ (part = "requests" => Requests!Next \/ UNCHANGED Requests!vars)
<1>1. CASE UNCHANGED all
  BY <1>1 DEF all, requestsVars, Requests!vars, Requests!client, Requests!table,
              Requests!ears, Requests!handlerVars, Requests!scheduled, Requests!writerVars
<1>2. CASE Next
  BY <1>2 DEF Next
<1> QED BY <1>1, <1>2

\* The two instances of the module say the same, definition by definition.
LEMMA SameModule ==
  /\ Requests!Init <=> Service!Init
  /\ Requests!TypeOK <=> Service!TypeOK
  /\ Requests!TypeOK' <=> Service!TypeOK'
  /\ Requests!Next <=> Service!Next
  /\ UNCHANGED Requests!vars <=> UNCHANGED Service!vars
<1> USE DEF Requests!client, Requests!table, Requests!ears, Requests!handlerVars,
            Requests!scheduled, Requests!writerVars, Service!client, Service!table,
            Service!ears, Service!handlerVars, Service!scheduled, Service!writerVars,
            Requests!Outcome, Service!Outcome, Requests!Inserted, Service!Inserted,
            Requests!Pending, Service!Pending
<1>1. UNCHANGED Requests!vars <=> UNCHANGED Service!vars
  BY DEF Requests!vars, Service!vars
<1>2. Requests!Init <=> Service!Init
  BY DEF Requests!Init, Service!Init
<1>3. Requests!TypeOK <=> Service!TypeOK
  BY DEF Requests!TypeOK, Service!TypeOK
<1>4. Requests!TypeOK' <=> Service!TypeOK'
  BY DEF Requests!TypeOK, Service!TypeOK
<1>5. Requests!Handle <=> Service!Handle
  <2> USE DEF Requests!Answer, Service!Answer, Requests!Refuse, Service!Refuse,
              Requests!IsNext, Service!IsNext, Requests!Taken, Service!Taken
  <2>1. Requests!fClearOldPendingRequests <=> Service!fClearOldPendingRequests
    BY DEF Requests!fClearOldPendingRequests, Service!fClearOldPendingRequests
  <2>2. Requests!SelectPending <=> Service!SelectPending
    BY DEF Requests!SelectPending, Service!SelectPending
  <2>3. \A r : Requests!RowRefused(r) <=> Service!RowRefused(r)
    BY DEF Requests!RowRefused, Service!RowRefused
  <2>4. \A r : Requests!RowScheduled(r) <=> Service!RowScheduled(r)
    BY DEF Requests!RowScheduled, Service!RowScheduled, Requests!Emplaced,
           Service!Emplaced, Requests!WriterNotified, Service!WriterNotified
  <2>5. \A r : Requests!RowExecuted(r) <=> Service!RowExecuted(r)
    BY DEF Requests!RowExecuted, Service!RowExecuted
  <2>6. \A r : Requests!NotificationRead(r) <=> Service!NotificationRead(r)
    BY DEF Requests!NotificationRead, Service!NotificationRead
  <2>7. /\ Requests!ScheduledRecorded <=> Service!ScheduledRecorded
        /\ Requests!OutcomeRecorded <=> Service!OutcomeRecorded
    BY DEF Requests!ScheduledRecorded, Service!ScheduledRecorded,
           Requests!OutcomeRecorded, Service!OutcomeRecorded
  <2>8. Requests!RowsDone <=> Service!RowsDone
    BY DEF Requests!RowsDone, Service!RowsDone
  <2>9. /\ Requests!Listen <=> Service!Listen
        /\ Requests!ListenReturns <=> Service!ListenReturns
        /\ Requests!PollTimesOut <=> Service!PollTimesOut
    BY DEF Requests!Listen, Service!Listen, Requests!ListenReturns,
           Service!ListenReturns, Requests!PollTimesOut, Service!PollTimesOut
  <2> QED BY <2>1, <2>2, <2>3, <2>4, <2>5, <2>6, <2>7, <2>8, <2>9
          DEF Requests!Handle, Service!Handle
<1>6. Requests!Write <=> Service!Write
  <2>1. /\ Requests!WriterLooks <=> Service!WriterLooks
        /\ Requests!NothingScheduled <=> Service!NothingScheduled
        /\ \A r : Requests!WriterWaits(r) <=> Service!WriterWaits(r)
        /\ Requests!WriterTakes <=> Service!WriterTakes
        /\ Requests!WriterProcesses <=> Service!WriterProcesses
    BY DEF Requests!WriterLooks, Service!WriterLooks, Requests!NothingScheduled,
           Service!NothingScheduled, Requests!WriterWaits, Service!WriterWaits,
           Requests!WriterTakes, Service!WriterTakes, Requests!WriterProcesses,
           Service!WriterProcesses
  <2>2. Requests!WriterRecords <=> Service!WriterRecords
    BY DEF Requests!WriterRecords, Service!WriterRecords, Requests!Answer,
           Service!Answer, Requests!Refuse, Service!Refuse
  <2> QED BY <2>1, <2>2 DEF Requests!Write, Service!Write
<1>7. Requests!World <=> Service!World
  BY DEF Requests!World, Service!World, Requests!Tick, Service!Tick, Requests!Insert,
         Service!Insert, Requests!ConfigNotified, Service!ConfigNotified,
         Requests!StopRequested, Service!StopRequested, Requests!CrashAndRestart,
         Service!CrashAndRestart
<1>8. Requests!Next <=> Service!Next
  BY <1>5, <1>6, <1>7 DEF Requests!Next, Service!Next
<1> QED BY <1>1, <1>2, <1>3, <1>4, <1>8

LEMMA RequestsTypes == Spec => [](part = "requests" => Requests!TypeOK)
<1> DEFINE Inv == part = "requests" => Requests!TypeOK
<1>1. Init => Inv
  <2>1. Service!Init => Service!TypeOK
    BY Service!TypeInit, PartsAssumption DEF Requests!RequestAssumption
  <2> QED BY <2>1, SameModule DEF Init
<1>2. Inv /\ [Next]_all => Inv'
  <2> SUFFICES ASSUME Inv, [Next]_all, part' = "requests" PROVE Requests!TypeOK'
    OBVIOUS
  <2>1. part = "requests" /\ (Requests!Next \/ UNCHANGED Requests!vars)
    BY RequestsTurn
  <2>2. Service!TypeOK /\ [Service!Next]_Service!vars => Service!TypeOK'
    BY Service!TypeStep, PartsAssumption DEF Requests!RequestAssumption
  <2> QED BY <2>1, <2>2, SameModule
<1> QED BY <1>1, <1>2, PTL DEF Spec

\* Two notifications for each edit and one more are the most that are ever on the wire.
LEMMA ConfigTypesOK == ConfigInv => Options!TypeOK
<1> SUFFICES ASSUME ConfigInv PROVE Options!TypeOK
  OBVIOUS
<1>1. /\ ConfigTypes /\ EchoInv /\ MaxEdits \in Nat
  BY ConfigFacts DEF ConfigInv
<1>2. wire \in Nat /\ edits \in 0..MaxEdits
  BY <1>1 DEF ConfigTypes
<1>3. wire <= 2 * edits + 1
  BY <1>1, <1>2 DEF EchoInv
<1>4. 2 * edits + 1 <= 2 * MaxEdits + 1
  BY <1>1, <1>2
<1>5. wire \in 0..(2 * MaxEdits + 1)
  BY <1>1, <1>2, <1>3, <1>4
<1> QED BY <1>1, <1>5 DEF ConfigTypes, Options!TypeOK

LEMMA ReaderTypes == SchedType => Reader!TypeOK
BY DEF SchedType, Reader!TypeOK

\* Every part keeps its types.  Among them: what is waiting in the pipe of a daemon never
\* exceeds two notifications for each edit of a user and one for its own first UPDATE
\* (database.sql:uid_config_notify_spcific, configValue.cpp:fConfigure).
THEOREM TypesAlwaysOK == Spec => []TypesOK
<1>1. ASSUME part = "bool" => BoolInv,
             part = "requests" => Requests!TypeOK,
             part = "registry" => RegistryInv,
             part = "config" => ConfigInv,
             part = "client" => ClientInv,
             part = "states" => StatesInv,
             part = "schedule" => ScheduleInv
      PROVE  TypesOK
  BY <1>1, ConfigTypesOK, ReaderTypes
     DEF TypesOK, BoolInv, RegistryInv, ClientInv, StatesInv, ScheduleInv
<1> QED BY <1>1, BoolInvariant, RequestsTypes, RegistryInvariant, ConfigInvariant,
           ClientInvariant, StatesInvariant, ScheduleInvariant, PTL
=============================================================================
