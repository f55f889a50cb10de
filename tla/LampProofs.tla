----------------------------- MODULE LampProofs -----------------------------
(***************************************************************************)
(* Theorems about the two LED daemons (Lamp), for any levels, any channels *)
(* and any number of sets: the types, with all levels clamped and no more  *)
(* left to do than is begun, and that the LEDs show what the measurements  *)
(* say.                                                                    *)
(***************************************************************************)
EXTENDS Lamp, SequenceTheorems, TLAPS

Channels == Light \cup Model

\* The operations of which a set consists.
ChipOps == {<<"chip", c, x>> : c \in Light, x \in 0..One}
StoreOps == UNION {{<<"store", c, x>> : x \in 0..MaxOf(c)} : c \in Channels}
BitOps == {<<"bit", b>> : b \in BOOLEAN}
Op == ChipOps \cup StoreOps \cup BitOps \cup {<<"toLights">>, <<"toModel">>}

StoresLight(o) == o[1] = "store" /\ o[2] \in Light
Recalculating(o) == o[1] \in {"toLights", "toModel"}

\* A chip is set right before the measurement of its light; the first of s may be left over
\* from a light whose chip is set already.
InPairs(s) ==
  \A k \in 1..Len(s) :
    /\ s[k][1] = "chip" => k < Len(s) /\ s[k + 1] = <<"store", s[k][2], s[k][3]>>
    /\ StoresLight(s[k]) => k = 1 \/ (s[k - 1][1] = "chip" /\ s[k - 1][2] = s[k][2])
\* At most n follow a recalculation.
FewAfter(s, n) == \A k \in 1..Len(s) : Recalculating(s[k]) => Len(s) - k <= n
\* What a thread has still to do.
Rest(s) == s \in Seq(Op) /\ InPairs(s) /\ FewAfter(s, 2) /\ Len(s) <= 12
\* What a thread begins with.
Fresh(s) == Len(s) > 0 => ~StoresLight(s[1])
\* At most m operations that can follow others.
Plan(s, m) == s \in Seq(Op) /\ InPairs(s) /\ Fresh(s) /\ Len(s) <= m
Plain(s) == \A k \in 1..Len(s) : ~Recalculating(s[k])

-----------------------------------------------------------------------------
(* Lights and their LEDs *)

LightFacts ==
  /\ Light \cap Model = {} /\ Light \subseteq Led
  /\ \A c \in Light : /\ LedsOf(c) \subseteq Led
                      /\ c \in Pair(c) /\ Pair(c) \subseteq Light
                      /\ Yellow => Pair(c) = {c}
                      /\ ~Yellow => LedsOf(c) = {c}
                      /\ c # "white" => LedsOf(c) = {c}
  /\ \A c, d \in Light : /\ c # d => LedsOf(c) \cap LedsOf(d) = {}
                         /\ d \in Pair(c) <=> c \in Pair(d)
                         /\ d \in Pair(c) => Pair(d) = Pair(c)
                         /\ d \notin Pair(c) => /\ LedsOf(d) \cap (LedsOf(c) \cup Pair(c)) = {}
                                                /\ Pair(d) \cap Pair(c) = {}
LEMMA Lights == LightFacts
<1>1. CASE Yellow
  <2>1. Light = {"red", "green", "blue", "white", "yellow"} /\ Led = Light \cup {"white2"}
    BY <1>1 DEF Light, Led
  <2>2. \A c \in Light : Pair(c) = {c}
    BY <1>1 DEF Pair
  <2>3. \A c \in Light : LedsOf(c) = IF c = "white" THEN {"white", "white2"} ELSE {c}
    BY <2>1 DEF LedsOf
  <2> QED BY <1>1, <2>1, <2>2, <2>3 DEF LightFacts, Model
<1>2. CASE ~Yellow
  <2>1. Light = {"red", "green", "blue", "white"} /\ Led = Light
    BY <1>2 DEF Light, Led
  <2>2. \A c \in Light : Pair(c) = IF c \in {"red", "blue"} THEN {"red", "blue"}
                                                            ELSE {"green", "white"}
    BY <1>2 DEF Pair
  <2>3. \A c \in Light : LedsOf(c) = {c}
    BY <2>1 DEF LedsOf
  <2> QED BY <1>2, <2>1, <2>2, <2>3 DEF LightFacts, Model
<1> QED BY <1>1, <1>2

LEMMA Threads ==
  ASSUME NEW t \in Thread
  PROVE  Other(t) \in Thread /\ Other(t) # t /\ \A u \in Thread : u = t \/ u = Other(t)
<1>1. \E u \in Thread : u # t
  BY DEF Thread
<1>2. Other(t) \in Thread /\ Other(t) # t
  BY <1>1 DEF Other
<1> QED BY <1>2 DEF Thread

-----------------------------------------------------------------------------
(* Sequences of operations *)

LEMMA OpFacts ==
  ASSUME NEW o \in Op
  PROVE  /\ o[1] \in {"chip", "store", "toLights", "toModel", "bit"}
         /\ o[1] = "chip" => o[2] \in Light /\ o[3] \in 0..One
         /\ o[1] = "store" => o[2] \in Channels /\ o[3] \in 0..MaxOf(o[2])
         /\ o[1] = "bit" => o[2] \in BOOLEAN
<1>1. CASE \E c \in Light, x \in 0..One : o = <<"chip", c, x>>
  BY <1>1
<1>2. CASE \E c \in Channels : \E x \in 0..MaxOf(c) : o = <<"store", c, x>>
  BY <1>2
<1>3. CASE o \in {<<"toLights">>, <<"toModel">>}
  BY <1>3
<1>4. CASE \E b \in BOOLEAN : o = <<"bit", b>>
  BY <1>4
<1>5. o \in ChipOps => \E c \in Light, x \in 0..One : o = <<"chip", c, x>>
  BY DEF ChipOps
<1>6. o \in StoreOps => \E c \in Channels : \E x \in 0..MaxOf(c) : o = <<"store", c, x>>
  BY DEF StoreOps
<1>7. o \in BitOps => \E b \in BOOLEAN : o = <<"bit", b>>
  BY DEF BitOps
<1> QED BY <1>1, <1>2, <1>3, <1>4, <1>5, <1>6, <1>7 DEF Op

LEMMA StoreOp ==
  ASSUME NEW o \in Op, o[1] = "store"
  PROVE  o = <<"store", o[2], o[3]>>
<1>1. o \in StoreOps
  BY DEF Op, ChipOps, BitOps
<1>2. PICK c \in Channels : \E x \in 0..MaxOf(c) : o = <<"store", c, x>>
  BY <1>1 DEF StoreOps
<1> QED BY <1>2

\* The first half is done before the second.
LEMMA Both ==
  ASSUME NEW a, NEW b, NEW m \in Nat, NEW l \in Nat, Plan(a, m), Plan(b, l)
  PROVE  /\ Plan(a \o b, m + l)
         /\ Plain(a) /\ Plain(b) => Plain(a \o b)
         /\ \A r \in Nat : Plain(a) /\ FewAfter(b, r) => FewAfter(a \o b, r)
         /\ \A r \in Nat, n \in Nat : FewAfter(a, n) /\ FewAfter(b, r) /\ n + l <= r
                                     => FewAfter(a \o b, r)
<1>1. /\ a \in Seq(Op) /\ b \in Seq(Op) /\ Len(a) \in Nat /\ Len(b) \in Nat
      /\ Len(a) <= m /\ Len(b) <= l
  BY LenProperties DEF Plan
<1>2. /\ a \o b \in Seq(Op) /\ Len(a \o b) = Len(a) + Len(b)
      /\ \A k \in 1..(Len(a) + Len(b)) :
           (a \o b)[k] = IF k <= Len(a) THEN a[k] ELSE b[k - Len(a)]
  BY <1>1, ConcatProperties
<1> DEFINE s == a \o b
<1>3. /\ s \in Seq(Op) /\ Len(s) = Len(a) + Len(b)
      /\ \A k \in 1..Len(a) : s[k] = a[k]
      /\ \A k \in 1..Len(b) : s[Len(a) + k] = b[k]
  BY <1>1, <1>2
<1> HIDE DEF s
<1>4. \A k \in 1..Len(s) : k \in 1..Len(a) \/ \E j \in 1..Len(b) : k = Len(a) + j
  <2> SUFFICES ASSUME NEW k \in 1..Len(s), k \notin 1..Len(a)
               PROVE  \E j \in 1..Len(b) : k = Len(a) + j
    OBVIOUS
  <2>1. k - Len(a) \in 1..Len(b) /\ k = Len(a) + (k - Len(a))
    BY <1>1, <1>3
  <2> QED BY <2>1
<1>5. InPairs(s)
  <2> SUFFICES ASSUME NEW k \in 1..Len(s)
               PROVE  /\ s[k][1] = "chip" => k < Len(s) /\ s[k + 1] = <<"store", s[k][2], s[k][3]>>
                      /\ StoresLight(s[k]) =>
                           k = 1 \/ (s[k - 1][1] = "chip" /\ s[k - 1][2] = s[k][2])
    BY DEF InPairs
  <2>1. CASE k \in 1..Len(a)
    <3>1. s[k] = a[k] /\ (k < Len(a) => s[k + 1] = a[k + 1]) /\ (k # 1 => s[k - 1] = a[k - 1])
      <4>1. /\ k < Len(a) => k + 1 \in 1..Len(a)
            /\ k # 1 => k - 1 \in 1..Len(a)
        BY <1>1, <2>1
      <4> QED BY <1>3, <2>1, <4>1
    <3>2. k < Len(a) => k < Len(s)
      BY <1>1, <1>3, <2>1
    <3>3. InPairs(a)
      BY DEF Plan
    <3> QED BY <2>1, <3>1, <3>2, <3>3 DEF InPairs
  <2>2. ASSUME NEW j \in 1..Len(b), k = Len(a) + j
        PROVE  /\ s[k][1] = "chip" => k < Len(s) /\ s[k + 1] = <<"store", s[k][2], s[k][3]>>
               /\ StoresLight(s[k]) =>
                    k = 1 \/ (s[k - 1][1] = "chip" /\ s[k - 1][2] = s[k][2])
    <3>1. InPairs(b) /\ Fresh(b)
      BY DEF Plan
    <3>2. s[k] = b[j]
      BY <1>3, <2>2
    <3>3. j < Len(b) => k < Len(s) /\ s[k + 1] = b[j + 1]
      <4>1. j < Len(b) => j + 1 \in 1..Len(b) /\ k + 1 = Len(a) + (j + 1) /\ k < Len(s)
        BY <1>1, <1>3, <2>2
      <4> QED BY <1>3, <4>1
    <3>4. j # 1 => s[k - 1] = b[j - 1]
      <4>1. j # 1 => j - 1 \in 1..Len(b) /\ k - 1 = Len(a) + (j - 1)
        BY <1>1, <2>2
      <4> QED BY <1>3, <4>1
    <3>5. j = 1 => ~StoresLight(s[k])
      BY <1>1, <3>1, <3>2 DEF Fresh
    <3> QED BY <3>1, <3>2, <3>3, <3>4, <3>5 DEF InPairs
  <2> QED BY <1>4, <2>1, <2>2
<1>6. Fresh(s)
  <2>1. CASE Len(a) > 0
    <3>1. s[1] = a[1]
      BY <1>1, <1>3, <2>1
    <3> QED BY <2>1, <3>1 DEF Plan, Fresh
  <2>2. CASE Len(a) = 0
    <3>1. Len(s) > 0 => s[1] = b[1] /\ Len(b) > 0
      <4>1. Len(s) > 0 => 1 \in 1..Len(b) /\ Len(a) + 1 = 1
        BY <1>1, <1>3, <2>2
      <4> QED BY <1>1, <1>3, <2>2, <4>1
    <3> QED BY <3>1 DEF Plan, Fresh
  <2> QED BY <1>1, <2>1, <2>2
<1>7. ASSUME NEW r \in Nat, FewAfter(b, r),
             NEW n \in Nat, Plain(a) \/ (FewAfter(a, n) /\ n + l <= r)
      PROVE  FewAfter(s, r)
  <2> SUFFICES ASSUME NEW k \in 1..Len(s), Recalculating(s[k]) PROVE Len(s) - k <= r
    BY DEF FewAfter
  <2>1. CASE k \in 1..Len(a)
    <3>1. Len(a) - k <= n /\ n + l <= r
      BY <1>3, <1>7, <2>1 DEF Plain, FewAfter
    <3> QED BY <1>1, <1>3, <2>1, <3>1
  <2>2. ASSUME NEW j \in 1..Len(b), k = Len(a) + j PROVE Len(s) - k <= r
    <3>1. Len(b) - j <= r
      BY <1>3, <1>7, <2>2 DEF FewAfter
    <3> QED BY <1>1, <1>3, <2>2, <3>1
  <2> QED BY <1>4, <2>1, <2>2
<1>8. Len(s) <= m + l
  BY <1>1, <1>3
<1>9. Plain(a) /\ Plain(b) => Plain(s)
  BY <1>3, <1>4 DEF Plain
<1>10. Plan(s, m + l)
  BY <1>3, <1>5, <1>6, <1>8 DEF Plan
<1> QED BY <1>7, <1>9, <1>10 DEF s

LEMMA FewerAfter ==
  ASSUME NEW s \in Seq(Op), NEW n \in Nat, NEW q \in Nat, FewAfter(s, n), n <= q
  PROVE  FewAfter(s, q)
<1>1. Len(s) \in Nat
  BY LenProperties
<1> SUFFICES ASSUME NEW k \in 1..Len(s), Recalculating(s[k]) PROVE Len(s) - k <= q
  BY DEF FewAfter
<1>2. Len(s) - k <= n
  BY DEF FewAfter
<1> QED BY <1>1, <1>2

LEMMA PlainHasFewAfter ==
  ASSUME NEW s, Plain(s), NEW n \in Nat
  PROVE  FewAfter(s, n)
BY DEF Plain, FewAfter

LEMMA Single ==
  ASSUME NEW o \in Op, ~StoresLight(o), o[1] # "chip"
  PROVE  Plan(<<o>>, 1) /\ FewAfter(<<o>>, 0) /\ (~Recalculating(o) => Plain(<<o>>))
<1>1. <<o>> \in Seq(Op) /\ Len(<<o>>) = 1 /\ <<o>>[1] = o
  OBVIOUS
<1>2. InPairs(<<o>>) /\ Fresh(<<o>>) /\ FewAfter(<<o>>, 0)
      /\ (~Recalculating(o) => Plain(<<o>>))
  BY <1>1 DEF InPairs, Fresh, FewAfter, Plain
<1> QED BY <1>1, <1>2 DEF Plan

LEMMA Nothing ==
  ASSUME NEW m \in Nat, NEW n \in Nat
  PROVE  Plan(<<>>, m) /\ Plain(<<>>) /\ FewAfter(<<>>, n)
BY EmptySeq DEF Plan, Plain, InPairs, Fresh, FewAfter

LEMMA Constants ==
  ASSUME LampAssumption
  PROVE  /\ One \in Nat \ {0} /\ Goal \subseteq 0..One
         /\ MaxSets \in Nat
         /\ \A c : MaxOf(c) \in Nat /\ (c # "hue" => MaxOf(c) = One)
BY DEF LampAssumption, MaxOf

LEMMA Clamped ==
  ASSUME NEW x \in Int, NEW max \in Nat
  PROVE  Clamp(x, max) \in 0..max
BY DEF Clamp, Lower

LEMMA LightIsSet ==
  ASSUME LampAssumption, NEW c \in Light, NEW x \in Int
  PROVE  Plan(SetLight(c, x), 2) /\ Plain(SetLight(c, x))
<1> DEFINE y == Clamp(x, One)
           a == <<"chip", c, y>>
           b == <<"store", c, y>>
           s == <<a, b>>
<1>1. y \in 0..One
  BY Constants, Clamped
<1>2. c # "hue" /\ c \in Channels
  BY Lights DEF LightFacts, Channels, Model
<1>3. a \in Op /\ b \in Op
  <2>1. MaxOf(c) = One
    BY <1>2, Constants
  <2>2. a \in ChipOps
    BY <1>1 DEF ChipOps
  <2>3. b \in StoreOps
    BY <1>1, <1>2, <2>1 DEF StoreOps
  <2> QED BY <2>2, <2>3 DEF Op
<1>4. /\ a[1] = "chip" /\ b[1] = "store" /\ a[2] = c /\ b[2] = c
      /\ b = <<"store", a[2], a[3]>>
  OBVIOUS
<1> HIDE DEF y, a, b
<1>5. s \in Seq(Op) /\ Len(s) = 2 /\ s[1] = a /\ s[2] = b
  BY <1>3
<1> HIDE DEF s
<1>6. \A k \in 1..Len(s) : k = 1 \/ k = 2
  BY <1>5
<1>7. InPairs(s)
  <2> SUFFICES ASSUME NEW k \in 1..Len(s)
               PROVE  /\ s[k][1] = "chip" => k < Len(s) /\ s[k + 1] = <<"store", s[k][2], s[k][3]>>
                      /\ StoresLight(s[k]) =>
                           k = 1 \/ (s[k - 1][1] = "chip" /\ s[k - 1][2] = s[k][2])
    BY DEF InPairs
  <2>1. CASE k = 1
    BY <1>4, <1>5, <2>1
  <2>2. CASE k = 2
    BY <1>4, <1>5, <2>2
  <2> QED BY <1>6, <2>1, <2>2
<1>8. Fresh(s) /\ Plain(s)
  BY <1>4, <1>5, <1>6 DEF Fresh, Plain, StoresLight, Recalculating
<1> QED BY <1>5, <1>7, <1>8 DEF Plan, SetLight, s, a, b, y

LEMMA ModelIsSet ==
  ASSUME LampAssumption, NEW c \in Model, NEW x \in Int
  PROVE  Plan(SetModel(c, x), 1) /\ Plain(SetModel(c, x))
<1> DEFINE o == <<"store", c, Clamp(x, MaxOf(c))>>
<1>1. Clamp(x, MaxOf(c)) \in 0..MaxOf(c) /\ c \in Channels /\ c \notin Light
  BY Constants, Clamped, Lights DEF LightFacts, Channels
<1>2. o \in Op /\ o[1] = "store" /\ o[2] = c
  BY <1>1 DEF Op, StoreOps
<1>3. ~StoresLight(o) /\ o[1] # "chip" /\ ~Recalculating(o)
  BY <1>1, <1>2 DEF StoresLight, Recalculating
<1>4. Plan(<<o>>, 1) /\ Plain(<<o>>)
  BY <1>2, <1>3, Single
<1> QED BY <1>4 DEF SetModel

LEMMA Markers ==
  /\ Plan(<<<<"toLights">>>>, 1) /\ FewAfter(<<<<"toLights">>>>, 0)
  /\ Plan(<<<<"toModel">>>>, 1) /\ FewAfter(<<<<"toModel">>>>, 0)
  /\ \A b \in BOOLEAN : Plan(<<<<"bit", b>>>>, 1) /\ Plain(<<<<"bit", b>>>>)
<1>1. <<"toLights">> \in Op /\ <<"toModel">> \in Op /\ \A b \in BOOLEAN : <<"bit", b>> \in Op
  BY DEF Op, BitOps
<1>2. \A b \in BOOLEAN : ~Recalculating(<<"bit", b>>)
  BY DEF Recalculating
<1> QED BY <1>1, <1>2, Single DEF StoresLight

LEMMA ChannelIsSet ==
  ASSUME LampAssumption, NEW c \in Channels, NEW x \in Int
  PROVE  Plan(Set(c, x), 3) /\ FewAfter(Set(c, x), 0) /\ (c \in Model => Plan(Set(c, x), 2))
<1>1. CASE c \in Light
  <2>1. Plan(SetLight(c, x), 2) /\ Plain(SetLight(c, x))
    BY <1>1, LightIsSet
  <2>2. Plan(SetLight(c, x) \o <<<<"toModel">>>>, 2 + 1)
        /\ FewAfter(SetLight(c, x) \o <<<<"toModel">>>>, 0)
    BY <2>1, Markers, Both
  <2>3. c \notin Model
    BY <1>1, Lights DEF LightFacts
  <2> QED BY <1>1, <2>2, <2>3 DEF Set
<1>2. CASE c \in Model
  <2>1. Plan(SetModel(c, x), 1) /\ Plain(SetModel(c, x))
    BY <1>2, ModelIsSet
  <2>2. Plan(SetModel(c, x) \o <<<<"toLights">>>>, 1 + 1)
        /\ FewAfter(SetModel(c, x) \o <<<<"toLights">>>>, 0)
    BY <2>1, Markers, Both
  <2>3. c \notin Light
    BY <1>2, Lights DEF LightFacts
  <2>4. Plan(Set(c, x), 2) /\ FewAfter(Set(c, x), 0)
    BY <2>2, <2>3 DEF Set
  <2>5. Plan(Set(c, x), 3)
    <3>1. Set(c, x) \in Seq(Op) /\ Len(Set(c, x)) <= 2 /\ Len(Set(c, x)) \in Nat
      BY <2>4, LenProperties DEF Plan
    <3> QED BY <2>4, <3>1 DEF Plan
  <2> QED BY <2>4, <2>5
<1> QED BY <1>1, <1>2 DEF Channels

-----------------------------------------------------------------------------
(* One view of the light from the other *)

LEMMA Extremes ==
  ASSUME NEW a \in Int, NEW b \in Int, NEW c \in Int
  PROVE  /\ Max({a, b, c}) \in Int /\ Min({a, b, c}) \in Int
         /\ Min({a, b, c}) <= a /\ a <= Max({a, b, c})
         /\ Min({a, b, c}) <= b /\ b <= Max({a, b, c})
         /\ Min({a, b, c}) <= c /\ c <= Max({a, b, c})
<1> DEFINE S == {a, b, c}
<1>1. (\E x \in S : \A y \in S : x >= y) /\ (\E x \in S : \A y \in S : x =< y)
  OBVIOUS
<1>2. Max(S) \in S /\ \A y \in S : Max(S) >= y
  BY <1>1 DEF Max
<1>3. Min(S) \in S /\ \A y \in S : Min(S) <= y
  BY <1>1 DEF Min
<1> QED BY <1>2, <1>3

LEMMA ExtremesOfTwo ==
  ASSUME NEW a \in Int, NEW b \in Int
  PROVE  Max({a, b}) \in Int /\ Min({a, b}) \in Int /\ a <= Max({a, b}) /\ b <= Max({a, b})
<1>1. {a, b, b} = {a, b}
  OBVIOUS
<1> QED BY <1>1, Extremes

LEMMA Product ==
  ASSUME LampAssumption, NEW a \in Int, NEW b \in Int
  PROVE  Times(a, b) \in Int
<1>1. PICK x \in Int : x = a * b + One - 1
  BY Constants
<1>2. x \div One \in Int
  BY Constants
<1> QED BY <1>1, <1>2 DEF Times

LEMMA NaturalProduct ==
  ASSUME LampAssumption, NEW a \in Nat, NEW b \in Nat
  PROVE  Times(a, b) \in Nat
<1>1. PICK p \in Nat : p = a * b
  OBVIOUS
<1>2. PICK x \in Nat : x = p + One - 1
  BY Constants
<1>3. x \div One \in Nat
  BY Constants
<1> QED BY <1>1, <1>2, <1>3 DEF Times

LEMMA SectorIsLight ==
  ASSUME LampAssumption, NEW h \in Int, NEW s \in Int, NEW v \in Int
  PROVE  Sector(h, s, v).r \in Int /\ Sector(h, s, v).g \in Int /\ Sector(h, s, v).b \in Int
<1> DEFINE f == ((h % 60) * One) \div 60
           p == Times(v, One - s)
           q == Times(v, One - Times(s, f))
           t == Times(v, One - Times(s, One - f))
<1>1. One \in Int
  BY Constants
<1>2. f \in Int
  <2>1. PICK x \in Int : x = (h % 60) * One
    BY <1>1
  <2> QED BY <2>1
<1> HIDE DEF f
<1>3. p \in Int
  BY <1>1, Product
<1>4. q \in Int
  <2>1. One - Times(s, f) \in Int
    BY <1>1, <1>2, Product
  <2> QED BY <2>1, Product
<1>5. t \in Int
  <2>1. One - Times(s, One - f) \in Int
    <3>1. One - f \in Int
      BY <1>1, <1>2
    <3> QED BY <1>1, <3>1, Product
  <2> QED BY <2>1, Product
<1> HIDE DEF p, q, t
<1>6. PICK x : x = h \div 60
  OBVIOUS
<1>7. Sector(h, s, v) = CASE x = 0 -> [r |-> v, g |-> t, b |-> p]
                          [] x = 1 -> [r |-> q, g |-> v, b |-> p]
                          [] x = 2 -> [r |-> p, g |-> v, b |-> t]
                          [] x = 3 -> [r |-> p, g |-> q, b |-> v]
                          [] x = 4 -> [r |-> t, g |-> p, b |-> v]
                          [] OTHER -> [r |-> v, g |-> p, b |-> q]
  BY <1>6 DEF Sector, f, p, q, t
<1> QED BY <1>3, <1>4, <1>5, <1>7

LEMMA Four ==
  ASSUME NEW a, NEW b, NEW c, NEW d,
         Plan(a, 2), Plain(a), Plan(b, 2), Plain(b), Plan(c, 2), Plain(c), Plan(d, 2), Plain(d)
  PROVE  Plan(a \o b \o c \o d, 8) /\ Plain(a \o b \o c \o d)
<1>1. Plan(a \o b, 2 + 2) /\ Plain(a \o b)
  BY Both
<1>2. Plan(a \o b, 4) /\ Plain(a \o b)
  BY <1>1
<1>3. Plan((a \o b) \o c, 4 + 2) /\ Plain((a \o b) \o c)
  BY <1>2, Both
<1>4. Plan((a \o b) \o c, 6) /\ Plain((a \o b) \o c)
  BY <1>3
<1>5. Plan(((a \o b) \o c) \o d, 6 + 2) /\ Plain(((a \o b) \o c) \o d)
  BY <1>4, Both
<1> QED BY <1>5

\* What is set after a recalculation: measurements or lights, and no other recalculation.
Recalculated(s) == Plan(s, 10) /\ Plain(s)

LEMMA FourLights ==
  ASSUME LampAssumption, NEW a \in Light, NEW b \in Light, NEW c \in Light, NEW d \in Light,
         NEW w \in Int, NEW x \in Int, NEW y \in Int, NEW z \in Int
  PROVE  /\ Recalculated(SetLight(a, w) \o SetLight(b, x) \o SetLight(c, y) \o SetLight(d, z))
         /\ \A e \in Light, v \in Int :
              Recalculated(SetLight(a, w) \o SetLight(b, x) \o SetLight(c, y) \o SetLight(d, z)
                             \o SetLight(e, v))
<1> DEFINE s == SetLight(a, w) \o SetLight(b, x) \o SetLight(c, y) \o SetLight(d, z)
<1>1. Plan(s, 8) /\ Plain(s)
  BY Four, LightIsSet
<1> HIDE DEF s
<1>2. Recalculated(s)
  <2>1. Len(s) <= 8 /\ Len(s) \in Nat
    BY <1>1, LenProperties DEF Plan
  <2> QED BY <1>1, <2>1 DEF Recalculated, Plan
<1>3. ASSUME NEW e \in Light, NEW v \in Int PROVE Recalculated(s \o SetLight(e, v))
  <2>1. Plan(s \o SetLight(e, v), 8 + 2) /\ Plain(s \o SetLight(e, v))
    BY <1>1, LightIsSet, Both
  <2> QED BY <2>1 DEF Recalculated
<1> QED BY <1>2, <1>3 DEF s

StoredType == /\ stored \in [Channels -> Int]
              /\ \A c \in Channels : stored[c] \in 0..MaxOf(c)

LEMMA YellowLights ==
  ASSUME LampAssumption, Yellow, NEW h \in Int, NEW s \in Int, NEW v \in Int
  PROVE  Recalculated(hsvToRgbYellow(h, s, v))
<1> DEFINE full == (8 * One) \div 10
           over == 2 * (v - full)
           c == Sector(h, s, v)
           w == Lower(full, Min({c.r, c.g, c.b}))
           y == Min({c.r, c.g}) - w
<1>1. {"red", "green", "blue", "white", "yellow"} \subseteq Light
  BY DEF Light
<1>2. One \in Int /\ full \in Int /\ over \in Int
  BY Constants
<1>3. c.r \in Int /\ c.g \in Int /\ c.b \in Int
  BY SectorIsLight
<1> HIDE DEF full, over, c
<1>4. w \in Int /\ y \in Int
  <2>1. Min({c.r, c.g, c.b}) \in Int /\ Min({c.r, c.g}) \in Int
    BY <1>3, Extremes, ExtremesOfTwo
  <2> QED BY <1>2, <2>1 DEF Lower
<1> HIDE DEF w, y
<1>5. Recalculated(SetLight("white", 2 * v) \o SetLight("red", 0) \o SetLight("green", 0)
                     \o SetLight("blue", 0) \o SetLight("yellow", 0))
  BY <1>1, FourLights
<1>6. Recalculated(SetLight("white", One) \o SetLight("red", over) \o SetLight("green", over)
                     \o SetLight("blue", over))
  BY <1>1, <1>2, FourLights
<1>7. Recalculated(SetLight("yellow", 2 * y) \o SetLight("white", 2 * w)
                     \o SetLight("red", 2 * (c.r - w - y)) \o SetLight("green", 2 * (c.g - w - y))
                     \o SetLight("blue", 2 * (c.b - w)))
  <2>1. PICK y2 \in Int, w2 \in Int, r2 \in Int, g2 \in Int, b2 \in Int :
          /\ y2 = 2 * y /\ w2 = 2 * w /\ b2 = 2 * (c.b - w)
          /\ r2 = 2 * (c.r - w - y) /\ g2 = 2 * (c.g - w - y)
    BY <1>3, <1>4
  <2>2. Recalculated(SetLight("yellow", y2) \o SetLight("white", w2) \o SetLight("red", r2)
                       \o SetLight("green", g2) \o SetLight("blue", b2))
    BY <1>1, FourLights
  <2> QED BY <2>1, <2>2
<1>8. s = 0 \/ s # 0
  OBVIOUS
<1>9. (v < full /\ ~(v >= full)) \/ (v >= full /\ ~(v < full))
  BY <1>2
<1>10. hsvToRgbYellow(h, s, v) =
         IF s # 0
         THEN SetLight("yellow", 2 * y) \o SetLight("white", 2 * w)
                \o SetLight("red", 2 * (c.r - w - y)) \o SetLight("green", 2 * (c.g - w - y))
                \o SetLight("blue", 2 * (c.b - w))
         ELSE IF v < full
         THEN SetLight("white", 2 * v) \o SetLight("red", 0) \o SetLight("green", 0)
                \o SetLight("blue", 0) \o SetLight("yellow", 0)
         ELSE SetLight("white", One) \o SetLight("red", over) \o SetLight("green", over)
                \o SetLight("blue", over)
  BY <1>9 DEF hsvToRgbYellow, full, over, c, w, y
<1> QED BY <1>5, <1>6, <1>7, <1>10

LEMMA WhiteLights ==
  ASSUME LampAssumption, NEW h \in Int, NEW s \in Int, NEW v \in Int
  PROVE  Recalculated(hsvToRgbWhite(h, s, v))
<1> DEFINE half == One \div 2
           over == 2 * (v - half)
           c == Sector(h, s, v)
           w == Lower(half, Min({c.r, c.g, c.b}))
<1>1. {"red", "green", "blue", "white"} \subseteq Light
  BY DEF Light
<1>2. One \in Int /\ half \in Int /\ over \in Int
  BY Constants
<1>3. c.r \in Int /\ c.g \in Int /\ c.b \in Int
  BY SectorIsLight
<1> HIDE DEF half, over, c
<1>4. w \in Int
  <2>1. Min({c.r, c.g, c.b}) \in Int
    BY <1>3, Extremes
  <2> QED BY <1>2, <2>1 DEF Lower
<1> HIDE DEF w
<1>5. Recalculated(SetLight("white", 2 * v) \o SetLight("red", 0) \o SetLight("green", 0)
                     \o SetLight("blue", 0))
  BY <1>1, FourLights
<1>6. Recalculated(SetLight("white", One) \o SetLight("red", over) \o SetLight("green", over)
                     \o SetLight("blue", over))
  BY <1>1, <1>2, FourLights
<1>7. Recalculated(SetLight("white", 2 * w) \o SetLight("red", 2 * (c.r - w))
                     \o SetLight("green", 2 * (c.g - w)) \o SetLight("blue", 2 * (c.b - w)))
  <2>1. /\ 2 * w \in Int /\ 2 * (c.b - w) \in Int
        /\ 2 * (c.r - w) \in Int /\ 2 * (c.g - w) \in Int
    BY <1>3, <1>4
  <2> QED BY <1>1, <2>1, FourLights
<1>8. (v < half /\ ~(v >= half)) \/ (v >= half /\ ~(v < half))
  BY <1>2
<1>9. hsvToRgbWhite(h, s, v) =
        IF s # 0
        THEN SetLight("white", 2 * w) \o SetLight("red", 2 * (c.r - w))
               \o SetLight("green", 2 * (c.g - w)) \o SetLight("blue", 2 * (c.b - w))
        ELSE IF v < half
        THEN SetLight("white", 2 * v) \o SetLight("red", 0) \o SetLight("green", 0)
               \o SetLight("blue", 0)
        ELSE SetLight("white", One) \o SetLight("red", over) \o SetLight("green", over)
               \o SetLight("blue", over)
  BY <1>8 DEF hsvToRgbWhite, half, over, c, w
<1> QED BY <1>5, <1>6, <1>7, <1>9

LEMMA LightsRecalculated ==
  ASSUME LampAssumption, StoredType
  PROVE  Recalculated(ToLights)
<1>1. stored["hue"] \in Int /\ stored["saturation"] \in Int /\ stored["value"] \in Int
  BY DEF StoredType, Channels, Model
<1> QED BY <1>1, YellowLights, WhiteLights DEF ToLights

SetsModel(q, m) ==
  /\ m \in Int
  /\ \E sat \in Int, hue \in Int :
       q = SetModel("value", m) \o SetModel("saturation", sat) \o SetModel("hue", hue)

LEMMA RgbIsModel ==
  ASSUME LampAssumption, NEW r \in Nat, NEW g \in Nat, NEW b \in Nat
  PROVE  SetsModel(FromRgb(r, g, b), Max({r, g, b}))
<1> DEFINE max == Max({r, g, b})
           delta == max - Min({r, g, b})
           sector == CASE r = max -> (60 * (g - b)) \div delta
                       [] r # max /\ g = max -> 120 + (60 * (b - r)) \div delta
                       [] OTHER -> 240 + (60 * (r - g)) \div delta
           h == IF delta = 0 THEN 0 ELSE IF sector < 0 THEN sector + 360 ELSE sector
           s == IF delta = 0 THEN 0 ELSE (delta * One) \div max
<1>1. /\ max \in Int /\ delta \in Int /\ delta >= 0 /\ One \in Int
      /\ delta # 0 => max > 0 /\ delta > 0
  <2>1. PICK m \in Int, l \in Int : /\ m = Max({r, g, b}) /\ l = Min({r, g, b})
                                    /\ l <= r /\ r <= m /\ l <= g /\ l <= b
    <3>1. r \in Int /\ g \in Int /\ b \in Int
      OBVIOUS
    <3>2. /\ Max({r, g, b}) \in Int /\ Min({r, g, b}) \in Int
          /\ Min({r, g, b}) <= r /\ r <= Max({r, g, b})
          /\ Min({r, g, b}) <= g /\ Min({r, g, b}) <= b
      BY <3>1, Extremes
    <3> QED BY <3>2
  <2>2. l \in {r, g, b}
    <3>1. \E x \in {r, g, b} : \A z \in {r, g, b} : x =< z
      OBVIOUS
    <3> QED BY <2>1, <3>1 DEF Min
  <2> QED BY <2>1, <2>2, Constants
<1> HIDE DEF max, delta
<1>2. h \in Int
  <2>1. CASE delta # 0
    <3>1. \A x \in Int : x \div delta \in Int
      BY <1>1, <2>1
    <3>2. PICK x \in Int, y \in Int, z \in Int :
            x = 60 * (g - b) /\ y = 60 * (b - r) /\ z = 60 * (r - g)
      OBVIOUS
    <3>3. x \div delta \in Int /\ y \div delta \in Int /\ z \div delta \in Int
      BY <3>1
    <3>4. PICK xd \in Int, yd \in Int, zd \in Int :
            xd = x \div delta /\ yd = y \div delta /\ zd = z \div delta
      BY <3>3
    <3>5. sector = CASE r = max -> xd
                     [] r # max /\ g = max -> 120 + yd
                     [] OTHER -> 240 + zd
      BY <3>2, <3>4
    <3>6. sector \in Int
      BY <3>5
    <3> QED BY <3>6
  <2> QED BY <2>1
<1>3. s \in Int
  <2>1. PICK x \in Int : x = delta * One
    BY <1>1
  <2>2. delta # 0 => x \div max \in Int
    BY <1>1
  <2> QED BY <2>1, <2>2
<1>4. /\ FromRgb(r, g, b) =
           SetModel("value", max) \o SetModel("saturation", s) \o SetModel("hue", h)
      /\ max = Max({r, g, b})
  BY DEF FromRgb, max, delta
<1> HIDE DEF h, s
<1> QED BY <1>1, <1>2, <1>3, <1>4 DEF SetsModel

LEMMA ModelFromRgb ==
  ASSUME LampAssumption, NEW r \in Nat, NEW g \in Nat, NEW b \in Nat
  PROVE  Recalculated(FromRgb(r, g, b))
<1>1. PICK max \in Int, s \in Int, h \in Int :
        FromRgb(r, g, b) =
          SetModel("value", max) \o SetModel("saturation", s) \o SetModel("hue", h)
  <2>1. SetsModel(FromRgb(r, g, b), Max({r, g, b}))
    BY RgbIsModel
  <2> QED BY <2>1 DEF SetsModel
<1>4. {"value", "saturation", "hue"} \subseteq Model
  BY DEF Model
<1>5. /\ Plan(SetModel("value", max) \o SetModel("saturation", s), 1 + 1)
      /\ Plain(SetModel("value", max) \o SetModel("saturation", s))
  BY <1>4, ModelIsSet, Both
<1>6. /\ Plan(SetModel("value", max) \o SetModel("saturation", s), 2)
      /\ Plan(SetModel("hue", h), 1) /\ Plain(SetModel("hue", h))
  BY <1>4, <1>5, ModelIsSet
<1> DEFINE all == SetModel("value", max) \o SetModel("saturation", s) \o SetModel("hue", h)
<1>7. Plan(all, 2 + 1) /\ Plain(all)
  BY <1>5, <1>6, Both
<1>8. Recalculated(all)
  <2> HIDE DEF all
  <2>1. Len(all) \in Nat /\ Len(all) <= 3
    BY <1>7, LenProperties DEF Plan
  <2> QED BY <1>7, <2>1 DEF Recalculated, Plan
<1> QED BY <1>1, <1>8

LEMMA ModelRecalculated ==
  ASSUME LampAssumption, StoredType
  PROVE  Recalculated(ToModel)
<1>1. /\ stored["red"] \in Nat /\ stored["green"] \in Nat
      /\ stored["blue"] \in Nat /\ stored["white"] \in Nat
      /\ Yellow => stored["yellow"] \in Nat
  BY Constants DEF StoredType, Channels, Light
<1>2. /\ One \in Nat /\ (8 * One) \div 10 \in Nat /\ (2 * One) \div 10 \in Nat
      /\ One \div 2 \in Nat
  BY Constants
<1>3. \A a \in Nat, b \in Nat : Lower(a, b) \in Nat
  BY DEF Lower
<1>4. CASE Yellow
  <2>1. PICK w \in Nat, y \in Nat, xr \in Nat, xg \in Nat, xb \in Nat :
          /\ w = Times(stored["white"], (8 * One) \div 10)
          /\ y = Times(stored["yellow"], (2 * One) \div 10)
          /\ xr = Times(stored["red"], (2 * One) \div 10)
          /\ xg = Times(stored["green"], (2 * One) \div 10)
          /\ xb = Times(stored["blue"], (2 * One) \div 10)
    BY <1>1, <1>2, <1>4, NaturalProduct
  <2>2. PICK r \in Nat, g \in Nat, b \in Nat :
          /\ r = Lower(One, xr + w + y) /\ g = Lower(One, xg + w + y)
          /\ b = Lower(One, xb + w + 0)
    <3>1. xr + w + y \in Nat /\ xg + w + y \in Nat /\ xb + w + 0 \in Nat
      OBVIOUS
    <3>2. PICK sr \in Nat, sg \in Nat, sb \in Nat :
            sr = xr + w + y /\ sg = xg + w + y /\ sb = xb + w + 0
      BY <3>1
    <3>3. Lower(One, sr) \in Nat /\ Lower(One, sg) \in Nat /\ Lower(One, sb) \in Nat
      BY <1>2, <1>3
    <3> QED BY <3>2, <3>3
  <2>3. Recalculated(FromRgb(r, g, b))
    BY ModelFromRgb
  <2>4. ToModel = FromRgb(r, g, b)
    BY <1>4, <2>1, <2>2 DEF ToModel, rgbToHsvYellow
  <2> QED BY <2>3, <2>4
<1>5. CASE ~Yellow
  <2>1. PICK w \in Nat, xr \in Nat, xg \in Nat, xb \in Nat :
          /\ w = Times(stored["white"], One \div 2)
          /\ xr = Times(stored["red"], One \div 2)
          /\ xg = Times(stored["green"], One \div 2)
          /\ xb = Times(stored["blue"], One \div 2)
    BY <1>1, <1>2, NaturalProduct
  <2>2. PICK r \in Nat, g \in Nat, b \in Nat : r = xr + w /\ g = xg + w /\ b = xb + w
    OBVIOUS
  <2>3. Recalculated(FromRgb(r, g, b))
    BY ModelFromRgb
  <2>4. ToModel = FromRgb(r, g, b)
    BY <1>5, <2>1, <2>2 DEF ToModel, rgbToHsvWhite
  <2> QED BY <2>3, <2>4
<1> QED BY <1>4, <1>5

-----------------------------------------------------------------------------
(* The types *)

\* A shadow register that was read is kept only until the chip is written.
ShadowType ==
  \A t \in Thread : \/ ls0[t] = <<>>
                    \/ /\ ~Yellow
                       /\ Len(todo[t]) > 0 /\ todo[t][1][1] = "chip"
                       /\ \E f \in [Led -> 0..One] : ls0[t] = <<f>>
TypesInv ==
  /\ chip \in [Led -> 0..One]
  /\ StoredType
  /\ autoHue \in BOOLEAN /\ mixed \in BOOLEAN
  /\ oldValue \in 0..One
  /\ todo \in [Thread -> Seq(Op)]
  /\ \A t \in Thread : Rest(todo[t])
  /\ DOMAIN ls0 = Thread
  /\ ls0 = [t \in Thread |-> ls0[t]]
  /\ ShadowType
  /\ raced \subseteq Light
  /\ sets \in 0..MaxSets

LEMMA TypesFollow ==
  ASSUME LampAssumption, TypesInv
  PROVE  TypeOK
<1>1. DOMAIN stored = Light \cup Model /\ \A c \in DOMAIN stored : stored[c] \in 0..MaxOf(c)
  BY DEF TypesInv, StoredType, Channels
<1>2. \A t \in Thread : Len(todo[t]) <= 12
  BY DEF TypesInv, Rest
<1>3. ASSUME NEW t \in Thread PROVE Len(ls0[t]) <= 1
  <2>1. ls0[t] = <<>> \/ \E f : ls0[t] = <<f>>
    BY DEF TypesInv, ShadowType
  <2>2. CASE ls0[t] = <<>>
    BY <2>2
  <2>3. ASSUME NEW f, ls0[t] = <<f>> PROVE Len(ls0[t]) <= 1
    <3>1. Len(<<f>>) = 1
      OBVIOUS
    <3> QED BY <2>3, <3>1
  <2> QED BY <2>1, <2>2, <2>3
<1> QED BY <1>1, <1>2, <1>3 DEF TypesInv, TypeOK

LEMMA TypesInit ==
  ASSUME LampAssumption, Init
  PROVE  TypesInv
<1>1. chip \in [Led -> 0..One]
  BY Constants DEF Init
<1>2. StoredType
  <2>1. stored = [c \in Channels |-> 0]
    BY DEF Init, Channels
  <2>2. \A c : MaxOf(c) \in Nat
    BY Constants
  <2> QED BY <2>1, <2>2 DEF StoredType
<1>3. Rest(<<>>) /\ <<>> \in Seq(Op)
  BY EmptySeq DEF Rest, InPairs, FewAfter
<1>4. raced \subseteq Light
  BY DEF Init, Light
<1>5. oldValue \in 0..One /\ sets \in 0..MaxSets
  BY Constants DEF Init
<1> QED BY <1>1, <1>2, <1>3, <1>4, <1>5 DEF Init, TypesInv, ShadowType

\* What is left after the first operation.
LEMMA RestGoesOn ==
  ASSUME NEW s, Rest(s), Len(s) > 0
  PROVE  /\ Rest(Tail(s)) /\ s[1] \in Op /\ Head(s) = s[1] /\ Len(Tail(s)) = Len(s) - 1
         /\ s[1][1] = "chip" => /\ Len(Tail(s)) > 0
                                /\ Tail(s)[1] = <<"store", s[1][2], s[1][3]>>
         /\ s[1][1] # "chip" => Fresh(Tail(s))
         /\ Recalculating(s[1]) => Len(Tail(s)) <= 2
<1>1. s \in Seq(Op) /\ Len(s) \in Nat /\ s # <<>>
  BY LenProperties DEF Rest
<1>2. /\ Tail(s) \in Seq(Op) /\ Len(Tail(s)) = Len(s) - 1 /\ Head(s) = s[1]
      /\ \A k \in 1..Len(Tail(s)) : Tail(s)[k] = s[k + 1]
  BY <1>1, HeadTailProperties
<1> DEFINE q == Tail(s)
<1>3. /\ q \in Seq(Op) /\ Len(q) = Len(s) - 1 /\ Len(q) \in Nat
      /\ \A k \in 1..Len(q) : q[k] = s[k + 1] /\ k + 1 \in 1..Len(s) /\ (k + 1) - 1 = k
  BY <1>1, <1>2
<1> HIDE DEF q
<1>4. InPairs(q)
  <2> SUFFICES ASSUME NEW k \in 1..Len(q)
               PROVE  /\ q[k][1] = "chip" => k < Len(q) /\ q[k + 1] = <<"store", q[k][2], q[k][3]>>
                      /\ StoresLight(q[k]) =>
                           k = 1 \/ (q[k - 1][1] = "chip" /\ q[k - 1][2] = q[k][2])
    BY DEF InPairs
  <2>1. q[k] = s[k + 1] /\ k + 1 \in 1..Len(s)
    BY <1>3
  <2>2. /\ s[k + 1][1] = "chip" =>
             k + 1 < Len(s) /\ s[(k + 1) + 1] = <<"store", s[k + 1][2], s[k + 1][3]>>
        /\ StoresLight(s[k + 1]) =>
             k + 1 = 1 \/ (s[(k + 1) - 1][1] = "chip" /\ s[(k + 1) - 1][2] = s[k + 1][2])
    BY <2>1 DEF Rest, InPairs
  <2>3. k + 1 < Len(s) => k < Len(q) /\ q[k + 1] = s[(k + 1) + 1]
    <3>1. k + 1 < Len(s) => k + 1 \in 1..Len(q)
      BY <1>1, <1>3
    <3> QED BY <1>1, <1>3, <3>1
  <2>4. k # 1 => q[k - 1] = s[(k + 1) - 1] /\ k + 1 # 1
    <3>1. k # 1 => k - 1 \in 1..Len(q) /\ (k - 1) + 1 = (k + 1) - 1 /\ k + 1 # 1
      BY <1>3
    <3> QED BY <1>3, <3>1
  <2> QED BY <2>1, <2>2, <2>3, <2>4
<1>5. FewAfter(q, 2)
  <2> SUFFICES ASSUME NEW k \in 1..Len(q), Recalculating(q[k]) PROVE Len(q) - k <= 2
    BY DEF FewAfter
  <2>1. Recalculating(s[k + 1]) /\ k + 1 \in 1..Len(s)
    BY <1>3
  <2>2. Len(s) - (k + 1) <= 2
    BY <2>1 DEF Rest, FewAfter
  <2> QED BY <1>1, <1>3, <2>2
<1>6. Len(q) <= 12
  BY <1>1, <1>3 DEF Rest
<1>7. s[1][1] = "chip" => Len(q) > 0 /\ q[1] = <<"store", s[1][2], s[1][3]>>
  <2>1. s[1][1] = "chip" => 1 < Len(s) /\ s[1 + 1] = <<"store", s[1][2], s[1][3]>>
    BY <1>1 DEF Rest, InPairs
  <2>2. Len(q) > 0 => q[1] = s[1 + 1]
    BY <1>3
  <2> QED BY <1>1, <1>3, <2>1, <2>2
<1>8. s[1][1] # "chip" => Fresh(q)
  <2> SUFFICES ASSUME Len(q) > 0, StoresLight(q[1]) PROVE s[1][1] = "chip"
    BY DEF Fresh
  <2>1. q[1] = s[2] /\ 2 \in 1..Len(s) /\ 2 - 1 = 1
    BY <1>3
  <2>2. StoresLight(s[2]) => 2 = 1 \/ (s[2 - 1][1] = "chip" /\ s[2 - 1][2] = s[2][2])
    BY <2>1 DEF Rest, InPairs
  <2> QED BY <2>1, <2>2
<1>9. Recalculating(s[1]) => Len(q) <= 2
  <2>1. Recalculating(s[1]) => Len(s) - 1 <= 2
    BY <1>1 DEF Rest, FewAfter
  <2> QED BY <1>3, <2>1
<1>10. Rest(q)
  BY <1>3, <1>4, <1>5, <1>6 DEF Rest
<1>11. s[1] \in Op
  <2>1. 1 \in 1..Len(s)
    BY <1>1
  <2> QED BY <1>1, <2>1, ElementOfSeq
<1> QED BY <1>2, <1>7, <1>8, <1>9, <1>10, <1>11 DEF q

\* What follows a recalculation comes after what it sets.
LEMMA RestRecalculates ==
  ASSUME NEW s, Rest(s), Len(s) > 0, Recalculating(s[1]), NEW p, Recalculated(p)
  PROVE  Rest(p \o Tail(s)) /\ Fresh(p \o Tail(s))
<1>1. Rest(Tail(s)) /\ Fresh(Tail(s)) /\ Len(Tail(s)) <= 2
  BY RestGoesOn DEF Recalculating
<1>2. Plan(Tail(s), 2) /\ FewAfter(Tail(s), 2)
  BY <1>1 DEF Rest, Plan
<1>3. Plan(p, 10) /\ Plain(p)
  BY DEF Recalculated
<1>4. Plan(p \o Tail(s), 10 + 2) /\ FewAfter(p \o Tail(s), 2)
  BY <1>2, <1>3, Both
<1> QED BY <1>4 DEF Plan, Rest

\* What a button, an encoder or a request begins.
LEMMA PlanIsRest ==
  ASSUME NEW s, NEW m \in Nat, Plan(s, m), m <= 12, FewAfter(s, 2)
  PROVE  Rest(s) /\ Fresh(s)
<1>1. Len(s) \in Nat
  BY LenProperties DEF Plan
<1> QED BY <1>1 DEF Plan, Rest

-----------------------------------------------------------------------------
(* The LEDs *)

\* A thread has set the chip for c and not yet the measurement, or has read its register.
Storing(t, c) == Len(todo[t]) > 0 /\ todo[t][1][1] = "store" /\ todo[t][1][2] = c
Reading(t, c) == ls0[t] # <<>> /\ todo[t][1][2] = c
Busy(t, c) == \E d \in Pair(c) : Storing(t, d) \/ Reading(t, d)

\* What was set by both threads at a time is known to be.
RacedInv == \A c \in Light : (\A t \in Thread : Busy(t, c)) => Pair(c) \subseteq raced
\* Any other light shines as its measurement says, or will say; and who is about to write the
\* register of its chip writes back what it shows.
ShownInv ==
  \A c \in Light \ raced :
    /\ \A t \in Thread : Storing(t, c) => \A l \in LedsOf(c) : chip[l] = todo[t][1][3]
    /\ (\A t \in Thread : ~Storing(t, c) /\ ~Reading(t, c)) =>
         \A l \in LedsOf(c) : chip[l] = stored[c]
    /\ \A t \in Thread, d \in Pair(c) \ {c} : Reading(t, d) => ls0[t][1][c] = chip[c]
LightsInv == RacedInv /\ ShownInv

LEMMA ShownFollows ==
  ASSUME TypesInv, LightsInv
  PROVE  LampShowsValues
<1> SUFFICES ASSUME NEW c \in Light \ raced, \A t \in Thread : ~Inside(t, Pair(c))
             PROVE  \A l \in LedsOf(c) : chip[l] = stored[c]
  BY DEF LampShowsValues
<1>1. \A t \in Thread : ~Storing(t, c) /\ ~Reading(t, c)
  BY Lights DEF LightFacts, Inside, Storing, Reading
<1> QED BY <1>1 DEF LightsInv, ShownInv

LEMMA LightsInit ==
  ASSUME Init
  PROVE  LightsInv
<1>1. \A t \in Thread : \A c : ~Storing(t, c) /\ ~Reading(t, c)
  BY EmptySeq DEF Init, Storing, Reading
<1>2. RacedInv
  BY <1>1 DEF RacedInv, Busy, Thread
<1>3. ASSUME NEW c \in Light \ raced, NEW l \in LedsOf(c)
      PROVE  chip[l] = stored[c]
  <2>1. stored[c] = 0
    BY DEF Init
  <2>2. l # "white2"
    BY DEF Init, LedsOf, Light, Led
  <2>3. l \in Led
    BY Lights DEF LightFacts
  <2> QED BY <2>1, <2>2, <2>3 DEF Init
<1>4. ShownInv
  BY <1>1, <1>3 DEF ShownInv
<1> QED BY <1>2, <1>4 DEF LightsInv

\* A step of a thread that neither sets a light nor reads a register.
LEMMA Aside ==
  ASSUME LightsInv, NEW t \in Thread, NEW q, todo' = [todo EXCEPT ![t] = q],
         DOMAIN todo = Thread, Fresh(q), ls0[t] = <<>>, \A c \in Light : ~Storing(t, c),
         chip' = chip, ls0' = ls0, raced' = raced, \A c \in Light : stored'[c] = stored[c]
  PROVE  LightsInv'
<1>1. /\ \A u \in Thread : u # t => todo'[u] = todo[u]
      /\ todo'[t] = q
  OBVIOUS
<1>2. \A u \in Thread, c \in Light : /\ Storing(u, c)' <=> Storing(u, c)
                                     /\ Reading(u, c)' <=> Reading(u, c)
                                     /\ Storing(u, c) => todo'[u] = todo[u]
  BY <1>1 DEF Storing, Reading, Fresh, StoresLight
<1>3. \A u \in Thread, c \in Light : Busy(u, c)' <=> Busy(u, c)
  BY <1>2, Lights DEF Busy, LightFacts
<1>4. RacedInv'
  BY <1>3 DEF RacedInv, LightsInv
<1>5. ShownInv'
  <2> SUFFICES ASSUME NEW c \in Light \ raced
               PROVE  /\ \A u \in Thread : Storing(u, c)' =>
                           \A l \in LedsOf(c) : chip'[l] = todo'[u][1][3]
                      /\ (\A u \in Thread : ~Storing(u, c)' /\ ~Reading(u, c)') =>
                           \A l \in LedsOf(c) : chip'[l] = stored'[c]
                      /\ \A u \in Thread, d \in Pair(c) \ {c} :
                           Reading(u, d)' => ls0'[u][1][c] = chip'[c]
    BY DEF ShownInv
  <2>1. Pair(c) \subseteq Light
    BY Lights DEF LightFacts
  <2> QED BY <1>2, <2>1 DEF ShownInv, LightsInv
<1> QED BY <1>4, <1>5 DEF LightsInv

\* The light that the first operation of t sets.
LEMMA ChipOp ==
  ASSUME TypesInv, NEW t \in Thread, Doing(t, "chip")
  PROVE  /\ Len(todo[t]) > 0 /\ Rest(todo[t]) /\ todo[t][1] \in Op
         /\ todo[t][1][1] = "chip" /\ todo[t][1][2] \in Light /\ todo[t][1][3] \in 0..One
         /\ \A c \in Light : ~Storing(t, c)
<1>1. Rest(todo[t]) /\ todo[t] \in Seq(Op) /\ Len(todo[t]) \in Nat /\ todo[t] # <<>>
  BY LenProperties DEF TypesInv, Rest, Doing
<1>2. Len(todo[t]) > 0
  BY <1>1
<1>3. todo[t][1] \in Op /\ Head(todo[t]) = todo[t][1]
  BY <1>1, <1>2, RestGoesOn
<1>4. todo[t][1][1] = "chip"
  BY <1>3 DEF Doing
<1> QED BY <1>1, <1>2, <1>3, <1>4, OpFacts DEF Storing

LEMMA ReadShadowShows ==
  ASSUME TypesInv, LightsInv, NEW t \in Thread, ReadShadow(t)
  PROVE  LightsInv'
<1> DEFINE d == todo[t][1][2]
           u == Other(t)
<1>1. d \in Light /\ \A c \in Light : ~Storing(t, c)
  BY ChipOp DEF ReadShadow
<1>2. u \in Thread /\ u # t /\ \A w \in Thread : w = t \/ w = u
  BY Threads
<1>3. /\ chip' = chip /\ stored' = stored /\ todo' = todo /\ ls0[t] = <<>>
      /\ ls0'[t] = <<chip>> /\ ls0'[u] = ls0[u]
      /\ raced' = IF Inside(u, Pair(d)) THEN raced \cup Pair(d) ELSE raced \ {d}
  BY <1>2 DEF ReadShadow, TypesInv, Races
<1>4. Inside(u, Pair(d)) <=> Busy(u, d)
  BY DEF Inside, Busy, Storing, Reading
<1>5. \A c \in Light : /\ ~Storing(t, c)' /\ ~Reading(t, c) /\ (Reading(t, c)' <=> c = d)
                       /\ Storing(u, c)' <=> Storing(u, c)
                       /\ Reading(u, c)' <=> Reading(u, c)
  BY <1>1, <1>3 DEF Storing, Reading
<1> HIDE DEF d, u
<1>6. \A c \in Light : /\ Busy(u, c)' <=> Busy(u, c)
                       /\ Busy(t, c)' <=> c \in Pair(d)
                       /\ c \in Pair(d) => Pair(c) = Pair(d) /\ (Busy(u, c) <=> Busy(u, d))
                       /\ c \notin Pair(d) => Pair(c) \cap Pair(d) = {} /\ c # d
  BY <1>1, <1>5, Lights DEF Busy, LightFacts
<1>7. RacedInv'
  <2> SUFFICES ASSUME NEW c \in Light, \A w \in Thread : Busy(w, c)'
               PROVE  Pair(c) \subseteq raced'
    BY DEF RacedInv
  <2>1. Busy(u, c) /\ c \in Pair(d)
    BY <1>2, <1>6
  <2> QED BY <1>3, <1>4, <1>6, <2>1
<1>8. ShownInv'
  <2> SUFFICES ASSUME NEW c \in Light, c \notin raced'
               PROVE  /\ \A w \in Thread : Storing(w, c)' =>
                           \A l \in LedsOf(c) : chip'[l] = todo'[w][1][3]
                      /\ (\A w \in Thread : ~Storing(w, c)' /\ ~Reading(w, c)') =>
                           \A l \in LedsOf(c) : chip'[l] = stored'[c]
                      /\ \A w \in Thread, e \in Pair(c) \ {c} :
                           Reading(w, e)' => ls0'[w][1][c] = chip'[c]
    BY DEF ShownInv
  <2>1. Pair(c) \subseteq Light /\ c \in Pair(c)
    BY Lights DEF LightFacts
  <2>2. CASE c = d
    <3>1. ~Busy(u, d) /\ d \in Pair(d)
      BY <1>3, <1>4, <2>1, <2>2
    <3>2. \A e \in Pair(d) : ~Storing(u, e) /\ ~Reading(u, e)
      BY <3>1 DEF Busy
    <3> QED BY <1>2, <1>5, <2>1, <2>2, <3>2
  <2>3. CASE c # d
    <3>1. c \notin raced
      BY <1>3, <2>3
    <3>2. /\ \A w \in Thread : Storing(w, c) => \A l \in LedsOf(c) : chip[l] = todo[w][1][3]
          /\ (\A w \in Thread : ~Storing(w, c) /\ ~Reading(w, c)) =>
               \A l \in LedsOf(c) : chip[l] = stored[c]
          /\ \A w \in Thread, e \in Pair(c) \ {c} : Reading(w, e) => ls0[w][1][c] = chip[c]
      BY <3>1 DEF LightsInv, ShownInv
    <3>3. ls0'[t][1][c] = chip[c]
      BY <1>3
    <3>4. \A w \in Thread : Storing(w, c)' => \A l \in LedsOf(c) : chip'[l] = todo'[w][1][3]
      BY <1>2, <1>3, <1>5, <3>2
    <3>5. (\A w \in Thread : ~Storing(w, c)' /\ ~Reading(w, c)') =>
             \A l \in LedsOf(c) : chip'[l] = stored'[c]
      BY <1>1, <1>2, <1>3, <1>5, <2>3, <3>2
    <3>6. ASSUME NEW w \in Thread, NEW e \in Pair(c) \ {c}, Reading(w, e)'
          PROVE  ls0'[w][1][c] = chip'[c]
      <4>1. CASE w = t
        BY <1>3, <3>3, <4>1
      <4>2. CASE w = u
        <5>1. Reading(u, e)
          BY <1>5, <2>1, <3>6, <4>2
        <5> QED BY <1>3, <3>2, <4>2, <5>1
      <4> QED BY <1>2, <4>1, <4>2
    <3> QED BY <3>4, <3>5, <3>6
  <2> QED BY <2>2, <2>3
<1> QED BY <1>7, <1>8 DEF LightsInv

LEMMA WriteChipShows ==
  ASSUME TypesInv, LightsInv, NEW t \in Thread, WriteChip(t)
  PROVE  LightsInv'
<1> DEFINE d == todo[t][1][2]
           x == todo[t][1][3]
           u == Other(t)
<1>1. /\ d \in Light /\ \A c \in Light : ~Storing(t, c)
      /\ Rest(todo[t]) /\ Len(todo[t]) > 0 /\ todo[t][1][1] = "chip"
  BY ChipOp DEF WriteChip
<1>2. u \in Thread /\ u # t /\ \A w \in Thread : w = t \/ w = u
  BY Threads
<1>3. /\ stored' = stored /\ ls0'[t] = <<>> /\ ls0'[u] = ls0[u] /\ todo'[u] = todo[u]
      /\ todo'[t] = Tail(todo[t])
      /\ chip' = [l \in Led |-> CASE l \in LedsOf(d) -> x
                                  [] l \in Pair(d) \ LedsOf(d) -> ls0[t][1][l]
                                  [] OTHER -> chip[l]]
  BY <1>2 DEF WriteChip, GoOn, TypesInv
<1>4. /\ Yellow => raced' = IF Inside(u, Pair(d)) THEN raced \cup Pair(d) ELSE raced \ {d}
      /\ ~Yellow => raced' = raced /\ ls0[t] # <<>>
  BY DEF WriteChip, Races
<1>5. Inside(u, Pair(d)) <=> Busy(u, d)
  BY DEF Inside, Busy, Storing, Reading
<1>6. Len(todo'[t]) > 0 /\ todo'[t][1] = <<"store", d, x>>
  BY <1>1, <1>3, RestGoesOn
<1>7. \A c \in Light : /\ (Storing(t, c)' <=> c = d) /\ ~Reading(t, c)'
                       /\ Reading(t, c) => c = d
                       /\ ~Yellow => Reading(t, d)
                       /\ Storing(u, c)' <=> Storing(u, c)
                       /\ Reading(u, c)' <=> Reading(u, c)
  BY <1>3, <1>4, <1>6 DEF Storing, Reading
<1> HIDE DEF d, u, x
<1>8. \A c \in Light : /\ Busy(u, c)' <=> Busy(u, c)
                       /\ Busy(t, c)' <=> c \in Pair(d)
                       /\ ~Yellow => (Busy(t, c) <=> c \in Pair(d))
                       /\ c \in Pair(d) => Pair(c) = Pair(d) /\ (Busy(u, c) <=> Busy(u, d))
                       /\ c \notin Pair(d) => Pair(c) \cap Pair(d) = {} /\ c # d
                       /\ Yellow => Pair(c) = {c}
  BY <1>1, <1>7, Lights DEF Busy, LightFacts
<1>9. Busy(u, d) => Pair(d) \subseteq raced'
  <2>1. CASE Yellow
    BY <1>4, <1>5, <2>1
  <2>2. CASE ~Yellow
    <3>1. Busy(u, d) => \A w \in Thread : Busy(w, d)
      BY <1>1, <1>2, <1>8, <2>2, Lights DEF LightFacts
    <3> QED BY <1>1, <1>4, <2>2, <3>1 DEF LightsInv, RacedInv
  <2> QED BY <2>1, <2>2
<1>10. \A c \in Light : c # d => (c \in raced' <=> c \in raced)
  BY <1>1, <1>4, <1>8
<1>11. RacedInv'
  <2> SUFFICES ASSUME NEW c \in Light, \A w \in Thread : Busy(w, c)'
               PROVE  Pair(c) \subseteq raced'
    BY DEF RacedInv
  <2>1. Busy(u, c) /\ c \in Pair(d)
    BY <1>2, <1>8
  <2> QED BY <1>8, <1>9, <2>1
<1>12. ShownInv'
  <2> SUFFICES ASSUME NEW c \in Light, c \notin raced'
               PROVE  /\ \A w \in Thread : Storing(w, c)' =>
                           \A l \in LedsOf(c) : chip'[l] = todo'[w][1][3]
                      /\ (\A w \in Thread : ~Storing(w, c)' /\ ~Reading(w, c)') =>
                           \A l \in LedsOf(c) : chip'[l] = stored'[c]
                      /\ \A w \in Thread, e \in Pair(c) \ {c} :
                           Reading(w, e)' => ls0'[w][1][c] = chip'[c]
    BY DEF ShownInv
  <2>1. Pair(c) \subseteq Light /\ c \in Pair(c) /\ LedsOf(c) \subseteq Led /\ c \in Led
    BY Lights DEF LightFacts
  <2>2. CASE c = d
    <3>1. ~Busy(u, d) /\ d \in Pair(d)
      BY <1>9, <2>1, <2>2
    <3>2. \A e \in Pair(d) : ~Storing(u, e) /\ ~Reading(u, e)
      BY <3>1 DEF Busy
    <3>3. \A l \in LedsOf(c) : chip'[l] = todo'[t][1][3]
      BY <1>3, <1>6, <2>1, <2>2
    <3> QED BY <1>2, <1>7, <2>1, <2>2, <3>2, <3>3
  <2>3. CASE c # d
    <3>1. c \notin raced
      BY <1>10, <2>3
    <3>2. /\ \A w \in Thread : Storing(w, c) => \A l \in LedsOf(c) : chip[l] = todo[w][1][3]
          /\ (\A w \in Thread : ~Storing(w, c) /\ ~Reading(w, c)) =>
               \A l \in LedsOf(c) : chip[l] = stored[c]
          /\ \A w \in Thread, e \in Pair(c) \ {c} : Reading(w, e) => ls0[w][1][c] = chip[c]
      BY <3>1 DEF LightsInv, ShownInv
    <3>3. (\A l \in LedsOf(c) : chip'[l] = chip[l]) /\ chip'[c] = chip[c]
      <4>1. CASE c \notin Pair(d)
        <5>1. LedsOf(c) \cap (LedsOf(d) \cup Pair(d)) = {} /\ c \in LedsOf(c)
          BY <1>1, <4>1, Lights DEF LightFacts, LedsOf, Led
        <5> QED BY <1>3, <2>1, <5>1
      <4>2. CASE c \in Pair(d)
        <5>1. ~Yellow /\ Reading(t, d) /\ d \in Pair(c) \ {c}
          BY <1>1, <1>7, <1>8, <2>3, <4>2, Lights DEF LightFacts
        <5>2. LedsOf(c) = {c} /\ c \notin LedsOf(d)
          BY <1>1, <2>3, <5>1, Lights DEF LightFacts
        <5>3. ls0[t][1][c] = chip[c]
          BY <3>2, <5>1
        <5> QED BY <1>3, <2>1, <4>2, <5>2, <5>3
      <4> QED BY <4>1, <4>2
    <3>4. \A w \in Thread : Storing(w, c)' => \A l \in LedsOf(c) : chip'[l] = todo'[w][1][3]
      BY <1>2, <1>3, <1>7, <2>3, <3>2, <3>3
    <3>5. (\A w \in Thread : ~Storing(w, c)' /\ ~Reading(w, c)') =>
             \A l \in LedsOf(c) : chip'[l] = stored'[c]
      BY <1>1, <1>2, <1>3, <1>7, <2>3, <3>2, <3>3
    <3>6. ASSUME NEW w \in Thread, NEW e \in Pair(c) \ {c}, Reading(w, e)'
          PROVE  ls0'[w][1][c] = chip'[c]
      <4>1. w = u /\ Reading(u, e)
        BY <1>2, <1>7, <2>1, <3>6
      <4> QED BY <1>3, <3>2, <3>3, <4>1, <1>2
    <3> QED BY <3>4, <3>5, <3>6
  <2> QED BY <2>2, <2>3
<1> QED BY <1>11, <1>12 DEF LightsInv

LEMMA StoreShows ==
  ASSUME TypesInv, LightsInv, NEW t \in Thread, Store(t)
  PROVE  LightsInv'
<1> DEFINE d == todo[t][1][2]
           x == todo[t][1][3]
           u == Other(t)
<1>1. Rest(todo[t]) /\ todo[t] \in Seq(Op) /\ todo[t] # <<>>
  BY DEF TypesInv, Store, Doing
<1>2. Len(todo[t]) > 0 /\ Head(todo[t]) = todo[t][1]
  BY <1>1, LenProperties, RestGoesOn
<1>3. /\ todo[t][1][1] = "store" /\ Fresh(Tail(todo[t])) /\ d \in Channels
  BY <1>1, <1>2, RestGoesOn, OpFacts DEF Store, Doing
<1>4. ls0[t] = <<>>
  BY <1>3 DEF TypesInv, ShadowType
<1>5. /\ todo' = [todo EXCEPT ![t] = Tail(todo[t])] /\ DOMAIN todo = Thread
      /\ stored' = [stored EXCEPT ![d] = x] /\ chip' = chip /\ ls0' = ls0 /\ raced' = raced
      /\ DOMAIN stored = Channels
  BY DEF Store, GoOn, TypesInv, StoredType
<1>6. CASE d \notin Light
  <2>1. \A c \in Light : ~Storing(t, c) /\ stored'[c] = stored[c]
    BY <1>5, <1>6 DEF Storing
  <2> QED BY <1>3, <1>4, <1>5, <2>1, Aside
<1>7. CASE d \in Light
  <2>1. u \in Thread /\ u # t /\ \A w \in Thread : w = t \/ w = u
    BY Threads
  <2>2. /\ todo'[u] = todo[u] /\ todo'[t] = Tail(todo[t])
        /\ \A c \in Light : stored'[c] = IF c = d THEN x ELSE stored[c]
    BY <1>5, <2>1 DEF Channels
  <2>3. \A c \in Light : /\ ~Storing(t, c)' /\ ~Reading(t, c)' /\ ~Reading(t, c)
                         /\ Storing(t, c) <=> c = d
                         /\ Storing(u, c)' <=> Storing(u, c)
                         /\ Reading(u, c)' <=> Reading(u, c)
    BY <1>2, <1>3, <1>4, <1>5, <1>7, <2>2 DEF Storing, Reading, Fresh, StoresLight
  <2> HIDE DEF d, x, u
  <2>4. \A c \in Light, w \in Thread : Busy(w, c)' => Busy(w, c)
    BY <2>1, <2>3, Lights DEF Busy, LightFacts
  <2>5. RacedInv'
    BY <1>5, <2>4 DEF LightsInv, RacedInv
  <2>6. ShownInv'
    <3> SUFFICES ASSUME NEW c \in Light, c \notin raced
                 PROVE  /\ \A w \in Thread : Storing(w, c)' =>
                             \A l \in LedsOf(c) : chip'[l] = todo'[w][1][3]
                        /\ (\A w \in Thread : ~Storing(w, c)' /\ ~Reading(w, c)') =>
                             \A l \in LedsOf(c) : chip'[l] = stored'[c]
                        /\ \A w \in Thread, e \in Pair(c) \ {c} :
                             Reading(w, e)' => ls0'[w][1][c] = chip'[c]
      BY <1>5 DEF ShownInv
    <3>1. Pair(c) \subseteq Light /\ c \in Pair(c)
      BY Lights DEF LightFacts
    <3>2. /\ \A w \in Thread : Storing(w, c) => \A l \in LedsOf(c) : chip[l] = todo[w][1][3]
          /\ (\A w \in Thread : ~Storing(w, c) /\ ~Reading(w, c)) =>
               \A l \in LedsOf(c) : chip[l] = stored[c]
          /\ \A w \in Thread, e \in Pair(c) \ {c} : Reading(w, e) => ls0[w][1][c] = chip[c]
      BY DEF LightsInv, ShownInv
    <3>3. \A w \in Thread : Storing(w, c)' => \A l \in LedsOf(c) : chip'[l] = todo'[w][1][3]
      BY <1>5, <2>1, <2>2, <2>3, <3>2
    <3>4. (\A w \in Thread : ~Storing(w, c)' /\ ~Reading(w, c)') =>
             \A l \in LedsOf(c) : chip'[l] = stored'[c]
      <4>1. CASE c = d
        BY <1>5, <2>2, <2>3, <3>2, <4>1 DEF x
      <4>2. CASE c # d
        BY <1>5, <2>1, <2>2, <2>3, <3>2, <4>2
      <4> QED BY <4>1, <4>2
    <3>5. \A w \in Thread, e \in Pair(c) \ {c} : Reading(w, e)' => ls0'[w][1][c] = chip'[c]
      BY <1>5, <2>1, <2>3, <3>1, <3>2
    <3> QED BY <3>3, <3>4, <3>5
  <2> QED BY <2>5, <2>6 DEF LightsInv
<1> QED BY <1>6, <1>7

-----------------------------------------------------------------------------
(* What a sequence of operations stores *)

StoresTo(s, c) == \E k \in 1..Len(s) : s[k][1] = "store" /\ s[k][2] = c
Puts(s, c, x) == \E k \in 1..Len(s) : s[k][1] = "store" /\ s[k] = <<"store", c, x>>
\* No measurement twice.
Once(s) == \A j, k \in 1..Len(s) :
             j # k /\ s[j][1] = "store" /\ s[k][1] = "store" => s[j][2] # s[k][2]
\* Exactly the levels of P, a set of channels with their levels.
Makes(s, P) == /\ s \in Seq(Op) /\ Once(s)
               /\ \A c, x : Puts(s, c, x) <=> <<c, x>> \in P
               /\ \A c : StoresTo(s, c) <=> \E x : <<c, x>> \in P

\* When s is done after the measurements are st, c is zero.
Zero(st, s, c) == Puts(s, c, 0) \/ (st[c] = 0 /\ ~StoresTo(s, c))
DarkWhenDone(st, s) == Zero(st, s, "value") <=> \A c \in Light : Zero(st, s, c)
\* Nothing is stored after the last recalculation and what it makes.
RecalculatesLast(s) ==
  \A k \in 1..Len(s) : Recalculating(s[k]) =>
    \/ \E j \in (k + 1)..Len(s) : Recalculating(s[j])
    \/ \A j \in (k + 1)..Len(s) : s[j][1] = "bit"

LEMMA StoresBoth ==
  ASSUME NEW a \in Seq(Op), NEW b \in Seq(Op)
  PROVE  /\ a \o b \in Seq(Op)
         /\ \A c, x : Puts(a \o b, c, x) <=> Puts(a, c, x) \/ Puts(b, c, x)
         /\ \A c : StoresTo(a \o b, c) <=> StoresTo(a, c) \/ StoresTo(b, c)
         /\ Plain(a \o b) <=> Plain(a) /\ Plain(b)
         /\ Once(a) /\ Once(b) /\ (\A c : ~(StoresTo(a, c) /\ StoresTo(b, c))) => Once(a \o b)
<1>1. /\ a \in Seq(Op) /\ b \in Seq(Op) /\ Len(a) \in Nat /\ Len(b) \in Nat
  BY LenProperties
<1>2. /\ a \o b \in Seq(Op) /\ Len(a \o b) = Len(a) + Len(b)
      /\ \A k \in 1..(Len(a) + Len(b)) :
           (a \o b)[k] = IF k <= Len(a) THEN a[k] ELSE b[k - Len(a)]
  BY <1>1, ConcatProperties
<1> DEFINE s == a \o b
<1>3. /\ s \in Seq(Op) /\ Len(s) = Len(a) + Len(b)
      /\ \A k \in 1..Len(a) : k \in 1..Len(s) /\ s[k] = a[k]
      /\ \A k \in 1..Len(b) : Len(a) + k \in 1..Len(s) /\ s[Len(a) + k] = b[k]
  BY <1>1, <1>2
<1> HIDE DEF s
<1>4. \A k \in 1..Len(s) : k \in 1..Len(a) \/ \E j \in 1..Len(b) : k = Len(a) + j
  <2> SUFFICES ASSUME NEW k \in 1..Len(s), k \notin 1..Len(a)
               PROVE  \E j \in 1..Len(b) : k = Len(a) + j
    OBVIOUS
  <2>1. k - Len(a) \in 1..Len(b) /\ k = Len(a) + (k - Len(a))
    BY <1>1, <1>3
  <2> QED BY <2>1
<1>5. ASSUME NEW c, NEW x PROVE Puts(s, c, x) <=> Puts(a, c, x) \/ Puts(b, c, x)
  <2>1. ASSUME Puts(s, c, x) PROVE Puts(a, c, x) \/ Puts(b, c, x)
    <3>1. PICK k \in 1..Len(s) : s[k][1] = "store" /\ s[k] = <<"store", c, x>>
      BY <2>1 DEF Puts
    <3>2. CASE k \in 1..Len(a)
      BY <1>3, <3>1, <3>2 DEF Puts
    <3>3. CASE k \notin 1..Len(a)
      <4>1. PICK j \in 1..Len(b) : k = Len(a) + j
        BY <1>4, <3>3
      <4>2. b[j] = s[k]
        BY <1>3, <4>1
      <4> QED BY <3>1, <4>2 DEF Puts
    <3> QED BY <3>2, <3>3
  <2>2. ASSUME Puts(a, c, x) PROVE Puts(s, c, x)
    <3>1. PICK k \in 1..Len(a) : a[k][1] = "store" /\ a[k] = <<"store", c, x>>
      BY <2>2 DEF Puts
    <3>2. k \in 1..Len(s) /\ s[k] = a[k]
      BY <1>3
    <3> QED BY <3>1, <3>2 DEF Puts
  <2>3. ASSUME Puts(b, c, x) PROVE Puts(s, c, x)
    <3>1. PICK k \in 1..Len(b) : b[k][1] = "store" /\ b[k] = <<"store", c, x>>
      BY <2>3 DEF Puts
    <3>2. Len(a) + k \in 1..Len(s) /\ s[Len(a) + k] = b[k]
      BY <1>3
    <3> QED BY <3>1, <3>2 DEF Puts
  <2> QED BY <2>1, <2>2, <2>3
<1>6. ASSUME NEW c PROVE StoresTo(s, c) <=> StoresTo(a, c) \/ StoresTo(b, c)
  <2>1. ASSUME StoresTo(s, c) PROVE StoresTo(a, c) \/ StoresTo(b, c)
    <3>1. PICK k \in 1..Len(s) : s[k][1] = "store" /\ s[k][2] = c
      BY <2>1 DEF StoresTo
    <3>2. CASE k \in 1..Len(a)
      BY <1>3, <3>1, <3>2 DEF StoresTo
    <3>3. CASE k \notin 1..Len(a)
      <4>1. PICK j \in 1..Len(b) : k = Len(a) + j
        BY <1>4, <3>3
      <4>2. b[j] = s[k]
        BY <1>3, <4>1
      <4> QED BY <3>1, <4>2 DEF StoresTo
    <3> QED BY <3>2, <3>3
  <2>2. ASSUME StoresTo(a, c) PROVE StoresTo(s, c)
    <3>1. PICK k \in 1..Len(a) : a[k][1] = "store" /\ a[k][2] = c
      BY <2>2 DEF StoresTo
    <3>2. k \in 1..Len(s) /\ s[k] = a[k]
      BY <1>3
    <3> QED BY <3>1, <3>2 DEF StoresTo
  <2>3. ASSUME StoresTo(b, c) PROVE StoresTo(s, c)
    <3>1. PICK k \in 1..Len(b) : b[k][1] = "store" /\ b[k][2] = c
      BY <2>3 DEF StoresTo
    <3>2. Len(a) + k \in 1..Len(s) /\ s[Len(a) + k] = b[k]
      BY <1>3
    <3> QED BY <3>1, <3>2 DEF StoresTo
  <2> QED BY <2>1, <2>2, <2>3
<1>7. ASSUME Once(a), Once(b), \A c : ~(StoresTo(a, c) /\ StoresTo(b, c)) PROVE Once(s)
  <2> SUFFICES ASSUME NEW j \in 1..Len(s), NEW k \in 1..Len(s), j # k,
                      s[j][1] = "store", s[k][1] = "store", s[j][2] = s[k][2]
               PROVE  FALSE
    BY DEF Once
  <2>1. \A i \in 1..Len(a), h \in 1..Len(b) :
          a[i][1] = "store" /\ b[h][1] = "store" => a[i][2] # b[h][2]
    <3> SUFFICES ASSUME NEW i \in 1..Len(a), NEW h \in 1..Len(b),
                        a[i][1] = "store", b[h][1] = "store", a[i][2] = b[h][2]
                 PROVE  FALSE
      OBVIOUS
    <3>1. PICK c : c = a[i][2] /\ c = b[h][2]
      OBVIOUS
    <3>2. StoresTo(a, c) /\ StoresTo(b, c)
      BY <3>1 DEF StoresTo
    <3> QED BY <1>7, <3>2
  <2>2. CASE j \in 1..Len(a) /\ k \in 1..Len(a)
    <3>1. s[j] = a[j] /\ s[k] = a[k]
      BY <1>3, <2>2
    <3> QED BY <1>7, <2>2, <3>1 DEF Once
  <2>3. CASE j \in 1..Len(a) /\ k \notin 1..Len(a)
    <3>1. PICK h \in 1..Len(b) : k = Len(a) + h
      BY <1>4, <2>3
    <3>2. s[j] = a[j] /\ s[k] = b[h]
      BY <1>3, <2>3, <3>1
    <3> QED BY <2>1, <2>3, <3>2
  <2>4. CASE j \notin 1..Len(a) /\ k \in 1..Len(a)
    <3>1. PICK h \in 1..Len(b) : j = Len(a) + h
      BY <1>4, <2>4
    <3>2. s[k] = a[k] /\ s[j] = b[h]
      BY <1>3, <2>4, <3>1
    <3> QED BY <2>1, <2>4, <3>2
  <2>5. CASE j \notin 1..Len(a) /\ k \notin 1..Len(a)
    <3>1. PICK i \in 1..Len(b), h \in 1..Len(b) : j = Len(a) + i /\ k = Len(a) + h
      BY <1>4, <2>5
    <3>2. i # h /\ s[j] = b[i] /\ s[k] = b[h]
      BY <1>3, <3>1
    <3> QED BY <1>7, <3>2 DEF Once
  <2> QED BY <2>2, <2>3, <2>4, <2>5
<1>8. Plain(s) <=> Plain(a) /\ Plain(b)
  <2>1. ASSUME Plain(a), Plain(b) PROVE Plain(s)
    BY <1>3, <1>4, <2>1 DEF Plain
  <2>2. ASSUME Plain(s) PROVE Plain(a) /\ Plain(b)
    BY <1>3, <2>2 DEF Plain
  <2> QED BY <2>1, <2>2
<1> QED BY <1>3, <1>5, <1>6, <1>7, <1>8 DEF s

LEMMA MakesBoth ==
  ASSUME NEW a, NEW b, NEW P, NEW Q, Makes(a, P), Makes(b, Q),
         \A c, x, y : ~(<<c, x>> \in P /\ <<c, y>> \in Q)
  PROVE  Makes(a \o b, P \cup Q)
<1>1. a \in Seq(Op) /\ b \in Seq(Op) /\ Once(a) /\ Once(b)
  BY DEF Makes
<1>2. PICK s : s = a \o b
  OBVIOUS
<1>3. /\ s \in Seq(Op)
      /\ \A c, x : Puts(s, c, x) <=> Puts(a, c, x) \/ Puts(b, c, x)
      /\ \A c : StoresTo(s, c) <=> StoresTo(a, c) \/ StoresTo(b, c)
      /\ (\A c : ~(StoresTo(a, c) /\ StoresTo(b, c))) => Once(s)
  BY <1>1, <1>2, StoresBoth
<1>4. Once(s)
  <2>1. \A c : ~(StoresTo(a, c) /\ StoresTo(b, c))
    BY DEF Makes
  <2> QED BY <1>3, <2>1
<1>5. \A c, x : Puts(s, c, x) <=> <<c, x>> \in P \cup Q
  BY <1>3 DEF Makes
<1>6. \A c : StoresTo(s, c) <=> \E x : <<c, x>> \in P \cup Q
  BY <1>3 DEF Makes
<1> QED BY <1>2, <1>3, <1>4, <1>5, <1>6 DEF Makes

LEMMA MakesLight ==
  ASSUME LampAssumption, NEW c \in Light, NEW x \in Int
  PROVE  Makes(SetLight(c, x), {<<c, Clamp(x, One)>>})
<1> DEFINE y == Clamp(x, One)
           a == <<"chip", c, y>>
           b == <<"store", c, y>>
           s == <<a, b>>
<1>1. SetLight(c, x) \in Seq(Op)
  BY LightIsSet DEF Plan
<1>2. a[1] = "chip" /\ b[1] = "store" /\ b[2] = c
  OBVIOUS
<1>3. \A d, z : b = <<"store", d, z>> <=> <<d, z>> = <<c, y>>
  OBVIOUS
<1>4. SetLight(c, x) = s /\ Len(s) = 2 /\ s[1] = a /\ s[2] = b
  BY DEF SetLight
<1> HIDE DEF y, a, b, s
<1>5. \A k \in 1..Len(s) : k = 1 \/ k = 2
  BY <1>4
<1>6. 1 \in 1..Len(s) /\ 2 \in 1..Len(s)
  BY <1>4
<1>7. \A d, z : Puts(s, d, z) <=> <<d, z>> \in {<<c, y>>}
  BY <1>2, <1>3, <1>4, <1>5, <1>6 DEF Puts
<1>8. \A d : StoresTo(s, d) <=> d = c
  BY <1>2, <1>4, <1>5, <1>6 DEF StoresTo
<1>9. \A d : d = c <=> \E z : <<d, z>> \in {<<c, y>>}
  OBVIOUS
<1>10. Once(s)
  BY <1>2, <1>4, <1>5 DEF Once
<1> QED BY <1>1, <1>4, <1>7, <1>8, <1>9, <1>10 DEF Makes, y

LEMMA MakesModel ==
  ASSUME LampAssumption, NEW c \in Model, NEW x \in Int
  PROVE  Makes(SetModel(c, x), {<<c, Clamp(x, MaxOf(c))>>})
<1> DEFINE y == Clamp(x, MaxOf(c))
           b == <<"store", c, y>>
           s == <<b>>
<1>1. SetModel(c, x) \in Seq(Op)
  BY ModelIsSet DEF Plan
<1>2. b[1] = "store" /\ b[2] = c
  OBVIOUS
<1>3. \A d, z : b = <<"store", d, z>> <=> <<d, z>> = <<c, y>>
  OBVIOUS
<1>4. SetModel(c, x) = s /\ Len(s) = 1 /\ s[1] = b
  BY DEF SetModel
<1> HIDE DEF y, b, s
<1>5. (\A k \in 1..Len(s) : k = 1) /\ 1 \in 1..Len(s)
  BY <1>4
<1>6. \A d, z : Puts(s, d, z) <=> <<d, z>> \in {<<c, y>>}
  BY <1>2, <1>3, <1>4, <1>5 DEF Puts
<1>7. \A d : StoresTo(s, d) <=> d = c
  BY <1>2, <1>4, <1>5 DEF StoresTo
<1>8. \A d : d = c <=> \E z : <<d, z>> \in {<<c, y>>}
  OBVIOUS
<1>9. Once(s)
  BY <1>5 DEF Once
<1> QED BY <1>1, <1>4, <1>6, <1>7, <1>8, <1>9 DEF Makes, y

LEMMA MakesFour ==
  ASSUME LampAssumption, NEW a \in Light, NEW b \in Light, NEW c \in Light, NEW d \in Light,
         a # b /\ a # c /\ a # d /\ b # c /\ b # d /\ c # d,
         NEW w \in Int, NEW x \in Int, NEW y \in Int, NEW z \in Int
  PROVE  Makes(SetLight(a, w) \o SetLight(b, x) \o SetLight(c, y) \o SetLight(d, z),
               {<<a, Clamp(w, One)>>, <<b, Clamp(x, One)>>, <<c, Clamp(y, One)>>,
                <<d, Clamp(z, One)>>})
<1>1. Makes(SetLight(a, w) \o SetLight(b, x), {<<a, Clamp(w, One)>>} \cup {<<b, Clamp(x, One)>>})
  BY MakesLight, MakesBoth
<1>2. Makes((SetLight(a, w) \o SetLight(b, x)) \o SetLight(c, y),
            ({<<a, Clamp(w, One)>>} \cup {<<b, Clamp(x, One)>>}) \cup {<<c, Clamp(y, One)>>})
  BY <1>1, MakesLight, MakesBoth
<1>3. Makes(((SetLight(a, w) \o SetLight(b, x)) \o SetLight(c, y)) \o SetLight(d, z),
            (({<<a, Clamp(w, One)>>} \cup {<<b, Clamp(x, One)>>}) \cup {<<c, Clamp(y, One)>>})
              \cup {<<d, Clamp(z, One)>>})
  BY <1>2, MakesLight, MakesBoth
<1>4. (({<<a, Clamp(w, One)>>} \cup {<<b, Clamp(x, One)>>}) \cup {<<c, Clamp(y, One)>>})
        \cup {<<d, Clamp(z, One)>>}
      = {<<a, Clamp(w, One)>>, <<b, Clamp(x, One)>>, <<c, Clamp(y, One)>>, <<d, Clamp(z, One)>>}
  OBVIOUS
<1> QED BY <1>3, <1>4

-----------------------------------------------------------------------------
(* What is zero *)

LEMMA ClampZero ==
  ASSUME NEW x \in Int, NEW max \in Nat \ {0}
  PROVE  Clamp(x, max) = 0 <=> x <= 0
BY DEF Clamp, Lower

LEMMA Quotient ==
  ASSUME NEW a \in Nat, NEW b \in Nat \ {0}
  PROVE  a \div b \in Nat /\ (a \div b = 0 <=> a < b)
OBVIOUS

LEMMA TimesZero ==
  ASSUME LampAssumption
  PROVE  /\ \A a \in Nat, b \in Nat : Times(a, b) = 0 <=> a = 0 \/ b = 0
         /\ \A z \in Int : Times(0, z) = 0
<1>1. One \in Nat \ {0}
  BY Constants
<1>2. ASSUME NEW a \in Nat, NEW b \in Nat PROVE Times(a, b) = 0 <=> a = 0 \/ b = 0
  <2>1. PICK p \in Nat : p = a * b /\ (p = 0 <=> a = 0 \/ b = 0)
    <3>1. a * b \in Nat
      OBVIOUS
    <3>2. CASE a = 0 \/ b = 0
      BY <3>1, <3>2
    <3>3. CASE a > 0 /\ b > 0
      <4>1. a * b > 0
        BY <3>3
      <4> QED BY <3>1, <3>3, <4>1
    <3> QED BY <3>2, <3>3
  <2>2. PICK n \in Nat : n = p + One - 1 /\ (n < One <=> p = 0)
    BY <1>1
  <2>3. n \div One = 0 <=> n < One
    BY <1>1, Quotient
  <2>4. Times(a, b) = n \div One
    BY <2>1, <2>2 DEF Times
  <2> QED BY <2>1, <2>2, <2>3, <2>4
<1>3. ASSUME NEW z \in Int PROVE Times(0, z) = 0
  <2>1. 0 * z = 0
    OBVIOUS
  <2>2. PICK n \in Nat : n = One - 1 /\ n < One
    BY <1>1
  <2>3. n \div One = 0
    BY <1>1, <2>2, Quotient
  <2>4. 0 * z + One - 1 = n
    BY <1>1, <2>1, <2>2
  <2> QED BY <2>3, <2>4 DEF Times
<1> QED BY <1>2, <1>3

\* The parts of the level 1.0 that the conversions use.
LEMMA Shares ==
  ASSUME LampAssumption
  PROVE  /\ (8 * One) \div 10 \in Nat \ {0} /\ (2 * One) \div 10 \in Nat \ {0}
         /\ One \div 2 \in Nat \ {0}
BY DEF LampAssumption

\* A sector is dark exactly without a value.
LEMMA SectorZero ==
  ASSUME LampAssumption, NEW h \in Int, NEW s \in Int, NEW v \in Nat
  PROVE  LET c == Sector(h, s, v)
         IN /\ v = 0 => c.r = 0 /\ c.g = 0 /\ c.b = 0
            /\ c.r = v \/ c.g = v \/ c.b = v
<1> DEFINE f == ((h % 60) * One) \div 60
           p == Times(v, One - s)
           q == Times(v, One - Times(s, f))
           t == Times(v, One - Times(s, One - f))
<1>1. One \in Int
  BY Constants
<1>2. f \in Int
  <2>1. PICK x \in Int : x = (h % 60) * One
    BY <1>1
  <2> QED BY <2>1
<1> HIDE DEF f
<1>3. v = 0 => p = 0
  BY <1>1, TimesZero
<1>4. v = 0 => q = 0
  <2>1. One - Times(s, f) \in Int
    BY <1>1, <1>2, Product
  <2> QED BY <2>1, TimesZero
<1>5. v = 0 => t = 0
  <2>1. One - Times(s, One - f) \in Int
    <3>1. One - f \in Int
      BY <1>1, <1>2
    <3> QED BY <1>1, <3>1, Product
  <2> QED BY <2>1, TimesZero
<1> HIDE DEF p, q, t
<1>6. PICK x : x = h \div 60
  OBVIOUS
<1>7. Sector(h, s, v) = CASE x = 0 -> [r |-> v, g |-> t, b |-> p]
                          [] x = 1 -> [r |-> q, g |-> v, b |-> p]
                          [] x = 2 -> [r |-> p, g |-> v, b |-> t]
                          [] x = 3 -> [r |-> p, g |-> q, b |-> v]
                          [] x = 4 -> [r |-> t, g |-> p, b |-> v]
                          [] OTHER -> [r |-> v, g |-> p, b |-> q]
  BY <1>6 DEF Sector, f, p, q, t
<1> QED BY <1>3, <1>4, <1>5, <1>7

\* Which channels are zero after a sequence that makes P.
LEMMA ZeroAfter ==
  ASSUME NEW s, NEW P, Makes(s, P), NEW st
  PROVE  \A c : Zero(st, s, c) <=> <<c, 0>> \in P \/ (st[c] = 0 /\ ~\E x : <<c, x>> \in P)
BY DEF Makes, Zero

\* The lights are dark after a recalculation exactly when the value is zero.
MakesDark(s, st) ==
  Once(s) /\ s \in Seq(Op) /\ ~StoresTo(s, "value")
    /\ (st["value"] = 0 <=> \A c \in Light : Zero(st, s, c))

Darkens4(s, st, a, w, b, x, c, y, d, z) ==
  /\ Once(s) /\ s \in Seq(Op) /\ ~StoresTo(s, "value")
  /\ Zero(st, s, a) <=> w <= 0
  /\ Zero(st, s, b) <=> x <= 0
  /\ Zero(st, s, c) <=> y <= 0
  /\ Zero(st, s, d) <=> z <= 0
Darkens5(s, st, a, w, b, x, c, y, d, z, e, v) ==
  Darkens4(s, st, a, w, b, x, c, y, d, z) /\ (Zero(st, s, e) <=> v <= 0)

LEMMA FourAreDark ==
  ASSUME LampAssumption, NEW st,
         NEW w \in Int, NEW x \in Int, NEW y \in Int, NEW z \in Int,
         NEW a \in Light, NEW b \in Light, NEW c \in Light, NEW d \in Light,
         a # b /\ a # c /\ a # d /\ b # c /\ b # d /\ c # d,
         NEW s, s = SetLight(a, w) \o SetLight(b, x) \o SetLight(c, y) \o SetLight(d, z)
  PROVE  Darkens4(s, st, a, w, b, x, c, y, d, z)
<1>1. PICK w1, x1, y1, z1 : /\ w1 = Clamp(w, One) /\ (w1 = 0 <=> w <= 0)
                            /\ x1 = Clamp(x, One) /\ (x1 = 0 <=> x <= 0)
                            /\ y1 = Clamp(y, One) /\ (y1 = 0 <=> y <= 0)
                            /\ z1 = Clamp(z, One) /\ (z1 = 0 <=> z <= 0)
  BY Constants, ClampZero
<1> DEFINE P == {<<a, w1>>, <<b, x1>>, <<c, y1>>, <<d, z1>>}
<1>2. Makes(s, P)
  BY <1>1, MakesFour
<1>3. \A e, v : <<e, v>> \in P <=> \/ (e = a /\ v = w1) \/ (e = b /\ v = x1)
                                   \/ (e = c /\ v = y1) \/ (e = d /\ v = z1)
  OBVIOUS
<1> HIDE DEF P
<1>4. \A e : Zero(st, s, e) <=> <<e, 0>> \in P \/ (st[e] = 0 /\ ~\E v : <<e, v>> \in P)
  BY <1>2, ZeroAfter
<1>5. "value" \notin Light
  BY Lights DEF LightFacts, Model
<1>6. ~StoresTo(s, "value")
  <2>1. a # "value" /\ b # "value" /\ c # "value" /\ d # "value"
    BY <1>5
  <2>2. ~\E v : <<"value", v>> \in P
    BY <1>3, <2>1
  <2> QED BY <1>2, <2>2 DEF Makes
<1>7. /\ Zero(st, s, a) <=> w1 = 0
      /\ Zero(st, s, b) <=> x1 = 0
      /\ Zero(st, s, c) <=> y1 = 0
      /\ Zero(st, s, d) <=> z1 = 0
  BY <1>3, <1>4
<1> QED BY <1>1, <1>2, <1>6, <1>7 DEF Makes, Darkens4

LEMMA FiveAreDark ==
  ASSUME LampAssumption, NEW st,
         NEW w \in Int, NEW x \in Int, NEW y \in Int, NEW z \in Int, NEW v \in Int,
         NEW a \in Light, NEW b \in Light, NEW c \in Light, NEW d \in Light, NEW e \in Light,
         a # b /\ a # c /\ a # d /\ b # c /\ b # d /\ c # d,
         e # a /\ e # b /\ e # c /\ e # d,
         NEW s, s = SetLight(a, w) \o SetLight(b, x) \o SetLight(c, y) \o SetLight(d, z)
                      \o SetLight(e, v)
  PROVE  Darkens5(s, st, a, w, b, x, c, y, d, z, e, v)
<1>1. PICK w1, x1, y1, z1, v1 : /\ w1 = Clamp(w, One) /\ (w1 = 0 <=> w <= 0)
                                /\ x1 = Clamp(x, One) /\ (x1 = 0 <=> x <= 0)
                                /\ y1 = Clamp(y, One) /\ (y1 = 0 <=> y <= 0)
                                /\ z1 = Clamp(z, One) /\ (z1 = 0 <=> z <= 0)
                                /\ v1 = Clamp(v, One) /\ (v1 = 0 <=> v <= 0)
  BY Constants, ClampZero
<1> DEFINE Q == {<<a, w1>>, <<b, x1>>, <<c, y1>>, <<d, z1>>}
           P == Q \cup {<<e, v1>>}
<1>2. Makes(s, P)
  <2>1. PICK q : q = SetLight(a, w) \o SetLight(b, x) \o SetLight(c, y) \o SetLight(d, z)
    OBVIOUS
  <2>2. Makes(q, Q)
    BY <1>1, <2>1, MakesFour
  <2>3. Makes(SetLight(e, v), {<<e, v1>>})
    BY <1>1, MakesLight
  <2>4. \A g, i, j : ~(<<g, i>> \in Q /\ <<g, j>> \in {<<e, v1>>})
    OBVIOUS
  <2> HIDE DEF Q
  <2>5. Makes(q \o SetLight(e, v), Q \cup {<<e, v1>>})
    BY <2>2, <2>3, <2>4, MakesBoth
  <2> QED BY <2>1, <2>5
<1>3. \A g, u : <<g, u>> \in P <=> \/ (g = a /\ u = w1) \/ (g = b /\ u = x1)
                                   \/ (g = c /\ u = y1) \/ (g = d /\ u = z1)
                                   \/ (g = e /\ u = v1)
  OBVIOUS
<1> HIDE DEF P
<1>4. \A g : Zero(st, s, g) <=> <<g, 0>> \in P \/ (st[g] = 0 /\ ~\E u : <<g, u>> \in P)
  BY <1>2, ZeroAfter
<1>5. "value" \notin Light
  BY Lights DEF LightFacts, Model
<1>6. ~StoresTo(s, "value")
  <2>1. a # "value" /\ b # "value" /\ c # "value" /\ d # "value" /\ e # "value"
    BY <1>5
  <2>2. ~\E u : <<"value", u>> \in P
    BY <1>3, <2>1
  <2> QED BY <1>2, <2>2 DEF Makes
<1>7. /\ Zero(st, s, a) <=> w1 = 0
      /\ Zero(st, s, b) <=> x1 = 0
      /\ Zero(st, s, c) <=> y1 = 0
      /\ Zero(st, s, d) <=> z1 = 0
      /\ Zero(st, s, e) <=> v1 = 0
  BY <1>3, <1>4
<1> QED BY <1>1, <1>2, <1>6, <1>7 DEF Makes, Darkens4, Darkens5

LEMMA LeastOf ==
  ASSUME NEW a \in Int, NEW b \in Int, NEW c \in Int
  PROVE  Min({a, b, c}) \in {a, b, c} /\ Min({a, b}) \in {a, b}
<1>1. (\E x \in {a, b, c} : \A y \in {a, b, c} : x =< y)
      /\ (\E x \in {a, b} : \A y \in {a, b} : x =< y)
  OBVIOUS
<1> QED BY <1>1 DEF Min

LEMMA YellowIsDark ==
  ASSUME LampAssumption, Yellow, NEW h \in Int, NEW sat \in Int, NEW v \in Nat,
         NEW st, st["value"] = v
  PROVE  MakesDark(hsvToRgbYellow(h, sat, v), st)
<1> DEFINE full == (8 * One) \div 10
           over == 2 * (v - full)
           c == Sector(h, sat, v)
           w == Lower(full, Min({c.r, c.g, c.b}))
           y == Min({c.r, c.g}) - w
<1>1. Light = {"red", "green", "blue", "white", "yellow"}
  BY DEF Light
<1>2. One \in Nat \ {0} /\ full \in Nat \ {0} /\ over \in Int
  BY Constants, Shares
<1>3. c.r \in Int /\ c.g \in Int /\ c.b \in Int
      /\ (v = 0 => c.r = 0 /\ c.g = 0 /\ c.b = 0)
      /\ (c.r = v \/ c.g = v \/ c.b = v)
  BY SectorIsLight, SectorZero
<1> HIDE DEF full, over, c
<1>4. w \in Int /\ y \in Int /\ (v = 0 => w = 0 /\ y = 0)
  <2>1. Min({c.r, c.g, c.b}) \in {c.r, c.g, c.b} /\ Min({c.r, c.g}) \in {c.r, c.g}
    BY <1>3, LeastOf
  <2>2. PICK m \in Int, n \in Int : /\ m = Min({c.r, c.g, c.b}) /\ n = Min({c.r, c.g})
                                    /\ v = 0 => m = 0 /\ n = 0
    BY <1>3, <2>1
  <2>3. Lower(full, m) \in Int /\ (m = 0 => Lower(full, m) = 0)
    BY <1>2 DEF Lower
  <2>4. PICK x \in Int : x = Lower(full, m)
    BY <2>3
  <2>5. w = x
    BY <2>2, <2>4
  <2> HIDE DEF w
  <2>6. y = n - w
    BY <2>2
  <2> HIDE DEF y
  <2> QED BY <2>2, <2>3, <2>4, <2>5, <2>6
<1> HIDE DEF w, y
<1>5. (v < full /\ ~(v >= full)) \/ (v >= full /\ ~(v < full))
  BY <1>2
<1>6. hsvToRgbYellow(h, sat, v) =
        IF sat # 0
        THEN SetLight("yellow", 2 * y) \o SetLight("white", 2 * w)
               \o SetLight("red", 2 * (c.r - w - y)) \o SetLight("green", 2 * (c.g - w - y))
               \o SetLight("blue", 2 * (c.b - w))
        ELSE IF v < full
        THEN SetLight("white", 2 * v) \o SetLight("red", 0) \o SetLight("green", 0)
               \o SetLight("blue", 0) \o SetLight("yellow", 0)
        ELSE SetLight("white", One) \o SetLight("red", over) \o SetLight("green", over)
               \o SetLight("blue", over)
  BY <1>5 DEF hsvToRgbYellow, full, over, c, w, y
<1> DEFINE s == hsvToRgbYellow(h, sat, v)
<1>7. CASE sat # 0
  <2>1. PICK y2 \in Int, w2 \in Int, r2 \in Int, g2 \in Int, b2 \in Int :
          /\ y2 = 2 * y /\ w2 = 2 * w /\ b2 = 2 * (c.b - w)
          /\ r2 = 2 * (c.r - w - y) /\ g2 = 2 * (c.g - w - y)
    BY <1>3, <1>4
  <2>2. s = SetLight("yellow", y2) \o SetLight("white", w2) \o SetLight("red", r2)
              \o SetLight("green", g2) \o SetLight("blue", b2)
    BY <1>6, <1>7, <2>1
  <2> HIDE DEF s
  <2>3. /\ Once(s) /\ s \in Seq(Op) /\ ~StoresTo(s, "value")
        /\ Zero(st, s, "yellow") <=> y2 <= 0
        /\ Zero(st, s, "white") <=> w2 <= 0
        /\ Zero(st, s, "red") <=> r2 <= 0
        /\ Zero(st, s, "green") <=> g2 <= 0
        /\ Zero(st, s, "blue") <=> b2 <= 0
    <3>1. /\ "red" \in Light /\ "green" \in Light /\ "blue" \in Light /\ "white" \in Light
          /\ "yellow" \in Light
      BY <1>1
    <3>2. Darkens5(s, st, "yellow", y2, "white", w2, "red", r2, "green", g2, "blue", b2)
      BY <2>2, <3>1, FiveAreDark
    <3> QED BY <3>2 DEF Darkens4, Darkens5
  <2>4. v = 0 <=> y2 <= 0 /\ w2 <= 0 /\ r2 <= 0 /\ g2 <= 0 /\ b2 <= 0
    <3>1. PICK r \in Int, g \in Int, b \in Int : r = c.r /\ g = c.g /\ b = c.b
      BY <1>3
    <3>2. /\ y2 = 2 * y /\ w2 = 2 * w /\ b2 = 2 * (b - w)
          /\ r2 = 2 * (r - w - y) /\ g2 = 2 * (g - w - y)
          /\ v = 0 => r = 0 /\ g = 0 /\ b = 0 /\ w = 0 /\ y = 0
          /\ r = v \/ g = v \/ b = v
      BY <1>3, <1>4, <2>1, <3>1
    <3> QED BY <1>4, <3>2
  <2>5. MakesDark(s, st)
    BY <1>1, <2>3, <2>4 DEF MakesDark
  <2> QED BY <2>5 DEF s
<1>8. CASE sat = 0 /\ v < full
  <2>1. PICK v2 \in Int : v2 = 2 * v
    OBVIOUS
  <2>2. s = SetLight("white", v2) \o SetLight("red", 0) \o SetLight("green", 0)
              \o SetLight("blue", 0) \o SetLight("yellow", 0)
    BY <1>6, <1>8, <2>1
  <2> HIDE DEF s
  <2>3. /\ Once(s) /\ s \in Seq(Op) /\ ~StoresTo(s, "value")
        /\ Zero(st, s, "white") <=> v2 <= 0
        /\ Zero(st, s, "red") <=> 0 <= 0
        /\ Zero(st, s, "green") <=> 0 <= 0
        /\ Zero(st, s, "blue") <=> 0 <= 0
        /\ Zero(st, s, "yellow") <=> 0 <= 0
    <3>1. /\ "red" \in Light /\ "green" \in Light /\ "blue" \in Light /\ "white" \in Light
          /\ "yellow" \in Light
      BY <1>1
    <3>2. PICK o \in Int : o = 0
      OBVIOUS
    <3>3. Darkens5(s, st, "white", v2, "red", o, "green", o, "blue", o, "yellow", o)
      BY <2>2, <3>1, <3>2, FiveAreDark
    <3> QED BY <3>2, <3>3 DEF Darkens4, Darkens5
  <2>4. v = 0 <=> v2 <= 0
    BY <2>1
  <2>5. MakesDark(s, st)
    BY <1>1, <2>3, <2>4 DEF MakesDark
  <2> QED BY <2>5 DEF s
<1>9. CASE sat = 0 /\ v >= full
  <2>1. s = SetLight("white", One) \o SetLight("red", over) \o SetLight("green", over)
              \o SetLight("blue", over)
    BY <1>5, <1>6, <1>9
  <2> HIDE DEF s
  <2>2. /\ Once(s) /\ s \in Seq(Op) /\ ~StoresTo(s, "value")
        /\ Zero(st, s, "white") <=> One <= 0
    <3>1. /\ "red" \in Light /\ "green" \in Light /\ "blue" \in Light /\ "white" \in Light
          /\ One \in Int
      BY <1>1, <1>2
    <3>2. Darkens4(s, st, "white", One, "red", over, "green", over, "blue", over)
      BY <1>2, <2>1, <3>1, FourAreDark
    <3> QED BY <3>2 DEF Darkens4
  <2>3. v # 0 /\ ~(One <= 0)
    BY <1>2, <1>9
  <2>4. MakesDark(s, st)
    BY <1>1, <2>2, <2>3 DEF MakesDark
  <2> QED BY <2>4 DEF s
<1> QED BY <1>5, <1>7, <1>8, <1>9

LEMMA WhiteIsDark ==
  ASSUME LampAssumption, ~Yellow, NEW h \in Int, NEW sat \in Int, NEW v \in Nat,
         NEW st, st["value"] = v
  PROVE  MakesDark(hsvToRgbWhite(h, sat, v), st)
<1> DEFINE half == One \div 2
           over == 2 * (v - half)
           c == Sector(h, sat, v)
           w == Lower(half, Min({c.r, c.g, c.b}))
<1>1. Light = {"red", "green", "blue", "white"}
  BY DEF Light
<1>2. One \in Nat \ {0} /\ half \in Nat \ {0} /\ over \in Int
  BY Constants, Shares
<1>3. c.r \in Int /\ c.g \in Int /\ c.b \in Int
      /\ (v = 0 => c.r = 0 /\ c.g = 0 /\ c.b = 0)
      /\ (c.r = v \/ c.g = v \/ c.b = v)
  BY SectorIsLight, SectorZero
<1> HIDE DEF half, over, c
<1>4. w \in Int /\ (v = 0 => w = 0)
  <2>1. Min({c.r, c.g, c.b}) \in {c.r, c.g, c.b}
    BY <1>3, LeastOf
  <2> QED BY <1>2, <1>3, <2>1 DEF Lower
<1> HIDE DEF w
<1>5. (v < half /\ ~(v >= half)) \/ (v >= half /\ ~(v < half))
  BY <1>2
<1>6. hsvToRgbWhite(h, sat, v) =
        IF sat # 0
        THEN SetLight("white", 2 * w) \o SetLight("red", 2 * (c.r - w))
               \o SetLight("green", 2 * (c.g - w)) \o SetLight("blue", 2 * (c.b - w))
        ELSE IF v < half
        THEN SetLight("white", 2 * v) \o SetLight("red", 0) \o SetLight("green", 0)
               \o SetLight("blue", 0)
        ELSE SetLight("white", One) \o SetLight("red", over) \o SetLight("green", over)
               \o SetLight("blue", over)
  BY <1>5 DEF hsvToRgbWhite, half, over, c, w
<1> DEFINE s == hsvToRgbWhite(h, sat, v)
<1>7. PICK a1 \in Int, a2 \in Int, a3 \in Int, a4 \in Int :
        /\ s = SetLight("white", a1) \o SetLight("red", a2) \o SetLight("green", a3)
                 \o SetLight("blue", a4)
        /\ v = 0 <=> a1 <= 0 /\ a2 <= 0 /\ a3 <= 0 /\ a4 <= 0
  <2>1. CASE sat # 0
    <3>1. PICK w2 \in Int, r2 \in Int, g2 \in Int, b2 \in Int :
            /\ w2 = 2 * w /\ b2 = 2 * (c.b - w) /\ r2 = 2 * (c.r - w) /\ g2 = 2 * (c.g - w)
      BY <1>3, <1>4
    <3>2. v = 0 <=> w2 <= 0 /\ r2 <= 0 /\ g2 <= 0 /\ b2 <= 0
      <4>1. PICK r \in Int, g \in Int, b \in Int : r = c.r /\ g = c.g /\ b = c.b
        BY <1>3
      <4>2. /\ w2 = 2 * w /\ b2 = 2 * (b - w) /\ r2 = 2 * (r - w) /\ g2 = 2 * (g - w)
            /\ v = 0 => r = 0 /\ g = 0 /\ b = 0 /\ w = 0
            /\ r = v \/ g = v \/ b = v
        BY <1>3, <1>4, <3>1, <4>1
      <4> QED BY <1>4, <4>2
    <3> QED BY <1>6, <2>1, <3>1, <3>2
  <2>2. CASE sat = 0 /\ v < half
    <3>1. PICK v2 \in Int : v2 = 2 * v /\ (v = 0 <=> v2 <= 0 /\ 0 <= 0)
      OBVIOUS
    <3>2. 0 \in Int
      OBVIOUS
    <3> QED BY <1>6, <2>2, <3>1, <3>2
  <2>3. CASE sat = 0 /\ v >= half
    <3>1. v # 0 /\ ~(One <= 0) /\ One \in Int
      BY <1>2, <2>3
    <3> QED BY <1>2, <1>5, <1>6, <2>3, <3>1
  <2> QED BY <1>5, <2>1, <2>2, <2>3
<1> HIDE DEF s
<1>8. /\ Once(s) /\ s \in Seq(Op) /\ ~StoresTo(s, "value")
      /\ Zero(st, s, "white") <=> a1 <= 0
      /\ Zero(st, s, "red") <=> a2 <= 0
      /\ Zero(st, s, "green") <=> a3 <= 0
      /\ Zero(st, s, "blue") <=> a4 <= 0
  <2>1. /\ "red" \in Light /\ "green" \in Light /\ "blue" \in Light /\ "white" \in Light
    BY <1>1
  <2>2. Darkens4(s, st, "white", a1, "red", a2, "green", a3, "blue", a4)
    BY <1>7, <2>1, FourAreDark
  <2> QED BY <2>2 DEF Darkens4
<1>9. MakesDark(s, st)
  BY <1>1, <1>7, <1>8 DEF MakesDark
<1> QED BY <1>9 DEF s

LEMMA PutsStores ==
  ASSUME NEW s, NEW c, NEW x, Puts(s, c, x)
  PROVE  StoresTo(s, c)
<1>1. PICK k \in 1..Len(s) : s[k][1] = "store" /\ s[k] = <<"store", c, x>>
  BY DEF Puts
<1> QED BY <1>1 DEF StoresTo

\* Once s is done the lights are dark exactly when the value is zero.
Settles(s, st) == s \in Seq(Op) /\ Once(s) /\ DarkWhenDone(st, s)

LEMMA ToLightsSettles ==
  ASSUME LampAssumption, StoredType
  PROVE  Settles(ToLights, stored)
<1>1. PICK h \in Int, sat \in Int, v \in Nat :
        h = stored["hue"] /\ sat = stored["saturation"] /\ v = stored["value"]
  BY Constants DEF StoredType, Channels, Model
<1>2. MakesDark(ToLights, stored)
  BY <1>1, YellowIsDark, WhiteIsDark DEF ToLights
<1>3. Zero(stored, ToLights, "value") <=> stored["value"] = 0
  BY <1>2, PutsStores DEF MakesDark, Zero
<1> QED BY <1>2, <1>3 DEF MakesDark, Settles, DarkWhenDone

MakesModelOf(s, st, r, g, b) ==
  /\ s \in Seq(Op) /\ Once(s)
  /\ \A c \in Light : ~StoresTo(s, c)
  /\ Zero(st, s, "value") <=> r = 0 /\ g = 0 /\ b = 0

LEMMA FromRgbMakes ==
  ASSUME LampAssumption, NEW r \in Nat, NEW g \in Nat, NEW b \in Nat, NEW st,
         NEW s, s = FromRgb(r, g, b)
  PROVE  MakesModelOf(s, st, r, g, b)
<1>1. PICK max \in Int, sat \in Int, h \in Int :
        /\ s = SetModel("value", max) \o SetModel("saturation", sat) \o SetModel("hue", h)
        /\ max = Max({r, g, b})
  <2>1. SetsModel(FromRgb(r, g, b), Max({r, g, b}))
    BY RgbIsModel
  <2> QED BY <2>1 DEF SetsModel
<1>2. r <= max /\ g <= max /\ b <= max
  <2>1. r \in Int /\ g \in Int /\ b \in Int
    OBVIOUS
  <2>2. r <= Max({r, g, b}) /\ g <= Max({r, g, b}) /\ b <= Max({r, g, b})
    BY <2>1, Extremes
  <2> QED BY <1>1, <2>2
<1>3. max \in {r, g, b}
  <2>1. \E x \in {r, g, b} : \A z \in {r, g, b} : x >= z
    OBVIOUS
  <2> QED BY <1>1, <2>1 DEF Max
<1>4. PICK v1, s1, h1 : /\ v1 = Clamp(max, MaxOf("value")) /\ (v1 = 0 <=> max <= 0)
                        /\ s1 = Clamp(sat, MaxOf("saturation"))
                        /\ h1 = Clamp(h, MaxOf("hue"))
  <2>1. MaxOf("value") = One /\ One \in Nat \ {0}
    BY Constants
  <2>2. Clamp(max, One) = 0 <=> max <= 0
    BY <2>1, ClampZero
  <2> QED BY <2>1, <2>2
<1>5. "value" \in Model /\ "saturation" \in Model /\ "hue" \in Model
  BY DEF Model
<1>6. /\ Makes(SetModel("value", max), {<<"value", v1>>})
      /\ Makes(SetModel("saturation", sat), {<<"saturation", s1>>})
      /\ Makes(SetModel("hue", h), {<<"hue", h1>>})
  BY <1>4, <1>5, MakesModel
<1> DEFINE P1 == {<<"value", v1>>}
           P2 == {<<"saturation", s1>>}
           P3 == {<<"hue", h1>>}
           P == (P1 \cup P2) \cup P3
<1>7. /\ \A c, x : <<c, x>> \in P1 <=> c = "value" /\ x = v1
      /\ \A c, x : <<c, x>> \in P2 <=> c = "saturation" /\ x = s1
      /\ \A c, x : <<c, x>> \in P3 <=> c = "hue" /\ x = h1
  OBVIOUS
<1>8. Makes(s, P)
  <2> HIDE DEF P1, P2, P3
  <2>1. /\ Makes(SetModel("value", max), P1) /\ Makes(SetModel("saturation", sat), P2)
        /\ Makes(SetModel("hue", h), P3)
    BY <1>6 DEF P1, P2, P3
  <2>2. \A c, x, y : ~(<<c, x>> \in P1 /\ <<c, y>> \in P2)
    BY <1>7
  <2>3. Makes(SetModel("value", max) \o SetModel("saturation", sat), P1 \cup P2)
    BY <2>1, <2>2, MakesBoth
  <2>4. \A c, x, y : ~(<<c, x>> \in P1 \cup P2 /\ <<c, y>> \in P3)
    BY <1>7
  <2>5. Makes((SetModel("value", max) \o SetModel("saturation", sat)) \o SetModel("hue", h), P)
    BY <2>1, <2>3, <2>4, MakesBoth
  <2> QED BY <1>1, <2>5
<1>9. \A c, x : <<c, x>> \in P <=> \/ (c = "value" /\ x = v1) \/ (c = "saturation" /\ x = s1)
                                   \/ (c = "hue" /\ x = h1)
  BY <1>7
<1> HIDE DEF P
<1>10. ASSUME NEW c \in Light PROVE ~StoresTo(s, c)
  <2>1. c # "value" /\ c # "saturation" /\ c # "hue"
    BY Lights DEF LightFacts, Model
  <2>2. ~\E x : <<c, x>> \in P
    BY <1>9, <2>1
  <2> QED BY <1>8, <2>2 DEF Makes
<1>11. Zero(st, s, "value") <=> v1 = 0
  <2>1. Zero(st, s, "value") <=>
          <<"value", 0>> \in P \/ (st["value"] = 0 /\ ~\E x : <<"value", x>> \in P)
    BY <1>8, ZeroAfter
  <2>2. <<"value", v1>> \in P /\ (<<"value", 0>> \in P <=> v1 = 0)
    BY <1>9
  <2> QED BY <2>1, <2>2
<1>12. s \in Seq(Op) /\ Once(s)
  BY <1>8 DEF Makes
<1>13. v1 = 0 <=> r = 0 /\ g = 0 /\ b = 0
  BY <1>2, <1>3, <1>4
<1> QED BY <1>10, <1>11, <1>12, <1>13 DEF MakesModelOf

LEMMA ToModelSettles ==
  ASSUME LampAssumption, StoredType
  PROVE  Settles(ToModel, stored)
<1>1. /\ stored["red"] \in Nat /\ stored["green"] \in Nat
      /\ stored["blue"] \in Nat /\ stored["white"] \in Nat
      /\ Yellow => stored["yellow"] \in Nat
  BY Constants DEF StoredType, Channels, Light
<1>2. One \in Nat \ {0} /\ \A a \in Nat : Lower(One, a) \in Nat /\ (Lower(One, a) = 0 <=> a = 0)
  BY Constants DEF Lower
<1>3. PICK e \in Nat \ {0}, f \in Nat \ {0}, k \in Nat \ {0} :
        e = (8 * One) \div 10 /\ f = (2 * One) \div 10 /\ k = One \div 2
  BY Shares
<1>4. \A a \in Nat, n \in Nat \ {0} : Times(a, n) \in Nat /\ (Times(a, n) = 0 <=> a = 0)
  BY NaturalProduct, TimesZero
<1>5. \E r \in Nat, g \in Nat, b \in Nat :
        /\ ToModel = FromRgb(r, g, b)
        /\ r = 0 /\ g = 0 /\ b = 0 <=> \A c \in Light : stored[c] = 0
  <2>1. CASE Yellow
    <3>1. PICK w \in Nat, y \in Nat, xr \in Nat, xg \in Nat, xb \in Nat :
            /\ w = Times(stored["white"], e) /\ (w = 0 <=> stored["white"] = 0)
            /\ y = Times(stored["yellow"], f) /\ (y = 0 <=> stored["yellow"] = 0)
            /\ xr = Times(stored["red"], f) /\ (xr = 0 <=> stored["red"] = 0)
            /\ xg = Times(stored["green"], f) /\ (xg = 0 <=> stored["green"] = 0)
            /\ xb = Times(stored["blue"], f) /\ (xb = 0 <=> stored["blue"] = 0)
      <4>1. /\ Times(stored["white"], e) \in Nat
            /\ Times(stored["white"], e) = 0 <=> stored["white"] = 0
            /\ Times(stored["yellow"], f) \in Nat
            /\ Times(stored["yellow"], f) = 0 <=> stored["yellow"] = 0
        BY <1>1, <1>4, <2>1
      <4>2. /\ Times(stored["red"], f) \in Nat
            /\ Times(stored["red"], f) = 0 <=> stored["red"] = 0
            /\ Times(stored["green"], f) \in Nat
            /\ Times(stored["green"], f) = 0 <=> stored["green"] = 0
            /\ Times(stored["blue"], f) \in Nat
            /\ Times(stored["blue"], f) = 0 <=> stored["blue"] = 0
        BY <1>1, <1>4
      <4> QED BY <4>1, <4>2
    <3>2. PICK sr \in Nat, sg \in Nat, sb \in Nat :
            sr = xr + w + y /\ sg = xg + w + y /\ sb = xb + w + 0
      OBVIOUS
    <3>3. PICK r \in Nat, g \in Nat, b \in Nat :
            /\ r = Lower(One, sr) /\ (r = 0 <=> sr = 0)
            /\ g = Lower(One, sg) /\ (g = 0 <=> sg = 0)
            /\ b = Lower(One, sb) /\ (b = 0 <=> sb = 0)
      BY <1>2
    <3>4. ToModel = FromRgb(r, g, b)
      BY <1>3, <2>1, <3>1, <3>2, <3>3 DEF ToModel, rgbToHsvYellow
    <3>5. r = 0 /\ g = 0 /\ b = 0 <=> xr = 0 /\ xg = 0 /\ xb = 0 /\ w = 0 /\ y = 0
      BY <3>2, <3>3
    <3>6. Light = {"red", "green", "blue", "white", "yellow"}
      BY <2>1 DEF Light
    <3> QED BY <3>1, <3>4, <3>5, <3>6
  <2>2. CASE ~Yellow
    <3>1. PICK w \in Nat, xr \in Nat, xg \in Nat, xb \in Nat :
            /\ w = Times(stored["white"], k) /\ (w = 0 <=> stored["white"] = 0)
            /\ xr = Times(stored["red"], k) /\ (xr = 0 <=> stored["red"] = 0)
            /\ xg = Times(stored["green"], k) /\ (xg = 0 <=> stored["green"] = 0)
            /\ xb = Times(stored["blue"], k) /\ (xb = 0 <=> stored["blue"] = 0)
      <4>1. /\ Times(stored["white"], k) \in Nat
            /\ Times(stored["white"], k) = 0 <=> stored["white"] = 0
            /\ Times(stored["red"], k) \in Nat
            /\ Times(stored["red"], k) = 0 <=> stored["red"] = 0
            /\ Times(stored["green"], k) \in Nat
            /\ Times(stored["green"], k) = 0 <=> stored["green"] = 0
            /\ Times(stored["blue"], k) \in Nat
            /\ Times(stored["blue"], k) = 0 <=> stored["blue"] = 0
        BY <1>1, <1>4
      <4> QED BY <4>1
    <3>2. PICK r \in Nat, g \in Nat, b \in Nat : r = xr + w /\ g = xg + w /\ b = xb + w
      OBVIOUS
    <3>3. ToModel = FromRgb(r, g, b)
      BY <1>3, <2>2, <3>1, <3>2 DEF ToModel, rgbToHsvWhite
    <3>4. r = 0 /\ g = 0 /\ b = 0 <=> xr = 0 /\ xg = 0 /\ xb = 0 /\ w = 0
      BY <3>2
    <3>5. Light = {"red", "green", "blue", "white"}
      BY <2>2 DEF Light
    <3> QED BY <3>1, <3>3, <3>4, <3>5
  <2> QED BY <2>1, <2>2
<1>6. PICK r \in Nat, g \in Nat, b \in Nat :
        /\ ToModel = FromRgb(r, g, b)
        /\ r = 0 /\ g = 0 /\ b = 0 <=> \A c \in Light : stored[c] = 0
  BY <1>5
<1>7. PICK s : s = ToModel
  OBVIOUS
<1>8. /\ s \in Seq(Op) /\ Once(s)
      /\ \A c \in Light : ~StoresTo(s, c)
      /\ Zero(stored, s, "value") <=> r = 0 /\ g = 0 /\ b = 0
  <2>1. MakesModelOf(s, stored, r, g, b)
    BY <1>6, <1>7, FromRgbMakes
  <2> QED BY <2>1 DEF MakesModelOf
<1>9. \A c \in Light : Zero(stored, s, c) <=> stored[c] = 0
  BY <1>8, PutsStores DEF Zero
<1> QED BY <1>6, <1>7, <1>8, <1>9 DEF Settles, DarkWhenDone

-----------------------------------------------------------------------------
(* The two views *)

OnlyBits(s) == \A k \in 1..Len(s) : s[k][1] = "bit"
\* What a thread may begin with: it ends with a recalculation, or is about autoHue.
Starts(s) == s \in Seq(Op) /\ RecalculatesLast(s) /\ (~Plain(s) \/ OnlyBits(s))

\* One view follows from the other as soon as a thread that is alone is done, unless it is
\* going to recalculate it.
OffInv ==
  /\ \A t \in Thread : RecalculatesLast(todo[t])
  /\ ~mixed => /\ \E t \in Thread : todo[t] = <<>>
               /\ \A t \in Thread :
                    todo[Other(t)] = <<>> /\ Plain(todo[t]) => Settles(todo[t], stored)

LEMMA OffFollows ==
  ASSUME TypesInv, OffInv
  PROVE  DarkIsOff
<1> SUFFICES ASSUME \A t \in Thread : todo[t] = <<>>, ~mixed
             PROVE  stored["value"] = 0 <=> \A c \in Light : stored[c] = 0
  BY DEF DarkIsOff
<1>1. "main" \in Thread /\ Other("main") \in Thread
  BY Threads DEF Thread
<1>2. Plain(<<>>)
  BY EmptySeq DEF Plain
<1>3. Settles(<<>>, stored)
  BY <1>1, <1>2 DEF OffInv
<1>4. \A c, x : ~Puts(<<>>, c, x) /\ ~StoresTo(<<>>, c)
  BY EmptySeq DEF Puts, StoresTo
<1> QED BY <1>3, <1>4 DEF Settles, DarkWhenDone, Zero

LEMMA NothingSettles ==
  ASSUME NEW st, st["value"] = 0 <=> \A c \in Light : st[c] = 0,
         NEW s \in Seq(Op), OnlyBits(s)
  PROVE  Settles(s, st) /\ Plain(s)
<1>1. \A c, x : ~Puts(s, c, x) /\ ~StoresTo(s, c)
  BY DEF Puts, StoresTo, OnlyBits
<1>2. Once(s) /\ Plain(s)
  BY DEF Once, Plain, OnlyBits, Recalculating
<1> QED BY <1>1, <1>2 DEF Settles, DarkWhenDone, Zero

LEMMA OffInit ==
  ASSUME Init
  PROVE  OffInv
<1>1. \A t \in Thread : todo[t] = <<>>
  BY DEF Init
<1>2. stored["value"] = 0 /\ \A c \in Light : stored[c] = 0
  BY DEF Init, Model
<1>3. <<>> \in Seq(Op) /\ OnlyBits(<<>>) /\ RecalculatesLast(<<>>)
  BY EmptySeq DEF OnlyBits, RecalculatesLast
<1>4. Settles(<<>>, stored)
  BY <1>2, <1>3, NothingSettles
<1> QED BY <1>1, <1>3, <1>4 DEF OffInv, Thread

\* An operation is done that recalculates nothing.
LEMMA SettlesOn ==
  ASSUME NEW s, Rest(s), Len(s) > 0, NEW st, NEW su, Settles(s, st),
         \/ s[1][1] # "store" /\ su = st
         \/ s[1][1] = "store" /\ DOMAIN st = Channels /\ su = [st EXCEPT ![s[1][2]] = s[1][3]]
  PROVE  Settles(Tail(s), su)
<1> DEFINE q == Tail(s)
<1>1. /\ s \in Seq(Op) /\ s # <<>> /\ Len(s) \in Nat
  BY LenProperties DEF Rest
<1>2. /\ q \in Seq(Op) /\ Len(q) = Len(s) - 1 /\ Len(q) \in Nat
      /\ \A k \in 1..Len(q) : q[k] = s[k + 1] /\ k + 1 \in 1..Len(s)
  BY <1>1, HeadTailProperties
<1> HIDE DEF q
<1>3. 1 \in 1..Len(s) /\ \A k \in 1..Len(s) : k = 1 \/ \E j \in 1..Len(q) : k = j + 1
  <2>1. 1 \in 1..Len(s)
    BY <1>1
  <2>2. ASSUME NEW k \in 1..Len(s), k # 1 PROVE \E j \in 1..Len(q) : k = j + 1
    <3>1. k - 1 \in 1..Len(q) /\ k = (k - 1) + 1
      BY <1>1, <1>2, <2>2
    <3> QED BY <3>1
  <2> QED BY <2>1, <2>2
<1>4. Once(q)
  <2> SUFFICES ASSUME NEW j \in 1..Len(q), NEW k \in 1..Len(q), j # k,
                      q[j][1] = "store", q[k][1] = "store", q[j][2] = q[k][2]
               PROVE  FALSE
    BY DEF Once
  <2>1. j + 1 \in 1..Len(s) /\ k + 1 \in 1..Len(s) /\ j + 1 # k + 1
    BY <1>2
  <2>2. q[j] = s[j + 1] /\ q[k] = s[k + 1]
    BY <1>2
  <2> QED BY <2>1, <2>2 DEF Settles, Once
<1>5. ASSUME NEW c, NEW x
      PROVE  Puts(s, c, x) <=> (s[1] = <<"store", c, x>> /\ s[1][1] = "store") \/ Puts(q, c, x)
  <2>1. ASSUME Puts(q, c, x) PROVE Puts(s, c, x)
    BY <1>2, <2>1 DEF Puts
  <2>2. ASSUME Puts(s, c, x), ~(s[1] = <<"store", c, x>> /\ s[1][1] = "store")
        PROVE  Puts(q, c, x)
    <3>1. PICK k \in 1..Len(s) : s[k][1] = "store" /\ s[k] = <<"store", c, x>>
      BY <2>2 DEF Puts
    <3>2. PICK j \in 1..Len(q) : k = j + 1
      BY <1>3, <2>2, <3>1
    <3>3. q[j] = s[k]
      BY <1>2, <3>2
    <3> QED BY <3>1, <3>3 DEF Puts
  <2>3. ASSUME s[1] = <<"store", c, x>> /\ s[1][1] = "store" PROVE Puts(s, c, x)
    BY <1>3, <2>3 DEF Puts
  <2> QED BY <2>1, <2>2, <2>3
<1>6. ASSUME NEW c
      PROVE  StoresTo(s, c) <=> (s[1][1] = "store" /\ s[1][2] = c) \/ StoresTo(q, c)
  <2>1. ASSUME StoresTo(q, c) PROVE StoresTo(s, c)
    BY <1>2, <2>1 DEF StoresTo
  <2>2. ASSUME StoresTo(s, c), ~(s[1][1] = "store" /\ s[1][2] = c) PROVE StoresTo(q, c)
    <3>1. PICK k \in 1..Len(s) : s[k][1] = "store" /\ s[k][2] = c
      BY <2>2 DEF StoresTo
    <3>2. PICK j \in 1..Len(q) : k = j + 1
      BY <1>3, <2>2, <3>1
    <3>3. q[j] = s[k]
      BY <1>2, <3>2
    <3> QED BY <3>1, <3>3 DEF StoresTo
  <2>3. ASSUME s[1][1] = "store" /\ s[1][2] = c PROVE StoresTo(s, c)
    BY <1>3, <2>3 DEF StoresTo
  <2> QED BY <2>1, <2>2, <2>3
<1>7. ASSUME NEW c \in Channels PROVE Zero(su, q, c) <=> Zero(st, s, c)
  <2>1. CASE s[1][1] # "store"
    BY <1>5, <1>6, <2>1 DEF Zero
  <2>2. CASE s[1][1] = "store" /\ s[1][2] # c
    <3>1. /\ Puts(s, c, 0) <=> Puts(q, c, 0)
          /\ StoresTo(s, c) <=> StoresTo(q, c)
      BY <1>5, <1>6, <2>2
    <3>2. su[c] = st[c]
      BY <2>2
    <3> QED BY <3>1, <3>2 DEF Zero
  <2>3. CASE s[1][1] = "store" /\ s[1][2] = c
    <3>1. ~StoresTo(q, c)
      <4> SUFFICES ASSUME NEW k \in 1..Len(q), q[k][1] = "store", q[k][2] = c PROVE FALSE
        BY DEF StoresTo
      <4>1. k + 1 \in 1..Len(s) /\ s[k + 1] = q[k] /\ k + 1 # 1
        BY <1>2
      <4> QED BY <1>3, <2>3, <4>1 DEF Settles, Once
    <3>2. ~Puts(q, c, 0)
      BY <3>1, PutsStores
    <3>3. su[c] = s[1][3]
      BY <2>3
    <3>4. s[1] = <<"store", c, s[1][3]>>
      <4>1. s[1] \in Op
        BY <1>1, <1>3, ElementOfSeq
      <4> QED BY <2>3, <4>1, StoreOp
    <3>5. Puts(s, c, 0) <=> s[1][3] = 0
      BY <1>5, <2>3, <3>2, <3>4
    <3>6. StoresTo(s, c)
      BY <1>6, <2>3
    <3> QED BY <3>1, <3>2, <3>3, <3>5, <3>6 DEF Zero
  <2> QED BY <2>1, <2>2, <2>3
<1>8. "value" \in Channels /\ Light \subseteq Channels
  BY DEF Channels, Model
<1>9. DarkWhenDone(su, q)
  BY <1>7, <1>8 DEF Settles, DarkWhenDone
<1> QED BY <1>2, <1>4, <1>9 DEF Settles, q

\* What follows a recalculation, which is nothing but autoHue if it is the last one.
LEMMA SettlesAnew ==
  ASSUME NEW p, NEW st, Settles(p, st), NEW q \in Seq(Op), OnlyBits(q)
  PROVE  Settles(p \o q, st)
<1>1. \A c, x : ~Puts(q, c, x) /\ ~StoresTo(q, c)
  BY DEF Puts, StoresTo, OnlyBits
<1>2. Once(q)
  BY DEF Once, OnlyBits
<1>3. PICK s : s = p \o q
  OBVIOUS
<1>4. /\ s \in Seq(Op)
      /\ \A c, x : Puts(s, c, x) <=> Puts(p, c, x) \/ Puts(q, c, x)
      /\ \A c : StoresTo(s, c) <=> StoresTo(p, c) \/ StoresTo(q, c)
      /\ Once(p) /\ Once(q) /\ (\A c : ~(StoresTo(p, c) /\ StoresTo(q, c))) => Once(s)
  BY <1>3, StoresBoth DEF Settles
<1>5. \A c : Zero(st, s, c) <=> Zero(st, p, c)
  BY <1>1, <1>4 DEF Zero
<1> QED BY <1>1, <1>2, <1>3, <1>4, <1>5 DEF Settles, DarkWhenDone

\* The last recalculation of one sequence after another.
LEMMA LastOfBoth ==
  ASSUME NEW a \in Seq(Op), NEW b \in Seq(Op), RecalculatesLast(a), RecalculatesLast(b),
         Plain(a) \/ ~Plain(b) \/ OnlyBits(b)
  PROVE  RecalculatesLast(a \o b)
<1>1. /\ a \in Seq(Op) /\ b \in Seq(Op) /\ Len(a) \in Nat /\ Len(b) \in Nat
  BY LenProperties
<1>2. /\ a \o b \in Seq(Op) /\ Len(a \o b) = Len(a) + Len(b)
      /\ \A k \in 1..(Len(a) + Len(b)) :
           (a \o b)[k] = IF k <= Len(a) THEN a[k] ELSE b[k - Len(a)]
  BY <1>1, ConcatProperties
<1> DEFINE s == a \o b
<1>3. /\ s \in Seq(Op) /\ Len(s) = Len(a) + Len(b)
      /\ \A k \in 1..Len(a) : k \in 1..Len(s) /\ s[k] = a[k]
      /\ \A k \in 1..Len(b) : Len(a) + k \in 1..Len(s) /\ s[Len(a) + k] = b[k]
  BY <1>1, <1>2
<1> HIDE DEF s
<1>4. \A k \in 1..Len(s) : k \in 1..Len(a) \/ \E j \in 1..Len(b) : k = Len(a) + j
  <2> SUFFICES ASSUME NEW k \in 1..Len(s), k \notin 1..Len(a)
               PROVE  \E j \in 1..Len(b) : k = Len(a) + j
    OBVIOUS
  <2>1. k - Len(a) \in 1..Len(b) /\ k = Len(a) + (k - Len(a))
    BY <1>1, <1>3
  <2> QED BY <2>1
<1>5. RecalculatesLast(s)
  <2> SUFFICES ASSUME NEW k \in 1..Len(s), Recalculating(s[k]),
                      \A j \in (k + 1)..Len(s) : ~Recalculating(s[j]),
                      NEW i \in (k + 1)..Len(s)
               PROVE  s[i][1] = "bit"
    BY DEF RecalculatesLast
  <2>1. i \in 1..Len(s) /\ i > k /\ k >= 1
    BY <1>1, <1>3
  <2>2. CASE k \in 1..Len(a)
    <3>1. Recalculating(a[k]) /\ ~Plain(a)
      BY <1>3, <2>2 DEF Plain
    <3>2. Plain(b)
      <4> SUFFICES ASSUME NEW h \in 1..Len(b) PROVE ~Recalculating(b[h])
        BY DEF Plain
      <4>1. Len(a) + h \in (k + 1)..Len(s) /\ s[Len(a) + h] = b[h]
        BY <1>1, <1>3, <2>2
      <4> QED BY <4>1
    <3>3. OnlyBits(b)
      BY <3>1, <3>2
    <3>4. CASE i \in 1..Len(a)
      <4>1. \A j \in (k + 1)..Len(a) : ~Recalculating(a[j])
        <5> SUFFICES ASSUME NEW j \in (k + 1)..Len(a) PROVE ~Recalculating(a[j])
          OBVIOUS
        <5>1. j \in 1..Len(a) /\ j \in (k + 1)..Len(s)
          BY <1>1, <1>3, <2>1
        <5> QED BY <1>3, <5>1
      <4>2. i \in (k + 1)..Len(a)
        BY <1>1, <2>1, <3>4
      <4>3. a[i][1] = "bit"
        BY <2>2, <3>1, <4>1, <4>2 DEF RecalculatesLast
      <4> QED BY <1>3, <3>4, <4>3
    <3>5. ASSUME NEW h \in 1..Len(b), i = Len(a) + h PROVE s[i][1] = "bit"
      BY <1>3, <3>3, <3>5 DEF OnlyBits
    <3> QED BY <1>4, <2>1, <3>4, <3>5
  <2>3. ASSUME NEW g \in 1..Len(b), k = Len(a) + g PROVE s[i][1] = "bit"
    <3>1. Recalculating(b[g])
      BY <1>3, <2>3
    <3>2. PICK h \in 1..Len(b) : i = Len(a) + h
      <4>1. i \notin 1..Len(a)
        BY <1>1, <2>1, <2>3
      <4> QED BY <1>4, <2>1, <4>1
    <3>3. h \in (g + 1)..Len(b)
      BY <1>1, <2>1, <2>3, <3>2
    <3>4. \A j \in (g + 1)..Len(b) : ~Recalculating(b[j])
      <4> SUFFICES ASSUME NEW j \in (g + 1)..Len(b) PROVE ~Recalculating(b[j])
        OBVIOUS
      <4>1. j \in 1..Len(b) /\ Len(a) + j \in (k + 1)..Len(s)
        BY <1>1, <1>3, <2>3
      <4> QED BY <1>3, <4>1
    <3>5. b[h][1] = "bit"
      BY <3>1, <3>3, <3>4 DEF RecalculatesLast
    <3> QED BY <1>3, <3>2, <3>5
  <2> QED BY <1>4, <2>2, <2>3
<1> QED BY <1>5 DEF s

LEMMA LastGoesOn ==
  ASSUME NEW s, Rest(s), Len(s) > 0, RecalculatesLast(s)
  PROVE  /\ RecalculatesLast(Tail(s))
         /\ ~Recalculating(s[1]) => (Plain(Tail(s)) <=> Plain(s))
         /\ Recalculating(s[1]) /\ Plain(Tail(s)) => OnlyBits(Tail(s))
<1> DEFINE q == Tail(s)
<1>1. /\ s \in Seq(Op) /\ s # <<>> /\ Len(s) \in Nat
  BY LenProperties DEF Rest
<1>2. /\ q \in Seq(Op) /\ Len(q) = Len(s) - 1 /\ Len(q) \in Nat
      /\ \A k \in 1..Len(q) : q[k] = s[k + 1] /\ k + 1 \in 1..Len(s)
  BY <1>1, HeadTailProperties
<1> HIDE DEF q
<1>3. 1 \in 1..Len(s) /\ \A k \in 1..Len(s) : k = 1 \/ \E j \in 1..Len(q) : k = j + 1
  <2>1. 1 \in 1..Len(s)
    BY <1>1
  <2>2. ASSUME NEW k \in 1..Len(s), k # 1 PROVE \E j \in 1..Len(q) : k = j + 1
    <3>1. k - 1 \in 1..Len(q) /\ k = (k - 1) + 1
      BY <1>1, <1>2, <2>2
    <3> QED BY <3>1
  <2> QED BY <2>1, <2>2
<1>4. ASSUME NEW k \in 1..Len(s), Recalculating(s[k]), NEW i \in 1..Len(q), i + 1 > k,
             \A j \in 1..Len(q) : j + 1 > k => ~Recalculating(q[j])
      PROVE  q[i][1] = "bit"
  <2>1. \A j \in (k + 1)..Len(s) : ~Recalculating(s[j])
    <3> SUFFICES ASSUME NEW j \in (k + 1)..Len(s) PROVE ~Recalculating(s[j])
      OBVIOUS
    <3>1. j \in 1..Len(s) /\ j # 1 /\ j > k
      BY <1>1
    <3>2. PICK h \in 1..Len(q) : j = h + 1
      BY <1>3, <3>1
    <3> QED BY <1>2, <1>4, <3>1, <3>2
  <2>2. i + 1 \in (k + 1)..Len(s) /\ q[i] = s[i + 1]
    BY <1>1, <1>2, <1>4
  <2>3. s[i + 1][1] = "bit"
    BY <1>4, <2>1, <2>2 DEF RecalculatesLast
  <2> QED BY <2>2, <2>3
<1>5. RecalculatesLast(q)
  <2> SUFFICES ASSUME NEW k \in 1..Len(q), Recalculating(q[k]),
                      \A j \in (k + 1)..Len(q) : ~Recalculating(q[j]),
                      NEW i \in (k + 1)..Len(q)
               PROVE  q[i][1] = "bit"
    BY DEF RecalculatesLast
  <2>1. k + 1 \in 1..Len(s) /\ Recalculating(s[k + 1])
    BY <1>2
  <2>2. i \in 1..Len(q) /\ i + 1 > k + 1
    BY <1>2
  <2>3. \A j \in 1..Len(q) : j + 1 > k + 1 => ~Recalculating(q[j])
    <3> SUFFICES ASSUME NEW j \in 1..Len(q), j + 1 > k + 1 PROVE ~Recalculating(q[j])
      OBVIOUS
    <3>1. j \in (k + 1)..Len(q)
      BY <1>2
    <3> QED BY <3>1
  <2> QED BY <1>4, <2>1, <2>2, <2>3
<1>6. Plain(s) <=> ~Recalculating(s[1]) /\ Plain(q)
  <2>1. ASSUME Plain(s) PROVE ~Recalculating(s[1]) /\ Plain(q)
    BY <1>2, <1>3, <2>1 DEF Plain
  <2>2. ASSUME ~Recalculating(s[1]), Plain(q) PROVE Plain(s)
    <3> SUFFICES ASSUME NEW k \in 1..Len(s), k # 1 PROVE ~Recalculating(s[k])
      BY <2>2 DEF Plain
    <3>1. PICK j \in 1..Len(q) : k = j + 1
      BY <1>3
    <3> QED BY <1>2, <2>2, <3>1 DEF Plain
  <2> QED BY <2>1, <2>2
<1>7. ASSUME Recalculating(s[1]), Plain(q) PROVE OnlyBits(q)
  <2> SUFFICES ASSUME NEW i \in 1..Len(q) PROVE q[i][1] = "bit"
    BY DEF OnlyBits
  <2>1. i + 1 > 1
    BY <1>2
  <2>2. \A j \in 1..Len(q) : j + 1 > 1 => ~Recalculating(q[j])
    BY <1>7 DEF Plain
  <2> QED BY <1>3, <1>4, <1>7, <2>1, <2>2
<1> QED BY <1>5, <1>6, <1>7 DEF q

\* A step of t, after which it has q to do.
LEMMA OffStep ==
  ASSUME OffInv, NEW t \in Thread, NEW q, todo' = [todo EXCEPT ![t] = q],
         DOMAIN todo = Thread, todo[t] # <<>>, mixed' = mixed, RecalculatesLast(q),
         Plain(q) /\ (Plain(todo[t]) => Settles(todo[t], stored)) => Settles(q, stored')
  PROVE  OffInv'
<1> DEFINE u == Other(t)
<1>1. u \in Thread /\ u # t /\ \A w \in Thread : w = t \/ w = u
  BY Threads
<1>2. Other(u) = t
  BY <1>1, Threads
<1>3. todo'[t] = q /\ todo'[u] = todo[u]
  BY <1>1
<1>4. \A w \in Thread : RecalculatesLast(todo'[w])
  BY <1>1, <1>3 DEF OffInv
<1> HIDE DEF u
<1>5. ASSUME ~mixed
      PROVE  /\ todo[u] = <<>>
             /\ Plain(q) => Settles(q, stored')
  <2>1. todo[u] = <<>>
    BY <1>1, <1>5 DEF OffInv
  <2>2. Plain(todo[t]) => Settles(todo[t], stored)
    BY <1>5, <2>1 DEF OffInv, u
  <2> QED BY <2>1, <2>2
<1>6. ASSUME ~mixed, NEW w \in Thread, todo'[Other(w)] = <<>>, Plain(todo'[w])
      PROVE  Settles(todo'[w], stored')
  <2>1. CASE w = t
    BY <1>3, <1>5, <1>6, <2>1
  <2>2. CASE w = u
    <3>1. q = <<>> /\ todo'[w] = <<>>
      BY <1>2, <1>3, <1>5, <1>6, <2>2
    <3> QED BY <1>5, <1>6, <3>1
  <2> QED BY <1>1, <2>1, <2>2
<1>7. ~mixed => \E w \in Thread : todo'[w] = <<>>
  BY <1>1, <1>3, <1>5
<1> QED BY <1>4, <1>6, <1>7 DEF OffInv

LEMMA OffDoes ==
  ASSUME LampAssumption, TypesInv, OffInv, NEW t \in Thread, Do(t)
  PROVE  OffInv'
<1>1. /\ DOMAIN todo = Thread /\ Rest(todo[t]) /\ todo[t] \in Seq(Op) /\ StoredType
      /\ RecalculatesLast(todo[t])
  BY DEF TypesInv, OffInv
<1>2. DOMAIN stored = Channels
  BY <1>1 DEF StoredType
<1>3. CASE ReadShadow(t)
  BY <1>3 DEF ReadShadow, OffInv
<1>4. ASSUME NEW o \in {"chip", "store", "bit"}, Doing(t, o), mixed' = mixed,
             todo' = [todo EXCEPT ![t] = Tail(todo[t])],
             stored' = IF o = "store" THEN [stored EXCEPT ![todo[t][1][2]] = todo[t][1][3]]
                                      ELSE stored
      PROVE  OffInv'
  <2>1. todo[t] # <<>> /\ Len(todo[t]) > 0
    BY <1>1, <1>4, LenProperties DEF Doing
  <2>2. todo[t][1][1] = o /\ ~Recalculating(todo[t][1])
    BY <1>1, <1>4, <2>1, RestGoesOn DEF Doing, Recalculating
  <2>3. RecalculatesLast(Tail(todo[t])) /\ (Plain(Tail(todo[t])) <=> Plain(todo[t]))
    BY <1>1, <2>1, <2>2, LastGoesOn
  <2>4. Settles(todo[t], stored) => Settles(Tail(todo[t]), stored')
    BY <1>1, <1>2, <1>4, <2>1, <2>2, SettlesOn
  <2> QED BY <1>1, <1>4, <2>1, <2>3, <2>4, OffStep
<1>5. CASE WriteChip(t)
  <2>1. "chip" # "store"
    OBVIOUS
  <2> QED BY <1>4, <1>5, <2>1 DEF WriteChip, GoOn
<1>6. CASE Store(t)
  BY <1>4, <1>6 DEF Store, GoOn
<1>7. CASE SetBit(t)
  <2>1. "bit" # "store"
    OBVIOUS
  <2> QED BY <1>4, <1>7, <2>1 DEF SetBit, GoOn
<1>8. CASE Recalculate(t)
  <2>1. PICK o \in {"toLights", "toModel"} : Doing(t, o)
    BY <1>8 DEF Recalculate
  <2>2. todo[t] # <<>> /\ Len(todo[t]) > 0
    BY <1>1, <2>1, LenProperties DEF Doing
  <2>3. /\ Recalculating(todo[t][1]) /\ Rest(Tail(todo[t])) /\ Tail(todo[t]) \in Seq(Op)
    BY <1>1, <2>1, <2>2, RestGoesOn DEF Doing, Recalculating, Rest
  <2>4. PICK p : p = IF Doing(t, "toLights") THEN ToLights ELSE ToModel
    OBVIOUS
  <2>5. Recalculated(p) /\ Settles(p, stored)
    BY <1>1, <2>4, LightsRecalculated, ModelRecalculated, ToLightsSettles, ToModelSettles
  <2>6. todo' = [todo EXCEPT ![t] = p \o Tail(todo[t])] /\ stored' = stored /\ mixed' = mixed
    BY <1>8, <2>4 DEF Recalculate
  <2>7. /\ RecalculatesLast(Tail(todo[t]))
        /\ Plain(Tail(todo[t])) => OnlyBits(Tail(todo[t]))
    BY <1>1, <2>2, <2>3, LastGoesOn
  <2>8. p \in Seq(Op) /\ Plain(p) /\ RecalculatesLast(p)
    BY <2>5 DEF Recalculated, Plan, Plain, RecalculatesLast
  <2>9. RecalculatesLast(p \o Tail(todo[t]))
    BY <2>3, <2>7, <2>8, LastOfBoth
  <2>10. Plain(p \o Tail(todo[t])) => Plain(Tail(todo[t]))
    BY <2>3, <2>8, StoresBoth
  <2>11. Plain(p \o Tail(todo[t])) => Settles(p \o Tail(todo[t]), stored)
    BY <2>3, <2>5, <2>7, <2>10, SettlesAnew
  <2> QED BY <1>1, <2>2, <2>6, <2>9, <2>11, OffStep
<1> QED BY <1>3, <1>5, <1>6, <1>7, <1>8 DEF Do

LEMMA OffBegins ==
  ASSUME TypesInv, OffInv, NEW t \in Thread, NEW ops, Begin(t, ops), Starts(ops),
         stored' = stored
  PROVE  OffInv'
<1> DEFINE u == Other(t)
<1>1. u \in Thread /\ u # t /\ \A w \in Thread : w = t \/ w = u
  BY Threads
<1>2. Other(u) = t
  BY <1>1, Threads
<1>3. /\ DOMAIN todo = Thread /\ todo[t] = <<>> /\ todo' = [todo EXCEPT ![t] = ops]
      /\ mixed' = (todo[u] # <<>> \/ (mixed /\ ~Recalculates(ops)))
  BY DEF TypesInv, Begin
<1>4. todo'[t] = ops /\ todo'[u] = todo[u]
  BY <1>1, <1>3
<1>5. Recalculates(ops) <=> ~Plain(ops)
  <2>1. DOMAIN ops = 1..Len(ops)
    BY LenProperties DEF Starts
  <2> QED BY <2>1 DEF Recalculates, Plain, Recalculating
<1> HIDE DEF u
<1>6. ASSUME ~mixed'
      PROVE  todo[u] = <<>> /\ (Plain(ops) => Settles(ops, stored) /\ Settles(<<>>, stored))
  <2>1. todo[u] = <<>> /\ (~mixed \/ ~Plain(ops))
    BY <1>3, <1>5, <1>6
  <2>2. Plain(<<>>) /\ <<>> \in Seq(Op)
    BY EmptySeq DEF Plain
  <2>3. ASSUME Plain(ops) PROVE Settles(ops, stored) /\ Settles(<<>>, stored)
    <3>1. Settles(<<>>, stored)
      BY <1>3, <2>1, <2>2, <2>3 DEF OffInv, u
    <3>2. \A c, x : ~Puts(<<>>, c, x) /\ ~StoresTo(<<>>, c)
      BY EmptySeq DEF Puts, StoresTo
    <3>3. stored["value"] = 0 <=> \A c \in Light : stored[c] = 0
      BY <3>1, <3>2 DEF Settles, DarkWhenDone, Zero
    <3>4. OnlyBits(ops) /\ ops \in Seq(Op)
      BY <2>3 DEF Starts
    <3> QED BY <3>1, <3>3, <3>4, NothingSettles
  <2> QED BY <2>1, <2>3
<1>7. \A w \in Thread : RecalculatesLast(todo'[w])
  BY <1>1, <1>4 DEF OffInv, Starts
<1>8. ASSUME ~mixed', NEW w \in Thread, todo'[Other(w)] = <<>>, Plain(todo'[w])
      PROVE  Settles(todo'[w], stored')
  <2>1. CASE w = t
    BY <1>4, <1>6, <1>8, <2>1
  <2>2. CASE w = u
    <3>1. ops = <<>> /\ todo'[w] = <<>>
      BY <1>2, <1>4, <1>6, <1>8, <2>2
    <3> QED BY <1>6, <1>8, <3>1
  <2> QED BY <1>1, <2>1, <2>2
<1>9. ~mixed' => \E w \in Thread : todo'[w] = <<>>
  BY <1>1, <1>4, <1>6
<1> QED BY <1>7, <1>8, <1>9 DEF OffInv

LEMMA StartsBoth ==
  ASSUME NEW a, NEW b, Starts(a), Starts(b)
  PROVE  Starts(a \o b)
<1>1. a \in Seq(Op) /\ b \in Seq(Op) /\ RecalculatesLast(a) /\ RecalculatesLast(b)
  BY DEF Starts
<1>2. Plain(a) \/ ~Plain(b) \/ OnlyBits(b)
  BY DEF Starts
<1>3. RecalculatesLast(a \o b) /\ a \o b \in Seq(Op)
      /\ (Plain(a \o b) <=> Plain(a) /\ Plain(b))
  BY <1>1, <1>2, LastOfBoth, StoresBoth
<1>4. Plain(a) /\ Plain(b) => OnlyBits(a \o b)
  <2> SUFFICES ASSUME OnlyBits(a), OnlyBits(b) PROVE OnlyBits(a \o b)
    BY DEF Starts
  <2>1. Len(a \o b) = Len(a) + Len(b) /\ Len(a) \in Nat /\ Len(b) \in Nat
        /\ \A k \in 1..(Len(a) + Len(b)) :
             (a \o b)[k] = IF k <= Len(a) THEN a[k] ELSE b[k - Len(a)]
    BY <1>1, ConcatProperties, LenProperties
  <2>2. ASSUME NEW k \in 1..(Len(a) + Len(b)) PROVE (a \o b)[k][1] = "bit"
    <3>1. CASE k <= Len(a)
      <4>1. k \in 1..Len(a) /\ (a \o b)[k] = a[k]
        BY <2>1, <3>1
      <4> QED BY <4>1 DEF OnlyBits
    <3>2. CASE ~(k <= Len(a))
      <4>1. k - Len(a) \in 1..Len(b) /\ (a \o b)[k] = b[k - Len(a)]
        BY <2>1, <3>2
      <4> QED BY <4>1 DEF OnlyBits
    <3> QED BY <3>1, <3>2
  <2> QED BY <2>1, <2>2 DEF OnlyBits
<1> QED BY <1>3, <1>4 DEF Starts

LEMMA StartsWith ==
  ASSUME LampAssumption
  PROVE  /\ \A b \in BOOLEAN : Starts(<<<<"bit", b>>>>)
         /\ Starts(<<<<"toLights">>>>)
         /\ \A c \in Channels, x \in Int : Starts(Set(c, x))
<1>1. ASSUME NEW b \in BOOLEAN PROVE Starts(<<<<"bit", b>>>>)
  <2>1. <<"bit", b>> \in Op
    BY DEF Op, BitOps
  <2>2. PICK o \in Op : o = <<"bit", b>> /\ o[1] = "bit" /\ ~Recalculating(o)
    BY <2>1 DEF Recalculating
  <2>3. <<o>> \in Seq(Op) /\ Len(<<o>>) = 1 /\ <<o>>[1] = o
    OBVIOUS
  <2>4. OnlyBits(<<o>>) /\ RecalculatesLast(<<o>>)
    BY <2>2, <2>3 DEF OnlyBits, RecalculatesLast
  <2> QED BY <2>2, <2>3, <2>4 DEF Starts
<1>2. ASSUME NEW o \in {<<"toLights">>, <<"toModel">>} PROVE Starts(<<o>>)
  <2>1. o \in Op /\ Recalculating(o)
    BY DEF Op, Recalculating
  <2>2. <<o>> \in Seq(Op) /\ Len(<<o>>) = 1 /\ <<o>>[1] = o
    BY <2>1
  <2>3. \A k \in 1..Len(<<o>>) : k = 1 /\ (k + 1)..Len(<<o>>) = {}
    BY <2>2
  <2>4. RecalculatesLast(<<o>>)
    BY <2>3 DEF RecalculatesLast
  <2>5. ~Plain(<<o>>)
    BY <2>1, <2>2 DEF Plain
  <2> QED BY <2>2, <2>4, <2>5 DEF Starts
<1>3. ASSUME NEW p \in Seq(Op), Plain(p), NEW o \in {<<"toLights">>, <<"toModel">>}
      PROVE  Starts(p \o <<o>>)
  <2>1. Starts(<<o>>) /\ ~Plain(<<o>>) /\ <<o>> \in Seq(Op)
    <3>1. Recalculating(o) /\ Len(<<o>>) = 1 /\ <<o>>[1] = o
      BY DEF Recalculating
    <3> QED BY <1>2, <3>1 DEF Starts, Plain
  <2>2. RecalculatesLast(p)
    BY <1>3 DEF Plain, RecalculatesLast
  <2>3. RecalculatesLast(p \o <<o>>) /\ ~Plain(p \o <<o>>) /\ p \o <<o>> \in Seq(Op)
    BY <1>3, <2>1, <2>2, LastOfBoth, StoresBoth DEF Starts
  <2> QED BY <2>3 DEF Starts
<1>4. ASSUME NEW c \in Channels, NEW x \in Int PROVE Starts(Set(c, x))
  <2>1. CASE c \in Light
    <3>1. SetLight(c, x) \in Seq(Op) /\ Plain(SetLight(c, x))
      BY <2>1, LightIsSet DEF Plan
    <3> QED BY <1>3, <2>1, <3>1 DEF Set
  <2>2. CASE c \notin Light
    <3>1. c \in Model
      BY <2>2 DEF Channels
    <3>2. SetModel(c, x) \in Seq(Op) /\ Plain(SetModel(c, x))
      BY <3>1, ModelIsSet DEF Plan
    <3> QED BY <1>3, <2>2, <3>2 DEF Set
  <2> QED BY <2>1, <2>2
<1> QED BY <1>1, <1>2, <1>4

-----------------------------------------------------------------------------
(* Steps *)

LampInv == TypesInv /\ LightsInv /\ OffInv

LEMMA Does ==
  ASSUME LampAssumption, LampInv, NEW t \in Thread, Do(t)
  PROVE  LampInv'
<1> USE DEF LampInv
<1>1. /\ todo \in [Thread -> Seq(Op)] /\ \A u \in Thread : Rest(todo[u])
      /\ todo[t] \in Seq(Op) /\ Len(todo[t]) \in Nat
      /\ DOMAIN ls0 = Thread /\ ls0 = [u \in Thread |-> ls0[u]]
  BY LenProperties DEF TypesInv
<1>2. ASSUME NEW o, Doing(t, o)
      PROVE  /\ Len(todo[t]) > 0 /\ Head(todo[t]) = todo[t][1] /\ todo[t][1][1] = o
             /\ todo[t][1] \in Op /\ Rest(Tail(todo[t])) /\ Tail(todo[t]) \in Seq(Op)
             /\ o # "chip" => ls0[t] = <<>> /\ Fresh(Tail(todo[t]))
  <2>1. Len(todo[t]) > 0
    BY <1>1, <1>2 DEF Doing
  <2>2. /\ Rest(Tail(todo[t])) /\ todo[t][1] \in Op /\ Head(todo[t]) = todo[t][1]
        /\ todo[t][1][1] # "chip" => Fresh(Tail(todo[t]))
    BY <1>1, <2>1, RestGoesOn
  <2>3. todo[t][1][1] = o
    BY <1>2, <2>2 DEF Doing
  <2>4. o # "chip" => ls0[t] = <<>>
    BY <2>3 DEF TypesInv, ShadowType
  <2> QED BY <2>1, <2>2, <2>3, <2>4 DEF Rest
<1>3. CASE ReadShadow(t)
  <2>1. Len(todo[t]) > 0 /\ todo[t][1][1] = "chip" /\ todo[t][1][2] \in Light /\ ~Yellow
    BY <1>3, ChipOp DEF ReadShadow
  <2>2. ls0' = [ls0 EXCEPT ![t] = <<chip>>] /\ chip \in [Led -> 0..One]
    BY <1>3 DEF ReadShadow, TypesInv
  <2>3. UNCHANGED <<chip, stored, autoHue, oldValue, todo, mixed, sets>>
    BY <1>3 DEF ReadShadow
  <2>4. ShadowType'
    BY <1>1, <2>1, <2>2, <2>3 DEF TypesInv, ShadowType
  <2>5. DOMAIN ls0' = Thread /\ ls0' = [u \in Thread |-> ls0'[u]]
    BY <1>1, <2>2
  <2>6. raced' \subseteq Light
    <3>1. raced' \subseteq raced \cup Pair(todo[t][1][2])
      BY <1>3 DEF ReadShadow, Races
    <3> QED BY <2>1, <3>1, Lights DEF TypesInv, LightFacts
  <2>7. StoredType'
    BY <2>3 DEF TypesInv, StoredType
  <2>8. TypesInv'
    BY <2>3, <2>4, <2>5, <2>6, <2>7 DEF TypesInv
  <2> QED BY <1>3, <2>8, ReadShadowShows, OffDoes
<1>4. CASE WriteChip(t)
  <2>1. /\ Doing(t, "chip") /\ todo[t][1][2] \in Light /\ todo[t][1][3] \in 0..One
    BY <1>4, ChipOp DEF WriteChip
  <2>2. /\ UNCHANGED <<stored, autoHue, oldValue, mixed, sets>>
        /\ todo' = [todo EXCEPT ![t] = Tail(todo[t])]
        /\ ls0' = [ls0 EXCEPT ![t] = <<>>]
    BY <1>4 DEF WriteChip, GoOn
  <2>3. todo' \in [Thread -> Seq(Op)] /\ \A u \in Thread : Rest(todo'[u])
    BY <1>1, <1>2, <2>1, <2>2
  <2>4. ShadowType'
    BY <1>1, <2>2 DEF TypesInv, ShadowType
  <2>5. DOMAIN ls0' = Thread /\ ls0' = [u \in Thread |-> ls0'[u]]
    BY <1>1, <2>2
  <2>6. raced' \subseteq Light
    <3>1. raced' \subseteq raced \cup Pair(todo[t][1][2])
      BY <1>4 DEF WriteChip, Races
    <3> QED BY <2>1, <3>1, Lights DEF TypesInv, LightFacts
  <2>7. chip' \in [Led -> 0..One]
    <3> DEFINE d == todo[t][1][2]
               x == todo[t][1][3]
    <3>1. chip' = [l \in Led |-> CASE l \in LedsOf(d) -> x
                                   [] l \in Pair(d) \ LedsOf(d) -> ls0[t][1][l]
                                   [] OTHER -> chip[l]]
      BY <1>4 DEF WriteChip
    <3> HIDE DEF d, x
    <3>2. Yellow => Pair(d) \ LedsOf(d) = {}
      BY <2>1, Lights DEF d, LightFacts, LedsOf
    <3>3. ~Yellow => ls0[t][1] \in [Led -> 0..One]
      BY <1>4 DEF WriteChip, TypesInv, ShadowType
    <3> QED BY <2>1, <3>1, <3>2, <3>3 DEF x, TypesInv
  <2>8. StoredType'
    BY <2>2 DEF TypesInv, StoredType
  <2>9. TypesInv'
    BY <2>2, <2>3, <2>4, <2>5, <2>6, <2>7, <2>8 DEF TypesInv
  <2> QED BY <1>4, <2>9, WriteChipShows, OffDoes
<1>5. CASE Store(t)
  <2>1. /\ Doing(t, "store") /\ todo' = [todo EXCEPT ![t] = Tail(todo[t])]
        /\ UNCHANGED <<chip, autoHue, oldValue, ls0, raced, mixed, sets>>
        /\ stored' = [stored EXCEPT ![todo[t][1][2]] = todo[t][1][3]]
    BY <1>5 DEF Store, GoOn
  <2>2. todo[t][1][2] \in Channels /\ todo[t][1][3] \in 0..MaxOf(todo[t][1][2]) /\ ls0[t] = <<>>
    BY <1>2, <2>1, OpFacts
  <2>3. todo' \in [Thread -> Seq(Op)] /\ \A u \in Thread : Rest(todo'[u])
    BY <1>1, <1>2, <2>1
  <2>4. StoredType'
    <3>1. StoredType /\ todo[t][1][3] \in Int
      BY <2>2, Constants DEF TypesInv
    <3> QED BY <2>1, <2>2, <3>1 DEF StoredType
  <2>5. ShadowType'
    BY <1>1, <2>1, <2>2 DEF TypesInv, ShadowType
  <2>6. TypesInv'
    BY <2>1, <2>3, <2>4, <2>5 DEF TypesInv
  <2> QED BY <1>5, <2>6, StoreShows, OffDoes
<1>6. CASE Recalculate(t)
  <2>1. PICK o \in {"toLights", "toModel"} : Doing(t, o)
    BY <1>6 DEF Recalculate
  <2>2. /\ Len(todo[t]) > 0 /\ todo[t][1][1] = o /\ ls0[t] = <<>>
        /\ Recalculating(todo[t][1])
    BY <1>2, <2>1 DEF Recalculating
  <2>3. PICK p : p = IF Doing(t, "toLights") THEN ToLights ELSE ToModel
    OBVIOUS
  <2>4. Recalculated(p)
    BY <2>3, LightsRecalculated, ModelRecalculated DEF TypesInv
  <2>5. Rest(p \o Tail(todo[t])) /\ Fresh(p \o Tail(todo[t]))
    BY <1>1, <2>2, <2>4, RestRecalculates
  <2>6. /\ todo' = [todo EXCEPT ![t] = p \o Tail(todo[t])]
        /\ UNCHANGED <<chip, stored, autoHue, oldValue, ls0, raced, mixed, sets>>
    BY <1>6, <2>3 DEF Recalculate
  <2>7. todo' \in [Thread -> Seq(Op)] /\ \A u \in Thread : Rest(todo'[u])
    BY <1>1, <2>5, <2>6 DEF Rest
  <2>8. ShadowType' /\ StoredType'
    BY <1>1, <2>2, <2>6 DEF TypesInv, ShadowType, StoredType
  <2>9. TypesInv'
    BY <2>6, <2>7, <2>8 DEF TypesInv
  <2>10. \A c \in Light : ~Storing(t, c)
    BY <2>1, <2>2 DEF Storing
  <2>11. LightsInv'
    BY <1>1, <2>2, <2>5, <2>6, <2>10, Aside
  <2> QED BY <2>9, <2>11, OffDoes
<1>7. CASE SetBit(t)
  <2>1. /\ Doing(t, "bit") /\ todo' = [todo EXCEPT ![t] = Tail(todo[t])]
        /\ UNCHANGED <<chip, stored, oldValue, ls0, raced, mixed, sets>>
        /\ autoHue' = todo[t][1][2]
    BY <1>7 DEF SetBit, GoOn
  <2>2. autoHue' \in BOOLEAN /\ ls0[t] = <<>>
    BY <1>2, <2>1, OpFacts
  <2>3. todo' \in [Thread -> Seq(Op)] /\ \A u \in Thread : Rest(todo'[u])
    BY <1>1, <1>2, <2>1
  <2>4. ShadowType' /\ StoredType'
    BY <1>1, <2>1, <2>2 DEF TypesInv, ShadowType, StoredType
  <2>5. TypesInv'
    BY <2>1, <2>2, <2>3, <2>4 DEF TypesInv
  <2>6. (\A c \in Light : ~Storing(t, c)) /\ Fresh(Tail(todo[t]))
    BY <1>2, <2>1 DEF Storing
  <2>7. LightsInv'
    BY <1>1, <2>1, <2>2, <2>6, Aside
  <2> QED BY <2>5, <2>7, OffDoes
<1> QED BY <1>3, <1>4, <1>5, <1>6, <1>7 DEF Do

\* What a button, an encoder or a request begins.
Begun(s) == Rest(s) /\ Fresh(s) /\ Starts(s)

LEMMA Begins ==
  ASSUME LampAssumption, LampInv, NEW t \in Thread, NEW ops, Begin(t, ops), Begun(ops),
         UNCHANGED <<chip, stored, autoHue, ls0, raced>>, oldValue' \in 0..One
  PROVE  LampInv'
<1> USE DEF LampInv, Begun
<1>1. /\ todo \in [Thread -> Seq(Op)] /\ \A u \in Thread : Rest(todo[u])
      /\ todo[t] = <<>> /\ todo' = [todo EXCEPT ![t] = ops]
      /\ sets < MaxSets /\ sets' = sets + 1 /\ mixed' \in BOOLEAN
  BY DEF TypesInv, Begin
<1>2. ls0[t] = <<>> /\ \A c \in Light : ~Storing(t, c)
  BY <1>1 DEF TypesInv, ShadowType, Storing
<1>3. todo' \in [Thread -> Seq(Op)] /\ \A u \in Thread : Rest(todo'[u])
  BY <1>1 DEF Rest
<1>4. ShadowType' /\ StoredType'
  BY <1>1, <1>2 DEF TypesInv, ShadowType, StoredType
<1>5. sets' \in 0..MaxSets
  BY <1>1, Constants DEF TypesInv
<1>6. TypesInv'
  BY <1>1, <1>3, <1>4, <1>5 DEF TypesInv
<1>7. LightsInv'
  BY <1>1, <1>2, Aside
<1>8. OffInv'
  BY OffBegins
<1> QED BY <1>6, <1>7, <1>8

\* A channel alone, or with one more set or bit after it.
LEMMA SetIsRest ==
  ASSUME LampAssumption, NEW c \in Channels, NEW x \in Int
  PROVE  /\ Begun(Set(c, x))
         /\ \A b \in BOOLEAN : Begun(Set(c, x) \o <<<<"bit", b>>>>)
         /\ \A d \in Model, y \in Int : Begun(Set(c, x) \o Set(d, y))
<1>1. Plan(Set(c, x), 3) /\ FewAfter(Set(c, x), 0) /\ Set(c, x) \in Seq(Op)
  BY ChannelIsSet DEF Plan
<1>2. FewAfter(Set(c, x), 2) /\ Starts(Set(c, x))
  BY <1>1, FewerAfter, StartsWith
<1>3. ASSUME NEW q, NEW m \in Nat, Plan(q, m), m <= 2, FewAfter(q, 2), Starts(q)
      PROVE  Begun(Set(c, x) \o q)
  <2>1. Plan(Set(c, x) \o q, 3 + m) /\ FewAfter(Set(c, x) \o q, 2)
    BY <1>1, <1>3, Both
  <2>2. Starts(Set(c, x) \o q)
    BY <1>2, <1>3, StartsBoth
  <2>3. Rest(Set(c, x) \o q) /\ Fresh(Set(c, x) \o q)
    BY <1>3, <2>1, PlanIsRest
  <2> QED BY <2>2, <2>3 DEF Begun
<1>4. ASSUME NEW b \in BOOLEAN
      PROVE  Plan(<<<<"bit", b>>>>, 1) /\ FewAfter(<<<<"bit", b>>>>, 2) /\ Starts(<<<<"bit", b>>>>)
  BY Markers, PlainHasFewAfter, StartsWith
<1>5. ASSUME NEW d \in Model, NEW y \in Int
      PROVE  Plan(Set(d, y), 2) /\ FewAfter(Set(d, y), 2) /\ Starts(Set(d, y))
  <2>1. d \in Channels
    BY DEF Channels
  <2>2. Plan(Set(d, y), 2) /\ FewAfter(Set(d, y), 0) /\ Set(d, y) \in Seq(Op)
    BY <2>1, ChannelIsSet DEF Plan
  <2> QED BY <2>1, <2>2, FewerAfter, StartsWith
<1>6. Begun(Set(c, x))
  BY <1>1, <1>2, PlanIsRest DEF Begun
<1> QED BY <1>3, <1>4, <1>5, <1>6

LEMMA BitIsRest ==
  ASSUME LampAssumption, NEW b \in BOOLEAN
  PROVE  Begun(<<<<"bit", b>>>>) /\ Begun(<<<<"bit", b>>>> \o <<<<"toLights">>>>)
<1>1. Plan(<<<<"bit", b>>>>, 1) /\ Plain(<<<<"bit", b>>>>) /\ FewAfter(<<<<"bit", b>>>>, 2)
  BY Markers, PlainHasFewAfter
<1>2. Plan(<<<<"toLights">>>>, 1) /\ FewAfter(<<<<"toLights">>>>, 2)
  <2>1. /\ Plan(<<<<"toLights">>>>, 1) /\ FewAfter(<<<<"toLights">>>>, 0)
        /\ <<<<"toLights">>>> \in Seq(Op)
    BY Markers DEF Plan
  <2> QED BY <2>1, FewerAfter
<1>3. /\ Plan(<<<<"bit", b>>>> \o <<<<"toLights">>>>, 1 + 1)
      /\ FewAfter(<<<<"bit", b>>>> \o <<<<"toLights">>>>, 2)
  BY <1>1, <1>2, Both
<1>4. Plan(<<<<"bit", b>>>> \o <<<<"toLights">>>>, 2)
  BY <1>3
<1>5. Starts(<<<<"bit", b>>>>) /\ Starts(<<<<"bit", b>>>> \o <<<<"toLights">>>>)
  BY StartsWith, StartsBoth
<1>6. Rest(<<<<"bit", b>>>>) /\ Fresh(<<<<"bit", b>>>>)
  BY <1>1, PlanIsRest
<1>7. /\ Rest(<<<<"bit", b>>>> \o <<<<"toLights">>>>)
      /\ Fresh(<<<<"bit", b>>>> \o <<<<"toLights">>>>)
  BY <1>3, <1>4, PlanIsRest
<1> QED BY <1>5, <1>6, <1>7 DEF Begun

LEMMA ReadsChannels ==
  ASSUME LampAssumption, LampInv
  PROVE  /\ \A c \in Channels : stored[c] \in Nat
         /\ stored["value"] \in 0..One /\ {"hue", "value", "saturation"} \subseteq Model
         /\ Model \subseteq Channels
         /\ oldValue \in 0..One /\ 0..One \subseteq Int /\ Goal \subseteq 0..One
         /\ autoHue \in BOOLEAN
<1>1. \A c \in Channels : stored[c] \in 0..MaxOf(c)
  BY DEF LampInv, TypesInv, StoredType
<1>2. "value" \in Channels /\ MaxOf("value") = One
  BY Constants DEF Channels, Model
<1> QED BY <1>1, <1>2, Constants DEF LampInv, TypesInv, Model, Channels

LEMMA Requests ==
  ASSUME LampAssumption, LampInv,
         \/ \E c \in Touched \ {"autoHue"}, x \in Goal : Request(c, x)
         \/ \E b \in BOOLEAN : RequestAutoHue(b)
  PROVE  LampInv'
<1>1. ASSUME NEW c \in Touched \ {"autoHue"}, NEW x \in Goal, Request(c, x) PROVE LampInv'
  <2>1. c \in Channels
    BY DEF LampAssumption, Channels
  <2>2. PICK y \in Int : y = IF c = "hue" THEN (x * 360) \div One ELSE x
    <3>1. x \in Int /\ One \in Nat \ {0}
      BY Constants
    <3>2. PICK z \in Int : z = x * 360
      BY <3>1
    <3>3. z \div One \in Int
      BY <3>1
    <3> QED BY <3>1, <3>2, <3>3
  <2>3. Begun(Set(c, y))
    BY <2>1, SetIsRest
  <2>4. /\ Begin("requests", Set(c, y))
        /\ UNCHANGED <<chip, stored, autoHue, oldValue, ls0, raced>>
    BY <1>1, <2>2 DEF Request
  <2>5. "requests" \in Thread /\ oldValue' \in 0..One
    BY <2>4, ReadsChannels DEF Thread
  <2> QED BY <2>3, <2>4, <2>5, Begins
<1>2. ASSUME NEW b \in BOOLEAN, RequestAutoHue(b) PROVE LampInv'
  <2>1. Begun(<<<<"bit", b>>>>)
    BY BitIsRest
  <2>2. /\ Begin("requests", <<<<"bit", b>>>>)
        /\ UNCHANGED <<chip, stored, autoHue, oldValue, ls0, raced>>
    BY <1>2 DEF RequestAutoHue
  <2>3. "requests" \in Thread /\ oldValue' \in 0..One
    BY <2>2, ReadsChannels DEF Thread
  <2> QED BY <2>1, <2>2, <2>3, Begins
<1> QED BY <1>1, <1>2

LEMMA Buttons ==
  ASSUME LampAssumption, LampInv, Toggle \/ OnOff
  PROVE  LampInv'
<1>1. CASE Toggle
  <2>1. autoHue \in BOOLEAN /\ (~autoHue) \in BOOLEAN /\ oldValue \in 0..One
    <3>1. autoHue \in BOOLEAN /\ oldValue \in 0..One
      BY ReadsChannels
    <3>2. \A x \in BOOLEAN : (~x) \in BOOLEAN
      OBVIOUS
    <3> QED BY <3>1, <3>2
  <2>2. PICK ops : ops = <<<<"bit", ~autoHue>>>> \o IF autoHue THEN <<>> ELSE <<<<"toLights">>>>
    OBVIOUS
  <2>3. ops = <<<<"bit", ~autoHue>>>> \/ ops = <<<<"bit", ~autoHue>>>> \o <<<<"toLights">>>>
    <3>1. CASE autoHue
      <4>1. <<<<"bit", ~autoHue>>>> \in Seq(Op)
        BY <2>1, BitIsRest DEF Begun, Rest
      <4>2. <<<<"bit", ~autoHue>>>> \o <<>> = <<<<"bit", ~autoHue>>>>
        BY <4>1, ConcatEmptySeq
      <4> QED BY <2>2, <3>1, <4>2
    <3>2. CASE ~autoHue
      BY <2>2, <3>2
    <3> QED BY <3>1, <3>2
  <2>4. Begun(ops)
    BY <2>1, <2>3, BitIsRest
  <2>5. /\ Begin("main", ops) /\ "main" \in Thread
        /\ UNCHANGED <<chip, stored, autoHue, oldValue, ls0, raced>>
    BY <1>1, <2>2 DEF Toggle, Thread
  <2> QED BY <2>1, <2>4, <2>5, Begins
<1>2. CASE OnOff
  <2>1. PICK x \in Int : x = IF stored["value"] > 0 THEN 0 ELSE oldValue
    BY ReadsChannels
  <2>2. Begun(Set("value", x))
    BY ReadsChannels, SetIsRest
  <2>3. /\ Begin("main", Set("value", x)) /\ "main" \in Thread
        /\ UNCHANGED <<chip, stored, autoHue, ls0, raced>>
    BY <1>2, <2>1 DEF OnOff, Thread
  <2>4. oldValue' \in 0..One
    BY <1>2, ReadsChannels DEF OnOff
  <2> QED BY <2>2, <2>3, <2>4, Begins
<1> QED BY <1>1, <1>2

LEMMA Turns ==
  ASSUME LampAssumption, LampInv, NEW r \in BOOLEAN, NEW g \in BOOLEAN, NEW b \in BOOLEAN,
         NEW byA \in BOOLEAN, NEW atA \in BOOLEAN, NEW atB \in BOOLEAN,
         \/ TurnYellow(r, g, b, byA, atA, atB)
         \/ \E speed \in {1, One} : TurnWhite(r, g, b, byA, atA, atB, speed)
  PROVE  LampInv'
<1>1. CASE TurnYellow(r, g, b, byA, atA, atB)
  <2> DEFINE c == getChannelYellow(r, g, b)
             incr == IF Clockwise(byA, atA, atB) THEN MaxOf(c) ELSE -MaxOf(c)
             old == stored[c]
             goal == CASE old = 0 -> IF c = "value" /\ incr < 0 THEN One ELSE 1
                       [] old > 0 /\ c = "hue" -> old * (1 + incr \div 20)
                       [] OTHER -> IF incr > 0 THEN old + 1 ELSE Max({1, old - 1})
  <2>1. c \in Touched /\ c # "autoHue"
    BY <1>1 DEF TurnYellow, getChannelYellow
  <2>2. c \in Channels
    BY <2>1 DEF LampAssumption, Channels
  <2>3. incr \in Int /\ One \in Int /\ old \in Int
    BY <2>2, Constants, ReadsChannels
  <2> HIDE DEF c, incr, old
  <2>4. goal \in Int
    <3>1. Max({1, old - 1}) \in Int
      <4>1. PICK x \in Int : x = old - 1
        BY <2>3
      <4>2. 1 \in Int /\ x \in Int
        OBVIOUS
      <4>3. Max({1, x}) \in Int
        BY <4>2, ExtremesOfTwo
      <4> QED BY <4>1, <4>3
    <3>2. PICK x \in Int : x = 1 + incr \div 20
      BY <2>3
    <3>3. old * x \in Int
      BY <2>3
    <3> QED BY <2>3, <3>1, <3>2, <3>3
  <2> HIDE DEF goal
  <2>5. PICK ops : ops = Set(c, goal) \o IF c = "value" THEN <<>> ELSE <<<<"bit", FALSE>>>>
    OBVIOUS
  <2>6. Set(c, goal) \in Seq(Op) /\ Begun(Set(c, goal))
    BY <2>2, <2>4, SetIsRest DEF Begun, Rest
  <2>7. ops = Set(c, goal) \/ ops = Set(c, goal) \o <<<<"bit", FALSE>>>>
    BY <2>5, <2>6, ConcatEmptySeq
  <2>8. Begun(ops)
    BY <2>2, <2>4, <2>7, SetIsRest
  <2>9. /\ Begin("main", ops) /\ "main" \in Thread
        /\ UNCHANGED <<chip, stored, autoHue, oldValue, ls0, raced>>
    BY <1>1, <2>5 DEF TurnYellow, Thread, goal, old, incr, c
  <2> QED BY <2>8, <2>9, Begins, ReadsChannels
<1>2. ASSUME NEW speed \in {1, One}, TurnWhite(r, g, b, byA, atA, atB, speed) PROVE LampInv'
  <2> DEFINE c == getChannelWhite(r, g, b)
             cw == Clockwise(byA, atA, atB)
  <2>1. c \in Touched
    BY <1>2 DEF TurnWhite
  <2>2. /\ "main" \in Thread /\ UNCHANGED <<chip, stored, autoHue, oldValue, ls0, raced>>
        /\ Begin("main", IF c = "autoHue" THEN <<<<"bit", cw>>>>
                         ELSE Set(c, stored[c] + IF cw THEN speed ELSE -speed))
    BY <1>2 DEF TurnWhite, Thread
  <2>3. cw \in BOOLEAN
    BY DEF Clockwise
  <2> HIDE DEF c, cw
  <2>4. CASE c = "autoHue"
    <3>1. Begin("main", <<<<"bit", cw>>>>) /\ Begun(<<<<"bit", cw>>>>)
      BY <2>2, <2>3, <2>4, BitIsRest
    <3> QED BY <2>2, <3>1, Begins, ReadsChannels
  <2>5. CASE c # "autoHue"
    <3>1. c \in Channels
      BY <2>1, <2>5 DEF LampAssumption, Channels
    <3>2. stored[c] \in Int /\ speed \in Int
      BY <3>1, ReadsChannels, Constants
    <3>3. PICK x \in Int : x = stored[c] + IF cw THEN speed ELSE -speed
      BY <2>3, <3>2
    <3>4. Begin("main", Set(c, x)) /\ Begun(Set(c, x))
      BY <2>2, <2>5, <3>1, <3>3, SetIsRest
    <3> QED BY <2>2, <3>4, Begins, ReadsChannels
  <2> QED BY <2>4, <2>5
<1> QED BY <1>1, <1>2

LEMMA AutoHues ==
  ASSUME LampAssumption, LampInv, AutoHueYellow \/ AutoHueWhite \/ AutoHueByDay
  PROVE  LampInv'
<1>1. ASSUME NEW x \in Int, NEW y \in Int, AutoHue(x, y) PROVE LampInv'
  <2>1. Begun(Set("hue", x) \o Set("saturation", y))
    BY SetIsRest, ReadsChannels
  <2>2. /\ Begin("main", Set("hue", x) \o Set("saturation", y)) /\ "main" \in Thread
        /\ UNCHANGED <<chip, stored, autoHue, oldValue, ls0, raced>>
    BY <1>1 DEF AutoHue, Thread
  <2> QED BY <2>1, <2>2, Begins, ReadsChannels
<1>2. ASSUME NEW phase \in Goal
      PROVE  /\ phase \in Int /\ One - phase \in Int
             /\ 60 - (60 * phase) \div One \in Int /\ (60 * phase) \div One \in Int
  <2>1. phase \in Int /\ One \in Nat \ {0}
    BY Constants
  <2>2. PICK x \in Int : x = 60 * phase
    BY <2>1
  <2>3. x \div One \in Int
    BY <2>1
  <2> QED BY <2>1, <2>2, <2>3
<1>3. CASE AutoHueYellow
  <2>1. PICK phase \in Goal : \/ AutoHue(60 - (60 * phase) \div One, phase)
                              \/ AutoHue((60 * phase) \div One, One - phase)
    BY <1>3 DEF AutoHueYellow
  <2> QED BY <1>1, <1>2, <2>1
<1>4. CASE AutoHueWhite
  <2>1. PICK phase \in Goal : \/ AutoHue(0, phase)
                              \/ AutoHue((60 * phase) \div One, One - phase)
    BY <1>4 DEF AutoHueWhite
  <2> QED BY <1>1, <1>2, <2>1
<1>5. CASE AutoHueByDay
  <2>1. Begun(Set("saturation", 0))
    BY SetIsRest, ReadsChannels
  <2>2. /\ Begin("main", Set("saturation", 0)) /\ "main" \in Thread
        /\ UNCHANGED <<chip, stored, autoHue, oldValue, ls0, raced>>
    BY <1>5 DEF AutoHueByDay, Thread
  <2> QED BY <2>1, <2>2, Begins, ReadsChannels
<1> QED BY <1>3, <1>4, <1>5

-----------------------------------------------------------------------------
(* What a suite takes from here *)

LEMMA LampInitially ==
  ASSUME LampAssumption, Init
  PROVE  LampInv
BY TypesInit, LightsInit, OffInit DEF LampInv

LEMMA LampTurn ==
  ASSUME LampAssumption, LampInv, [Next]_vars
  PROVE  LampInv'
<1>1. CASE UNCHANGED vars
  <2>1. TypesInv'
    BY <1>1 DEF vars, LampInv, TypesInv, StoredType, ShadowType
  <2>2. LightsInv'
    BY <1>1 DEF vars, LampInv, LightsInv, RacedInv, ShownInv, Busy, Storing, Reading
  <2>3. OffInv'
    BY <1>1 DEF vars, LampInv, OffInv
  <2> QED BY <2>1, <2>2, <2>3 DEF LampInv
<1>2. CASE Next
  BY <1>2, Does, Requests, Buttons, Turns, AutoHues DEF Next
<1> QED BY <1>1, <1>2

\* A lamp, as either daemon drives it (processRequest and the switch loop of rgbywd.cpp and of
\* rgbwPCA9533d.cpp): its types, an LED shows what is stored for it unless the two threads have
\* raced for its pair, and its value is 0 exactly when its lights are, unless they have mixed.
THEOREM LampHolds ==
  ASSUME LampAssumption
  PROVE  Spec => [](TypeOK /\ LampShowsValues /\ DarkIsOff)
<1>1. Init => LampInv
  BY LampInitially
<1>2. LampInv /\ [Next]_vars => LampInv'
  BY LampTurn
<1>3. LampInv => TypeOK /\ LampShowsValues /\ DarkIsOff
  BY TypesFollow, ShownFollows, OffFollows DEF LampInv
<1> QED BY <1>1, <1>2, <1>3, PTL DEF Spec
=============================================================================
