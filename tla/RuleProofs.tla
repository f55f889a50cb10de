----------------------------- MODULE RuleProofs -----------------------------
(***************************************************************************)
(* Theorems about the rule processor, for all acyclic graphs, any rows,    *)
(* and every order of dependents, delays and notifications.                *)
(***************************************************************************)
EXTENDS RuleProcessor, FiniteSetTheorems, SequenceTheorems, WellFoundedInduction, TLAPS

(* What a fold over the parents of a node returns. *)

\* Induction over the naturals, and over the subsets of a finite set from which one
\* element after the other is taken.
LEMMA Naturals == ASSUME NEW T \in SUBSET Nat, 0 \in T, \A k \in T : k + 1 \in T PROVE T = Nat
<1> SUFFICES ASSUME Nat \ T # {} PROVE FALSE
  OBVIOUS
<1>1. \E k \in Nat \ T : \A j \in Nat \ T : ~(<<j, k>> \in OpToRel(<, Nat))
  BY NatLessThanWellFounded, WFMin
<1>2. PICK k \in Nat \ T : \A j \in Nat \ T : ~(j < k)
  BY <1>1 DEF OpToRel
<1>3. k - 1 \in Nat /\ k - 1 < k
  BY <1>2
<1>4. k - 1 \in T
  BY <1>2, <1>3
<1> QED BY <1>2, <1>3, <1>4

Chosen(s) == CHOOSE x \in s : TRUE

LEMMA Fewer ==
  ASSUME NEW s, IsFiniteSet(s), s # {}
  PROVE  /\ Chosen(s) \in s /\ IsFiniteSet(s \ {Chosen(s)})
         /\ Cardinality(s) \in Nat /\ Cardinality(s \ {Chosen(s)}) \in Nat
         /\ Cardinality(s) = Cardinality(s \ {Chosen(s)}) + 1
<1>1. Chosen(s) \in s
  BY DEF Chosen
<1>2. /\ IsFiniteSet(s \ {Chosen(s)})
      /\ Cardinality(s \ {Chosen(s)}) = Cardinality(s) - 1
  BY <1>1, FS_RemoveElement
<1>3. Cardinality(s) \in Nat /\ Cardinality(s \ {Chosen(s)}) \in Nat
  BY <1>2, FS_CardinalityType
<1> QED BY <1>1, <1>2, <1>3

\* What a fold over D has for a subset s, if it has g for the smaller ones.
Folds(O, base, f, g, s) == IF s = {} THEN base ELSE O[<<f[Chosen(s)], g[s \ {Chosen(s)}]>>]

Folding(O, base, f, D) ==
  \E g \in [SUBSET D -> Int] : \A s \in SUBSET D : g[s] = Folds(O, base, f, g, s)

\* There is such a function.
LEMMA FoldExists ==
  ASSUME NEW D, IsFiniteSet(D), NEW f \in [D -> Int], NEW base \in Int,
         NEW O \in [Int \X Int -> Int]
  PROVE  Folding(O, base, f, D)
<1> DEFINE Upto(g, k) == \A s \in SUBSET D : Cardinality(s) <= k => g[s] = Folds(O, base, f, g, s)
<1> DEFINE T == {k \in Nat : \E g \in [SUBSET D -> Int] : Upto(g, k)}
<1>1. \A s \in SUBSET D : IsFiniteSet(s) /\ Cardinality(s) \in Nat /\ Cardinality(s) <= Cardinality(D)
  BY FS_Subset, FS_CardinalityType
<1>2. 0 \in T
  <2>1. [s \in SUBSET D |-> base] \in [SUBSET D -> Int]
    OBVIOUS
  <2>2. Upto([s \in SUBSET D |-> base], 0)
    <3> SUFFICES ASSUME NEW s \in SUBSET D, Cardinality(s) <= 0
                 PROVE  s = {}
      BY DEF Folds
    <3> QED BY <1>1, FS_EmptySet
  <2> QED BY <2>1, <2>2
<1>3. ASSUME NEW k \in T PROVE k + 1 \in T
  <2>1. PICK g \in [SUBSET D -> Int] : Upto(g, k)
    OBVIOUS
  <2>2. k \in Nat
    OBVIOUS
  <2> DEFINE h == [s \in SUBSET D |-> Folds(O, base, f, g, s)]
  <2>3. h \in [SUBSET D -> Int]
    <3> SUFFICES ASSUME NEW s \in SUBSET D, s # {}
                 PROVE  O[<<f[Chosen(s)], g[s \ {Chosen(s)}]>>] \in Int
      BY DEF Folds
    <3>1. Chosen(s) \in D /\ s \ {Chosen(s)} \in SUBSET D
      BY DEF Chosen
    <3>2. f[Chosen(s)] \in Int /\ g[s \ {Chosen(s)}] \in Int
      BY <3>1
    <3> QED BY <3>2
  <2>4. \A s \in SUBSET D : Cardinality(s) <= k => h[s] = g[s]
    BY <2>1
  <2>5. ASSUME NEW s \in SUBSET D, Cardinality(s) <= k + 1 PROVE h[s] = Folds(O, base, f, h, s)
    <3>1. CASE s = {}
      BY <3>1 DEF Folds
    <3>2. CASE s # {}
      <4>1. /\ s \ {Chosen(s)} \in SUBSET D
            /\ Cardinality(s) \in Nat /\ Cardinality(s \ {Chosen(s)}) \in Nat
            /\ Cardinality(s) = Cardinality(s \ {Chosen(s)}) + 1
        BY <1>1, <3>2, Fewer
      <4>2. Cardinality(s \ {Chosen(s)}) <= k
        BY <2>2, <2>5, <4>1
      <4>3. h[s \ {Chosen(s)}] = g[s \ {Chosen(s)}]
        BY <2>4, <4>1, <4>2
      <4> QED BY <4>3, <3>2 DEF Folds
    <3> QED BY <3>1, <3>2
  <2>6. Upto(h, k + 1)
    <3> HIDE DEF h
    <3> QED BY <2>5
  <2> HIDE DEF h, Upto
  <2> QED BY <2>2, <2>3, <2>6
<1>4. T = Nat
  <2> HIDE DEF T
  <2>1. T \in SUBSET Nat
    BY DEF T
  <2> QED BY <1>2, <1>3, <2>1, Naturals
<1>5. Cardinality(D) \in Nat
  BY FS_CardinalityType
<1>6. PICK g \in [SUBSET D -> Int] : Upto(g, Cardinality(D))
  <2> HIDE DEF Upto
  <2> QED BY <1>4, <1>5
<1> QED BY <1>1, <1>6 DEF Folding

\* What starts in the integers and stays in them ends there.
LEMMA FoldEnds ==
  ASSUME NEW D, IsFiniteSet(D), NEW g, g[{}] \in Int,
         \A s \in SUBSET D : s # {} /\ g[s \ {Chosen(s)}] \in Int => g[s] \in Int
  PROVE  g[D] \in Int
<1> DEFINE T == {k \in Nat : \A s \in SUBSET D : Cardinality(s) = k => g[s] \in Int}
<1>1. \A s \in SUBSET D : IsFiniteSet(s)
  BY FS_Subset
<1>2. 0 \in T
  BY <1>1, FS_EmptySet
<1>3. ASSUME NEW k \in T PROVE k + 1 \in T
  <2> SUFFICES ASSUME NEW s \in SUBSET D, Cardinality(s) = k + 1 PROVE g[s] \in Int
    OBVIOUS
  <2>1. s # {}
    <3>1. k \in Nat /\ k + 1 # 0
      OBVIOUS
    <3> QED BY <3>1, FS_EmptySet
  <2>2. /\ s \ {Chosen(s)} \in SUBSET D /\ Cardinality(s \ {Chosen(s)}) \in Nat
        /\ k + 1 = Cardinality(s \ {Chosen(s)}) + 1
    BY <1>1, <2>1, Fewer
  <2>3. Cardinality(s \ {Chosen(s)}) = k
    BY <2>2
  <2> QED BY <2>1, <2>2, <2>3
<1>4. T = Nat
  <2> HIDE DEF T
  <2>1. T \in SUBSET Nat
    BY DEF T
  <2> QED BY <1>2, <1>3, <2>1, Naturals
<1>5. Cardinality(D) \in T
  BY <1>4, FS_CardinalityType
<1> QED BY <1>5

\* Sums and products of integers.
LEMMA SumIsInt ==
  ASSUME NEW D, IsFiniteSet(D), NEW f \in [D -> Int]
  PROVE  SumFunction(f) \in Int
<1> DEFINE Step(g) == [s \in SUBSET D |-> IF s = {} THEN 0
                                          ELSE f[Chosen(s)] + g[s \ {Chosen(s)}]]
<1> DEFINE O == [p \in Int \X Int |-> p[1] + p[2]]
<1>1. PICK g \in [SUBSET D -> Int] : \A s \in SUBSET D : g[s] = Folds(O, 0, f, g, s)
  <2>1. O \in [Int \X Int -> Int] /\ 0 \in Int
    OBVIOUS
  <2> HIDE DEF O, Step
  <2>2. Folding(O, 0, f, D)
    BY <2>1, FoldExists
  <2> QED BY <2>2 DEF Folding
<1>2. g = Step(g)
  <2> SUFFICES ASSUME NEW s \in SUBSET D, s # {}
               PROVE  g[s] = f[Chosen(s)] + g[s \ {Chosen(s)}]
    BY <1>1 DEF Folds
  <2>1. f[Chosen(s)] \in Int /\ g[s \ {Chosen(s)}] \in Int
    BY DEF Chosen
  <2>2. g[s] = O[<<f[Chosen(s)], g[s \ {Chosen(s)}]>>]
    BY <1>1 DEF Folds
  <2> QED BY <2>1, <2>2
<1>3. PICK h : h = (CHOOSE x : x = Step(x))
  OBVIOUS
<1>4. h = Step(h)
  BY <1>2, <1>3
<1>5. h[{}] \in Int /\ \A s \in SUBSET D : s # {} /\ h[s \ {Chosen(s)}] \in Int => h[s] \in Int
  BY <1>4 DEF Chosen
<1>6. h[D] \in Int
  <2> HIDE DEF Step
  <2> QED BY <1>5, FoldEnds
<1>7. SumFunction(f) = h[D]
  BY <1>3 DEF SumFunction, SumFunctionOnSet, FoldFunctionOnSet, MapThenFoldSet, Chosen
<1> QED BY <1>6, <1>7

LEMMA ProductIsInt ==
  ASSUME NEW D, IsFiniteSet(D), NEW f \in [D -> Int]
  PROVE  FoldFunction(LAMBDA a, b : a * b, 1, f) \in Int
<1> DEFINE Step(g) == [s \in SUBSET D |-> IF s = {} THEN 1
                                          ELSE f[Chosen(s)] * g[s \ {Chosen(s)}]]
<1> DEFINE O == [p \in Int \X Int |-> p[1] * p[2]]
<1>1. PICK g \in [SUBSET D -> Int] : \A s \in SUBSET D : g[s] = Folds(O, 1, f, g, s)
  <2>1. O \in [Int \X Int -> Int] /\ 1 \in Int
    OBVIOUS
  <2> HIDE DEF O, Step
  <2>2. Folding(O, 1, f, D)
    BY <2>1, FoldExists
  <2> QED BY <2>2 DEF Folding
<1>2. g = Step(g)
  <2> SUFFICES ASSUME NEW s \in SUBSET D, s # {}
               PROVE  g[s] = f[Chosen(s)] * g[s \ {Chosen(s)}]
    BY <1>1 DEF Folds
  <2>1. f[Chosen(s)] \in Int /\ g[s \ {Chosen(s)}] \in Int
    BY DEF Chosen
  <2>2. g[s] = O[<<f[Chosen(s)], g[s \ {Chosen(s)}]>>]
    BY <1>1 DEF Folds
  <2> QED BY <2>1, <2>2
<1>3. PICK h : h = (CHOOSE x : x = Step(x))
  OBVIOUS
<1>4. h = Step(h)
  BY <1>2, <1>3
<1>5. h[{}] \in Int /\ \A s \in SUBSET D : s # {} /\ h[s \ {Chosen(s)}] \in Int => h[s] \in Int
  BY <1>4 DEF Chosen
<1>6. h[D] \in Int
  <2> HIDE DEF Step
  <2> QED BY <1>5, FoldEnds
<1>7. FoldFunction(LAMBDA a, b : a * b, 1, f) = h[D]
  BY <1>3 DEF FoldFunction, FoldFunctionOnSet, MapThenFoldSet, Chosen
<1> QED BY <1>6, <1>7

-----------------------------------------------------------------------------
(* Graphs *)

LEMMA ConstantFacts == (\A g \in Graphs : IsGraph(g)) /\ Readings \subseteq Int /\ MaxTime \in Nat \ {0}
BY RuleAssumption

LEMMA GraphStays ==
  ASSUME rules' = rules
  PROVE  /\ Node' = Node /\ Kind' = Kind /\ Parent' = Parent /\ Delay' = Delay
         /\ Constant' = Constant
         /\ Measurements' = Measurements /\ Delays' = Delays /\ Actions' = Actions
         /\ \A n : Parents(n)' = Parents(n) /\ Dependents(n)' = Dependents(n)
BY DEF Node, Kind, Parent, Delay, Constant, Measurements, Delays, Actions, Parents, Dependents

Types == Sources \cup Combining \cup {"latch", "latest", "delay", "action"}

\* What each node of a graph has.
LEMMA NodeFacts ==
  ASSUME rules \in Graphs, NEW n \in Node
  PROVE  /\ IsFiniteSet(Node) /\ Kind[n] \in Types
         /\ Parents(n) \subseteq Node /\ IsFiniteSet(Parents(n)) /\ n \notin Parents(n)
         /\ IsFiniteSet(DOMAIN Parent[n])
         /\ \A slot \in DOMAIN Parent[n] : Parent[n][slot] \in Parents(n)
         /\ \A p \in Parents(n) : \E slot \in DOMAIN Parent[n] : p = Parent[n][slot]
<1>1. IsGraph(rules)
  BY ConstantFacts
<1>2. /\ IsFiniteSet(Node) /\ Kind[n] \in Types /\ Parents(n) \subseteq Node
      /\ IF Kind[n] \in NumberOfParentsIsFree THEN IsFiniteSet(DOMAIN Parent[n])
         ELSE DOMAIN Parent[n] = Slots(Kind[n])
  BY <1>1 DEF IsGraph, Node, Kind, Parent, Parents, Types
<1>3. IsFiniteSet(Parents(n))
  BY <1>2, FS_Subset
<1>4. n \notin Parents(n)
  <2>1. PICK m \in {n} : ParentsIn(rules, m) \cap {n} = {}
    BY <1>1 DEF IsGraph, Node, Kind
  <2> QED BY <2>1 DEF Parents
<1>5. IsFiniteSet(DOMAIN Parent[n])
  <2>1. CASE Kind[n] \in NumberOfParentsIsFree
    BY <1>2, <2>1
  <2>2. CASE Kind[n] \notin NumberOfParentsIsFree
    <3>1. \A a, b : IsFiniteSet({a, b}) /\ IsFiniteSet({a}) /\ IsFiniteSet({})
      <4> TAKE a, b
      <4>1. IsFiniteSet({}) /\ IsFiniteSet({a})
        BY FS_EmptySet, FS_Singleton
      <4>2. IsFiniteSet({a} \cup {b})
        BY <4>1, FS_AddElement
      <4>3. {a} \cup {b} = {a, b}
        OBVIOUS
      <4> QED BY <4>1, <4>2, <4>3
    <3>2. IsFiniteSet(Slots(Kind[n]))
      BY <1>2, <2>2, <3>1 DEF Slots, Types, Sources, Combining, NumberOfParentsIsFree
    <3> QED BY <1>2, <2>2, <3>2
  <2> QED BY <2>1, <2>2
<1>6. /\ \A slot \in DOMAIN Parent[n] : Parent[n][slot] \in Parents(n)
      /\ \A p \in Parents(n) : \E slot \in DOMAIN Parent[n] : p = Parent[n][slot]
  BY DEF Parents, ParentsIn, Parent
<1> QED BY <1>2, <1>3, <1>4, <1>5, <1>6

\* The slots of the types that have fixed ones.
LEMMA SlotFacts ==
  ASSUME rules \in Graphs, NEW n \in Node
  PROVE  /\ Kind[n] \in Sources => Parents(n) = {}
         /\ Kind[n] \in {"delay", "action"} =>
              Parent[n]["parent"] \in Node /\ Parents(n) = {Parent[n]["parent"]}
         /\ Kind[n] = "latch" => /\ Parents(n) = {Parent[n]["set"], Parent[n]["reset"]}
                                 /\ Parent[n]["set"] \in Node /\ Parent[n]["reset"] \in Node
         /\ Kind[n] = "greater" => DOMAIN Parent[n] = {"left", "right"}
         /\ Kind[n] = "difference" => DOMAIN Parent[n] = {"subtrahend", "minuend"}
         /\ Kind[n] = "delay" => Delay[n] \in Nat
         /\ Kind[n] = "constant" => Constant[n] \in Int
<1>1. /\ Kind[n] \notin NumberOfParentsIsFree => DOMAIN Parent[n] = Slots(Kind[n])
      /\ Kind[n] = "delay" => Delay[n] \in Nat
      /\ Kind[n] = "constant" => Constant[n] \in Int
  BY ConstantFacts DEF IsGraph, Node, Kind, Parent, Delay, Constant
<1>2. /\ Parents(n) = {Parent[n][slot] : slot \in DOMAIN Parent[n]}
      /\ Parents(n) \subseteq Node
  BY NodeFacts DEF Parents, ParentsIn, Parent
<1>3. /\ Kind[n] \in Sources => DOMAIN Parent[n] = {}
      /\ Kind[n] \in {"delay", "action"} => DOMAIN Parent[n] = {"parent"}
      /\ Kind[n] = "latch" => DOMAIN Parent[n] = {"set", "reset"}
      /\ Kind[n] = "greater" => DOMAIN Parent[n] = {"left", "right"}
      /\ Kind[n] = "difference" => DOMAIN Parent[n] = {"subtrahend", "minuend"}
  BY <1>1 DEF Slots, Sources, NumberOfParentsIsFree
<1> QED BY <1>1, <1>2, <1>3

\* The nodes that are reached from n through dependents.
Closed(S) == \A s \in S : Dependents(s) \subseteq S
Below(n) == {d \in Node : \A S \in SUBSET Node : Dependents(n) \subseteq S /\ Closed(S) => d \in S}

LEMMA BelowFacts ==
  ASSUME rules \in Graphs, NEW n \in Node
  PROVE  /\ Below(n) \subseteq Node /\ Dependents(n) \subseteq Below(n)
         /\ \A d \in Below(n) : Dependents(d) \subseteq Below(n)
         /\ n \notin Below(n)
<1>1. Below(n) \subseteq Node /\ Dependents(n) \subseteq Below(n)
  BY DEF Below, Dependents
<1>2. ASSUME NEW d \in Below(n), NEW e \in Dependents(d) PROVE e \in Below(n)
  <2>1. e \in Node
    BY DEF Dependents
  <2>2. ASSUME NEW S \in SUBSET Node, Dependents(n) \subseteq S, Closed(S) PROVE e \in S
    <3>1. d \in S
      BY <2>2 DEF Below
    <3> QED BY <2>2, <3>1 DEF Closed
  <2> QED BY <2>1, <2>2 DEF Below
<1>3. ASSUME n \in Below(n) PROVE FALSE
  <2>1. PICK d \in Below(n) : Parents(d) \cap Below(n) = {}
    <3>1. IsGraph(rules)
      BY ConstantFacts
    <3>2. Below(n) \in SUBSET Node /\ Below(n) # {}
      BY <1>1, <1>3
    <3> QED BY <3>1, <3>2 DEF IsGraph, Node, Kind, Parents
  <2> DEFINE S == Below(n) \ {d}
  <2>2. S \in SUBSET Node
    BY <1>1
  <2>3. Dependents(n) \subseteq S
    BY <1>1, <1>3, <2>1 DEF Dependents
  <2>4. Closed(S)
    BY <1>2, <2>1 DEF Closed, Dependents
  <2>5. d \in S
    <3> HIDE DEF S
    <3> QED BY <2>1, <2>2, <2>3, <2>4 DEF Below
  <2> QED BY <2>5
<1> QED BY <1>1, <1>2, <1>3

-----------------------------------------------------------------------------
(* Types *)

Waiting == [lTime : Nat, node : Delays]
TypesInv ==
  /\ rules \in Graphs
  /\ now \in 1..MaxTime
  /\ rows \in [Measurements -> [lTime : 1..now, value : Readings]]
  /\ wire \in Seq(Measurements) /\ notifications \in Seq(Measurements)
  /\ phase \in {"read", "start", "timed", "timed process", "poll", "notify"}
  /\ stack \in Seq(SUBSET Node)
  /\ stack # <<>> => phase \in {"timed process", "notify"}
  /\ lValue \in [Node -> Int] /\ lTime \in [Node -> 0..now]
  /\ lTimes \subseteq Waiting /\ (it = None \/ it \in Waiting)
  /\ requests \in [Actions -> Int \cup {None}]
  /\ processed \subseteq Node /\ unheard \subseteq Measurements

LEMMA TypesImplyTypeOK == TypesInv => TypeOK
BY DEF TypesInv, TypeOK, Waiting

LEMMA NodeKinds ==
  /\ Measurements \subseteq Node /\ Delays \subseteq Node /\ Actions \subseteq Node
  /\ \A n \in Node : /\ n \in Measurements <=> Kind[n] = "measurement"
                     /\ n \in Delays <=> Kind[n] = "delay"
                     /\ n \in Actions <=> Kind[n] = "action"
                     /\ n \in Constants <=> Kind[n] = "constant"
BY DEF Measurements, Delays, Actions, Constants

LEMMA TypesInit == Init => TypesInv
<1> SUFFICES ASSUME Init PROVE TypesInv
  OBVIOUS
<1>1. /\ rules \in Graphs /\ now = 1 /\ 1 \in 1..MaxTime
      /\ rows \in [Measurements -> [lTime : {1}, value : Readings]]
      /\ wire = <<>> /\ notifications = <<>> /\ stack = <<>> /\ phase = "read"
      /\ lTime = [n \in Node |-> 0] /\ lTimes = {} /\ it = None
      /\ requests = [a \in Actions |-> None] /\ processed = {} /\ unheard = {}
  BY ConstantFacts DEF Init
<1>2. {1} = 1..now
  BY <1>1
<1>3. lValue \in [Node -> Int]
  <2>1. PICK garbage \in {0, 1} :
          lValue = [n \in Node |-> IF n \in Constants THEN Constant[n] ELSE garbage]
    BY DEF Init
  <2>2. \A n \in Node : n \in Constants => Constant[n] \in Int
    BY <1>1, SlotFacts, NodeKinds
  <2> QED BY <2>1, <2>2
<1>4. wire \in Seq(Measurements) /\ notifications \in Seq(Measurements) /\ stack \in Seq(SUBSET Node)
  BY <1>1, EmptySeq
<1> QED BY <1>1, <1>2, <1>3, <1>4 DEF TypesInv

LEMMA MaxIsGreatest ==
  ASSUME NEW S, NEW b \in Nat, S \subseteq 0..b, S # {}
  PROVE  Max(S) \in S /\ \A x \in S : x <= Max(S)
<1>1. \E x \in S : \A y \in S : x >= y
  <2> DEFINE T == {b - x : x \in S}
  <2>1. T \subseteq Nat /\ T # {}
    <3>1. \A x \in S : b - x \in Nat
      OBVIOUS
    <3>2. PICK x \in S : TRUE
      OBVIOUS
    <3>3. b - x \in T
      OBVIOUS
    <3> QED BY <3>1, <3>3
  <2>2. \E t \in T : \A u \in T : ~(<<u, t>> \in OpToRel(<, Nat))
    <3> HIDE DEF T
    <3> QED BY <2>1, NatLessThanWellFounded, WFMin
  <2>3. PICK t \in T : \A u \in T : ~(u < t)
    BY <2>1, <2>2 DEF OpToRel
  <2>4. PICK x \in S : t = b - x
    OBVIOUS
  <2>5. ASSUME NEW y \in S PROVE x >= y
    <3>1. b - y \in T
      OBVIOUS
    <3>2. ~(b - y < b - x)
      BY <2>3, <2>4, <3>1
    <3> QED BY <3>2
  <2> QED BY <2>5
<1>2. Max(S) \in S /\ \A y \in S : Max(S) >= y
  BY <1>1 DEF Max
<1> QED BY <1>2

\* The newest time is that of a parent or its own, and none is newer.
LEMMA NewestFacts ==
  ASSUME TypesInv, NEW n \in Node
  PROVE  /\ NewestOf(n) \in 0..now /\ NewestOf(n) >= lTime[n]
         /\ \A p \in Parents(n) : lTime[p] <= NewestOf(n)
         /\ NewestOf(n) = lTime[n] \/ \E p \in Parents(n) : lTime[p] = NewestOf(n)
<1>1. PICK S : S = {lTime[n]} \cup {lTime[p] : p \in Parents(n)}
  OBVIOUS
<1>2. Parents(n) \subseteq Node /\ lTime \in [Node -> 0..now] /\ now \in Nat
  <2>1. rules \in Graphs /\ lTime \in [Node -> 0..now] /\ now \in 1..MaxTime
    BY DEF TypesInv
  <2> QED BY <2>1, NodeFacts, ConstantFacts
<1>3. S \subseteq 0..now /\ S # {}
  BY <1>1, <1>2
<1>4. Max(S) \in S /\ \A x \in S : x <= Max(S)
  BY <1>2, <1>3, MaxIsGreatest
<1>5. NewestOf(n) = Max(S)
  BY <1>1 DEF NewestOf
<1> QED BY <1>1, <1>2, <1>3, <1>4, <1>5

\* What is made of integers is one.
LEMMA CombinedIsInt ==
  ASSUME TypesInv, NEW n \in Node, Kind[n] \in Combining
  PROVE  Computed(n) \in Int
<1>1. rules \in Graphs /\ lValue \in [Node -> Int]
  BY DEF TypesInv
<1>2. PICK D : D = DOMAIN Parent[n]
  OBVIOUS
<1>3. PICK seen : seen = Seen(n)
  OBVIOUS
<1>4. IsFiniteSet(D) /\ \A slot \in D : Parent[n][slot] \in Node
  BY <1>1, <1>2, NodeFacts
<1>5. seen \in [D -> Int]
  BY <1>1, <1>2, <1>3, <1>4 DEF Seen, ValueAt
<1>6. NumberTrue(seen) \in Nat
  <2>1. IsFiniteSet({slot \in D : seen[slot] # 0})
    BY <1>4, FS_Subset
  <2>2. Cardinality({slot \in D : seen[slot] # 0}) \in Nat
    BY <2>1, FS_CardinalityType
  <2> QED BY <1>5, <2>2 DEF NumberTrue
<1>7. \A b : Truth(b) \in Int
  BY DEF Truth
<1>8. Computed(n) = Combined(Kind[n], seen)
  BY <1>3 DEF Computed
<1>9. CASE Kind[n] \in {"or", "and"}
  BY <1>7, <1>8, <1>9 DEF Combined
<1>10. CASE Kind[n] \in {"odd", "even"}
  <2>1. NumberTrue(seen) % 2 \in Int /\ 1 - (NumberTrue(seen) % 2) \in Int
    BY <1>6
  <2> QED BY <1>8, <1>10, <2>1 DEF Combined
<1>11. CASE Kind[n] = "greater"
  BY <1>7, <1>8, <1>11 DEF Combined
<1>12. CASE Kind[n] = "sum"
  <2>1. SumFunction(seen) \in Int
    BY <1>4, <1>5, SumIsInt
  <2> QED BY <1>8, <1>12, <2>1 DEF Combined
<1>13. CASE Kind[n] = "product"
  <2>1. FoldFunction(LAMBDA a, b : a * b, 1, seen) \in Int
    BY <1>4, <1>5, ProductIsInt
  <2>2. Computed(n) = FoldFunction(LAMBDA a, b : a * b, 1, seen)
    BY <1>8, <1>13 DEF Combined
  <2> QED BY <2>1, <2>2
<1>14. CASE Kind[n] = "difference"
  <2>1. D = {"subtrahend", "minuend"}
    BY <1>1, <1>2, <1>14, SlotFacts
  <2>2. seen["subtrahend"] - seen["minuend"] \in Int
    BY <1>5, <2>1
  <2> QED BY <1>8, <1>14, <2>2 DEF Combined
<1> QED BY <1>9, <1>10, <1>11, <1>12, <1>13, <1>14 DEF Combining

\* The nodes that are still to be visited.
Frames(s) == UNION {s[i] : i \in DOMAIN s}

Pushed(X, s) == <<X>> \o s
Pushable(X, s, N) == /\ Pushed(X, s) \in Seq(SUBSET N) /\ Frames(Pushed(X, s)) = X \cup Frames(s)
                     /\ <<X>> \in Seq(SUBSET N) /\ Frames(<<X>>) = X
LEMMA FramePushed ==
  ASSUME NEW N, NEW s \in Seq(SUBSET N), NEW X \in SUBSET N
  PROVE  Pushable(X, s, N)
<1>1. <<X>> \in Seq(SUBSET N) /\ Len(<<X>>) = 1 /\ <<X>>[1] = X /\ DOMAIN <<X>> = 1..1
  OBVIOUS
<1>2. PICK n \in Nat : n = Len(s) /\ DOMAIN s = 1..n /\ \A i \in 1..n : s[i] \in SUBSET N
  BY LenProperties
<1>3. PICK t : t = <<X>> \o s
  OBVIOUS
<1>4. /\ t \in Seq(SUBSET N) /\ Len(t) = 1 + n
      /\ \A i \in 1..(1 + n) : t[i] = IF i <= 1 THEN X ELSE s[i - 1]
  BY <1>1, <1>2, <1>3, ConcatProperties
<1>5. DOMAIN t = 1..(1 + n)
  BY <1>4, LenProperties
<1>6. Frames(t) = X \cup Frames(s)
  <2>1. ASSUME NEW d \in Frames(t) PROVE d \in X \cup Frames(s)
    <3>1. PICK i \in 1..(1 + n) : d \in t[i]
      BY <1>5, <2>1 DEF Frames
    <3>2. i <= 1 \/ (i - 1 \in 1..n /\ t[i] = s[i - 1])
      BY <1>4, <3>1
    <3> QED BY <1>2, <1>4, <3>1, <3>2 DEF Frames
  <2>2. ASSUME NEW d \in X PROVE d \in Frames(t)
    <3>1. 1 \in 1..(1 + n) /\ t[1] = X
      BY <1>4
    <3> QED BY <1>5, <3>1 DEF Frames
  <2>3. ASSUME NEW d \in Frames(s) PROVE d \in Frames(t)
    <3>1. PICK i \in 1..n : d \in s[i]
      BY <1>2 DEF Frames
    <3>2. i + 1 \in 1..(1 + n) /\ t[i + 1] = s[i]
      BY <1>4
    <3> QED BY <1>5, <3>1, <3>2 DEF Frames
  <2> QED BY <2>1, <2>2, <2>3
<1>7. Frames(<<X>>) = X
  BY <1>1 DEF Frames
<1> QED BY <1>1, <1>3, <1>4, <1>6, <1>7 DEF Pushable, Pushed

LEMMA FramePopped ==
  ASSUME NEW N, NEW s \in Seq(SUBSET N)
  PROVE  /\ s # <<>> => /\ Head(s) \in SUBSET N /\ Tail(s) \in Seq(SUBSET N)
                        /\ Frames(s) = Head(s) \cup Frames(Tail(s))
         /\ Frames(<<>>) = {} /\ Frames(s) \subseteq N
<1>1. PICK n \in Nat : n = Len(s) /\ DOMAIN s = 1..n /\ \A i \in 1..n : s[i] \in SUBSET N
  BY LenProperties
<1>2. ASSUME s # <<>>
      PROVE  /\ Head(s) \in SUBSET N /\ Tail(s) \in Seq(SUBSET N)
             /\ Frames(s) = Head(s) \cup Frames(Tail(s))
  <2>1. PICK u : u = Tail(s)
    OBVIOUS
  <2>2. /\ Head(s) \in SUBSET N /\ u \in Seq(SUBSET N) /\ Len(u) = n - 1
        /\ \A i \in 1..(n - 1) : u[i] = s[i + 1]
    BY <1>1, <1>2, <2>1, HeadTailProperties
  <2>3. DOMAIN u = 1..(n - 1) /\ n > 0 /\ Head(s) = s[1]
    BY <1>1, <1>2, <2>2, LenProperties, EmptySeq
  <2>4. ASSUME NEW d \in Frames(s) PROVE d \in Head(s) \cup Frames(u)
    <3>1. PICK i \in 1..n : d \in s[i]
      BY <1>1 DEF Frames
    <3>2. i = 1 \/ (i - 1 \in 1..(n - 1) /\ u[i - 1] = s[i])
      BY <2>2
    <3> QED BY <2>3, <3>1, <3>2 DEF Frames
  <2>5. ASSUME NEW d \in Head(s) PROVE d \in Frames(s)
    BY <1>1, <2>3 DEF Frames
  <2>6. ASSUME NEW d \in Frames(u) PROVE d \in Frames(s)
    <3>1. PICK i \in 1..(n - 1) : d \in u[i]
      BY <2>3 DEF Frames
    <3>2. i + 1 \in 1..n /\ s[i + 1] = u[i]
      BY <2>2
    <3> QED BY <1>1, <3>1, <3>2 DEF Frames
  <2> QED BY <2>1, <2>2, <2>4, <2>5, <2>6
<1>3. Frames(<<>>) = {}
  BY DEF Frames
<1>4. Frames(s) \subseteq N
  BY <1>1 DEF Frames
<1> QED BY <1>2, <1>3, <1>4

\* A visit takes a node from the stack and may put its dependents there.
LEMMA VisitFacts ==
  ASSUME TypesInv, NEW n, Visiting(n)
  PROVE  /\ n \in Frames(stack) /\ n \in Node
         /\ Left(n) \in Seq(SUBSET Node) /\ Entered(n) \in Seq(SUBSET Node)
         /\ Frames(Left(n)) \subseteq Frames(stack)
         /\ Frames(stack) \subseteq Frames(Left(n)) \cup {n}
         /\ Frames(Entered(n)) = Dependents(n) \cup Frames(Left(n))
<1>1. stack \in Seq(SUBSET Node) /\ stack # <<>> /\ n \in Head(stack)
  BY DEF TypesInv, Visiting
<1>0. /\ Head(stack) \in SUBSET Node /\ Tail(stack) \in Seq(SUBSET Node)
      /\ Frames(stack) = Head(stack) \cup Frames(Tail(stack))
  BY <1>1, FramePopped
<1>2. PICK top \in SUBSET Node, rest \in Seq(SUBSET Node) : top = Head(stack) /\ rest = Tail(stack)
  BY <1>0
<1>3. PICK X \in SUBSET Node : X = top \ {n}
  OBVIOUS
<1>4. Left(n) = <<X>> \o rest
  BY <1>2, <1>3 DEF Left
<1>5. Left(n) \in Seq(SUBSET Node) /\ Frames(Left(n)) = X \cup Frames(rest)
  <2>1. Pushable(X, rest, Node)
    BY FramePushed
  <2> QED BY <1>4, <2>1 DEF Pushable, Pushed
<1>6. Dependents(n) \in SUBSET Node
  BY DEF Dependents
<1>7. Entered(n) \in Seq(SUBSET Node) /\ Frames(Entered(n)) = Dependents(n) \cup Frames(Left(n))
  <2>1. Pushable(Dependents(n), Left(n), Node)
    BY <1>5, <1>6, FramePushed
  <2> QED BY <2>1 DEF Pushable, Pushed, Entered
<1> QED BY <1>1, <1>0, <1>2, <1>3, <1>5, <1>7

LEMMA QueueFacts ==
  ASSUME TypesInv
  PROVE  /\ notifications \o wire \in Seq(Measurements)
         /\ <<>> \in Seq(Measurements)
         /\ notifications # <<>> => /\ Head(notifications) \in Measurements
                                    /\ Tail(notifications) \in Seq(Measurements)
                                    /\ Tail(notifications) \o wire \in Seq(Measurements)
         /\ \A m \in Measurements : Append(wire, m) \in Seq(Measurements)
<1>1. wire \in Seq(Measurements) /\ notifications \in Seq(Measurements)
  BY DEF TypesInv
<1> QED BY <1>1, EmptySeq, HeadTailProperties, ConcatProperties, AppendProperties

LEMMA RulesStay == [Next]_vars => rules' = rules
BY DEF Next, Main, Process, Insert, Tick, ReadMeasurement, Listen, ThreadsStarted, TimedStarts,
       TimedEnds, TimedDone, PollTimesOut, ConsumeInput, NotificationRead, NotifyDone, Returned,
       ProcessCombining, ProcessLatest, ProcessLatch, ProcessDelay, ProcessAction, vars, world

LEMMA RowFacts ==
  ASSUME TypesInv, NEW m \in Measurements
  PROVE  /\ now \in Nat /\ rows[m].lTime \in 1..now /\ rows[m].lTime \in 0..now
         /\ rows[m].value \in Int
<1>1. now \in 1..MaxTime /\ rows[m] \in [lTime : 1..now, value : Readings]
  BY DEF TypesInv
<1>2. Readings \subseteq Int /\ MaxTime \in Nat
  BY ConstantFacts
<1>3. rows[m].lTime \in 1..now /\ rows[m].value \in Readings /\ now \in Nat
  BY <1>1, <1>2
<1>4. PICK r \in 1..now : r = rows[m].lTime
  BY <1>3
<1>5. r \in 0..now
  BY <1>3
<1>6. rows[m].value \in Int
  BY <1>2, <1>3
<1> QED BY <1>3, <1>4, <1>5, <1>6

LEMMA TimeFacts ==
  ASSUME TypesInv, NEW n \in Node
  PROVE  lTime[n] \in Nat /\ lTime[n] <= now /\ now \in Nat /\ lValue[n] \in Int
<1>1. lTime[n] \in 0..now /\ now \in 1..MaxTime /\ lValue[n] \in Int
  BY DEF TypesInv
<1> QED BY <1>1, ConstantFacts

LEMMA AbsorbedFacts ==
  ASSUME TypesInv, NEW queue \in Seq(Measurements), Absorbed(queue)
  PROVE  wire' \in Seq(Measurements) /\ notifications' \in Seq(Measurements)
<1>1. wire \in Seq(Measurements) /\ queue \o wire \in Seq(Measurements) /\ <<>> \in Seq(Measurements)
  <2>1. wire \in Seq(Measurements)
    BY DEF TypesInv
  <2> QED BY <2>1, ConcatProperties, EmptySeq
<1> QED BY <1>1 DEF Absorbed

\* The state a step starts from, and what the graph and time are after it.
LEMMA TypesStep == TypesInv /\ [Next]_vars => TypesInv'
<1> SUFFICES ASSUME TypesInv, [Next]_vars PROVE TypesInv'
  OBVIOUS
<1>1. /\ rules' = rules /\ Node' = Node /\ Measurements' = Measurements /\ Delays' = Delays
      /\ Actions' = Actions /\ Waiting' = Waiting
  BY RulesStay, GraphStays DEF Waiting
<1>2. MaxTime \in Nat
  BY ConstantFacts
<1>3. CASE UNCHANGED vars
  BY <1>1, <1>3 DEF TypesInv, vars, world, graph
<1>4. ASSUME NEW m \in Measurements, NEW v \in Readings, Insert(m, v) PROVE TypesInv'
  <2>1. now' \in 1..MaxTime /\ now' = now + 1 /\ now \in 1..MaxTime /\ 1..now \subseteq 1..now'
    <3>1. now \in 1..MaxTime /\ now < MaxTime /\ now' = now + 1
      BY <1>4 DEF Insert, TypesInv
    <3> QED BY <1>2, <3>1
  <2>2. rows' \in [Measurements -> [lTime : 1..now', value : Readings]]
    <3>1. rows' = [rows EXCEPT ![m] = [lTime |-> now', value |-> v]]
      BY <1>4, <2>1 DEF Insert
    <3>2. [lTime |-> now', value |-> v] \in [lTime : 1..now', value : Readings]
      BY <2>1
    <3>3. rows \in [Measurements -> [lTime : 1..now, value : Readings]]
      BY DEF TypesInv
    <3>4. \A r \in [lTime : 1..now, value : Readings] : r \in [lTime : 1..now', value : Readings]
      BY <2>1
    <3> QED BY <3>1, <3>2, <3>3, <3>4
  <2>3. lTime' \in [Node -> 0..now']
    <3>1. lTime' = lTime /\ lTime \in [Node -> 0..now]
      BY <1>4 DEF Insert, graph, TypesInv
    <3> QED BY <2>1, <3>1
  <2>4. wire' \in Seq(Measurements) /\ unheard' \subseteq Measurements
    BY <1>4, QueueFacts DEF Insert, TypesInv
  <2> QED BY <1>1, <1>4, <2>1, <2>2, <2>3, <2>4 DEF TypesInv, Insert, graph
<1>5. ASSUME Tick PROVE TypesInv'
  <2>1. now' \in 1..MaxTime /\ now' = now + 1 /\ now \in 1..MaxTime /\ 1..now \subseteq 1..now'
    <3>1. now \in 1..MaxTime /\ now < MaxTime /\ now' = now + 1
      BY <1>5 DEF Tick, TypesInv
    <3> QED BY <1>2, <3>1
  <2>2. rows' \in [Measurements -> [lTime : 1..now', value : Readings]]
    <3>1. rows' = rows /\ rows \in [Measurements -> [lTime : 1..now, value : Readings]]
      BY <1>5 DEF TypesInv, Tick
    <3>2. \A r \in [lTime : 1..now, value : Readings] : r \in [lTime : 1..now', value : Readings]
      BY <2>1
    <3> QED BY <3>1, <3>2
  <2>3. lTime' \in [Node -> 0..now']
    <3>1. lTime' = lTime /\ lTime \in [Node -> 0..now]
      BY <1>5 DEF Tick, graph, TypesInv
    <3> QED BY <2>1, <3>1
  <2> QED BY <1>1, <1>5, <2>1, <2>2, <2>3 DEF TypesInv, Tick, graph
<1>6. ASSUME NEW m \in Measurements, ReadMeasurement(m) PROVE TypesInv'
  <2>1. rows[m].lTime \in 0..now /\ rows[m].value \in Int
    BY RowFacts
  <2>2. lValue' \in [Node -> Int] /\ lTime' \in [Node -> 0..now]
    BY <1>6, <2>1 DEF ReadMeasurement, TypesInv
  <2> QED BY <1>1, <1>6, <2>2 DEF TypesInv, ReadMeasurement
<1>7. ASSUME ThreadsStarted PROVE TypesInv'
  <2>1. wire' \in Seq(Measurements) /\ notifications' \in Seq(Measurements)
    <3>1. notifications \in Seq(Measurements) /\ Absorbed(notifications)
      BY <1>7 DEF TypesInv, ThreadsStarted
    <3> QED BY <3>1, AbsorbedFacts
  <2> QED BY <1>1, <1>7, <2>1 DEF TypesInv, ThreadsStarted, world, graph
<1>8. ASSUME NEW e \in lTimes, TimedStarts(e) PROVE TypesInv'
  <2>1. e \in Waiting /\ Dependents(e.node) \in SUBSET Node
    BY DEF TypesInv, Dependents
  <2>2. stack' \in Seq(SUBSET Node)
    <3>1. <<>> \in Seq(SUBSET Node)
      BY EmptySeq
    <3>2. Pushable(Dependents(e.node), <<>>, Node)
      BY <2>1, <3>1, FramePushed
    <3> QED BY <1>8, <3>2 DEF TimedStarts, Pushable
  <2> QED BY <1>1, <1>8, <2>1, <2>2 DEF TypesInv, TimedStarts, world, graph
<1>9. ASSUME NotificationRead PROVE TypesInv'
  <2>1. PICK m \in Measurements : m = Head(notifications)
    BY <1>9, QueueFacts DEF NotificationRead
  <2>2. rows[m].lTime \in 0..now /\ rows[m].value \in Int
    BY RowFacts
  <2>3. lValue' \in [Node -> Int] /\ lTime' \in [Node -> 0..now]
    BY <1>9, <2>1, <2>2 DEF NotificationRead, TypesInv
  <2>4. stack' \in Seq(SUBSET Node)
    <3>1. <<>> \in Seq(SUBSET Node) /\ Dependents(m) \in SUBSET Node
      BY EmptySeq DEF Dependents
    <3>2. Pushable(Dependents(m), <<>>, Node)
      BY <3>1, FramePushed
    <3> QED BY <1>9, <2>1, <3>2 DEF NotificationRead, Pushable
  <2>5. wire' \in Seq(Measurements) /\ notifications' \in Seq(Measurements)
    <3>1. Tail(notifications) \in Seq(Measurements) /\ Absorbed(Tail(notifications))
      BY <1>9, QueueFacts DEF NotificationRead
    <3> QED BY <3>1, AbsorbedFacts
  <2>6. processed' \subseteq Node
    BY <1>9, <2>1, NodeKinds DEF NotificationRead, TypesInv
  <2> QED BY <1>1, <1>9, <2>3, <2>4, <2>5, <2>6 DEF TypesInv, NotificationRead, world
<1>10. ASSUME Returned PROVE TypesInv'
  <2>1. stack' \in Seq(SUBSET Node)
    <3>1. stack \in Seq(SUBSET Node) /\ stack # <<>>
      BY <1>10 DEF Returned, TypesInv
    <3> QED BY <1>10, <3>1, FramePopped DEF Returned
  <2> QED BY <1>1, <1>10, <2>1 DEF TypesInv, Returned, world, graph
<1>11. ASSUME NEW n \in Node, ProcessCombining(n) PROVE TypesInv'
  <2>1. Computed(n) \in Int /\ NewestOf(n) \in 0..now
    BY <1>11, CombinedIsInt, NewestFacts DEF ProcessCombining
  <2>2. lValue' \in [Node -> Int] /\ lTime' \in [Node -> 0..now]
    BY <1>11, <2>1 DEF ProcessCombining, TypesInv
  <2>3. stack' \in Seq(SUBSET Node) /\ stack # <<>>
    BY <1>11, VisitFacts DEF ProcessCombining, Visiting
  <2> QED BY <1>1, <1>11, <2>2, <2>3 DEF TypesInv, ProcessCombining, world
<1>12. ASSUME NEW n \in Node, ProcessLatest(n) PROVE TypesInv'
  <2>1. NewestOf(n) \in 0..now /\ \A b : Truth(b) \in Int
    BY NewestFacts DEF Truth
  <2>2. lValue' \in [Node -> Int] /\ lTime' \in [Node -> 0..now]
    <3>1. lValue \in [Node -> Int] /\ lTime \in [Node -> 0..now]
      BY DEF TypesInv
    <3>2. lTime' \in [Node -> 0..now]
      BY <1>12, <2>1, <3>1 DEF ProcessLatest
    <3>3. CASE UNCHANGED lValue
      BY <3>1, <3>2, <3>3
    <3>4. CASE \E p \in Parents(n) : lValue' = [lValue EXCEPT ![n] = Truth(IsTrue(p))]
      <4>1. PICK b : lValue' = [lValue EXCEPT ![n] = Truth(b)]
        BY <3>4
      <4>2. Truth(b) \in Int
        BY <2>1
      <4> QED BY <3>1, <3>2, <4>1, <4>2
    <3> QED BY <1>12, <3>3, <3>4 DEF ProcessLatest
  <2>3. stack' \in Seq(SUBSET Node) /\ stack # <<>>
    BY <1>12, VisitFacts DEF ProcessLatest, Visiting
  <2> QED BY <1>1, <1>12, <2>2, <2>3 DEF TypesInv, ProcessLatest, world
<1>13. ASSUME NEW n \in Node, ProcessLatch(n) PROVE TypesInv'
  <2>1. Parent[n]["set"] \in Node /\ Parent[n]["reset"] \in Node
    BY <1>13, SlotFacts DEF ProcessLatch, TypesInv
  <2>2. lValue' \in [Node -> Int] /\ lTime' \in [Node -> 0..now]
    <3>1. lValue \in [Node -> Int] /\ lTime \in [Node -> 0..now]
      BY DEF TypesInv
    <3>2. CASE UNCHANGED <<lValue, lTime>>
      BY <3>1, <3>2
    <3>3. ASSUME NEW slot \in {"set", "reset"}, NEW v \in {0, 1}, LatchTo(n, slot, v)
          PROVE  lValue' \in [Node -> Int] /\ lTime' \in [Node -> 0..now]
      <4>1. PICK q \in Node : q = Parent[n][slot]
        BY <2>1
      <4> QED BY <3>1, <3>3, <4>1 DEF LatchTo
    <3> QED BY <1>13, <3>2, <3>3 DEF ProcessLatch
  <2>3. stack' \in Seq(SUBSET Node) /\ stack # <<>>
    BY <1>13, VisitFacts DEF ProcessLatch, LatchTo, Visiting
  <2> QED BY <1>1, <1>13, <2>2, <2>3 DEF TypesInv, ProcessLatch, world
<1>14. ASSUME NEW n \in Node, ProcessDelay(n) PROVE TypesInv'
  <2>1. PICK p \in Node : p = Parent[n]["parent"]
    BY <1>14, SlotFacts DEF ProcessDelay, TypesInv
  <2>2. lValue' \in [Node -> Int]
    BY <1>14, <2>1 DEF ProcessDelay, TypesInv
  <2>3. stack' \in Seq(SUBSET Node) /\ stack # <<>>
    BY <1>14, VisitFacts DEF ProcessDelay, Visiting
  <2>4. lTimes' \subseteq Waiting
    <3>1. lTime[p] \in Nat /\ Delay[n] \in Nat /\ n \in Delays
      <4>1. rules \in Graphs /\ Kind[n] = "delay"
        BY <1>14 DEF ProcessDelay, TypesInv
      <4> QED BY <4>1, SlotFacts, NodeKinds, TimeFacts
    <3>2. [lTime |-> lTime[p] + Delay[n], node |-> n] \in Waiting
      BY <3>1 DEF Waiting
    <3> QED BY <1>14, <2>1, <3>2 DEF ProcessDelay, fRegisterAction, TypesInv
  <2> QED BY <1>1, <1>14, <2>2, <2>3, <2>4 DEF TypesInv, ProcessDelay, world
<1>15. ASSUME NEW n \in Node, ProcessAction(n) PROVE TypesInv'
  <2>1. Parent[n]["parent"] \in Node
    BY <1>15, SlotFacts DEF ProcessAction, TypesInv
  <2>2. requests' \in [Actions -> Int \cup {None}]
    BY <1>15, <2>1 DEF ProcessAction, TypesInv
  <2>3. stack' \in Seq(SUBSET Node) /\ stack # <<>>
    BY <1>15, VisitFacts DEF ProcessAction, Visiting
  <2>4. wire' \in Seq(Measurements) /\ notifications' \in Seq(Measurements)
    <3>1. notifications \in Seq(Measurements) /\ Absorbed(notifications)
      BY <1>15 DEF TypesInv, ProcessAction
    <3> QED BY <3>1, AbsorbedFacts
  <2> QED BY <1>1, <1>15, <2>2, <2>3, <2>4 DEF TypesInv, ProcessAction, world
<1>16. CASE Listen
  BY <1>1, <1>16 DEF TypesInv, Listen, world, graph
<1>17. CASE TimedEnds
  BY <1>1, <1>17 DEF TypesInv, TimedEnds, world
<1>18. CASE TimedDone
  BY <1>1, <1>18 DEF TypesInv, TimedDone, world, graph
<1>19. CASE PollTimesOut \/ NotifyDone
  BY <1>1, <1>19 DEF TypesInv, PollTimesOut, NotifyDone, world, graph
<1>20. CASE ConsumeInput
  <2>1. notifications \o wire \in Seq(Measurements) /\ <<>> \in Seq(Measurements)
    BY QueueFacts
  <2> QED BY <1>1, <1>20, <2>1 DEF TypesInv, ConsumeInput, world, graph
<1> QED
  BY <1>3, <1>4, <1>5, <1>6, <1>7, <1>8, <1>9, <1>10, <1>11, <1>12, <1>13, <1>14, <1>15, <1>16,
     <1>17, <1>18, <1>19, <1>20 DEF Next, Main, Process

\* Whatever the graph is, the daemon keeps the types of its state.
THEOREM TypeCorrect == Spec => []TypeOK
<1>1. Init => TypesInv
  BY TypesInit
<1>2. TypesInv /\ [Next]_vars => TypesInv'
  BY TypesStep
<1>3. TypesInv => TypeOK
  BY TypesImplyTypeOK
<1> QED BY <1>1, <1>2, <1>3, PTL DEF Spec

-----------------------------------------------------------------------------
(* Delays *)

LEMMA BelowStays ==
  ASSUME rules' = rules
  PROVE  \A n : Below(n)' = Below(n)
BY GraphStays DEF Below, Closed, Dependents, Parents, Node

\* Nothing is called from a node without parents, in particular no measurement.
CalledInv == \A n \in Frames(stack) : Parents(n) # {}

\* While a delay is handled, only nodes below it are called, and so not the delay itself.
IteratorInv == phase = "timed process" => it \in lTimes /\ Frames(stack) \subseteq Below(it.node)

\* A delay that does not wait for its time will be called, and registered anew.
RestartInv ==
  \A e \in lTimes : \/ e.node \in Frames(stack)
                    \/ e.lTime = lTime[Parent[e.node]["parent"]] + Delay[e.node]

StartInv == phase \in {"read", "start"} => lTimes = {} /\ processed = {}

TimersInv == CalledInv /\ IteratorInv /\ RestartInv /\ StartInv

LEMMA TimersInit == Init => TimersInv
<1> SUFFICES ASSUME Init PROVE TimersInv
  OBVIOUS
<1>1. stack = <<>> /\ phase = "read" /\ lTimes = {} /\ processed = {}
  BY DEF Init
<1>2. Frames(stack) = {}
  BY <1>1 DEF Frames
<1> QED BY <1>1, <1>2 DEF TimersInv, CalledInv, IteratorInv, RestartInv, StartInv

LEMMA CalledHaveParents ==
  ASSUME NEW n, NEW d \in Dependents(n)
  PROVE  Parents(d) # {}
BY DEF Dependents

LEMMA DelayFacts ==
  ASSUME TypesInv, NEW e \in lTimes
  PROVE  /\ e.node \in Delays /\ e.node \in Node /\ Kind[e.node] = "delay" /\ e.lTime \in Nat
         /\ Parent[e.node]["parent"] \in Node /\ Parents(e.node) = {Parent[e.node]["parent"]}
         /\ e.node \in Dependents(Parent[e.node]["parent"])
<1>1. rules \in Graphs /\ e \in Waiting
  BY DEF TypesInv
<1>2. e.node \in Delays /\ e.node \in Node /\ Kind[e.node] = "delay" /\ e.lTime \in Nat
  BY <1>1, NodeKinds DEF Waiting
<1> QED BY <1>1, <1>2, SlotFacts DEF Dependents

\* What a visit of n leaves on the stack.
LEMMA VisitKeeps ==
  ASSUME TypesInv, TimersInv, NEW n, Visiting(n), stack' \in {Left(n), Entered(n)},
         rules' = rules, phase' = phase, it' = it
  PROVE  /\ CalledInv' /\ StartInv'
         /\ phase' = "timed process" => Frames(stack') \subseteq Below(it.node) /\ n # it.node
         /\ Frames(stack) \subseteq Frames(stack') \cup {n}
<1>1. /\ n \in Frames(stack) /\ n \in Node /\ Frames(stack) \subseteq Frames(Left(n)) \cup {n}
      /\ Frames(Left(n)) \subseteq Frames(stack)
      /\ Frames(Entered(n)) = Dependents(n) \cup Frames(Left(n))
  BY VisitFacts
<1>2. Frames(stack) \subseteq Frames(stack') \cup {n}
  BY <1>1
<1>3. Frames(stack') \subseteq Dependents(n) \cup Frames(stack)
  BY <1>1
<1>4. CalledInv'
  <2>1. \A d : Parents(d)' = Parents(d)
    BY GraphStays
  <2> QED BY <1>3, <2>1, CalledHaveParents DEF TimersInv, CalledInv
<1>5. StartInv'
  <2>1. phase \notin {"read", "start"}
    BY DEF Visiting, TypesInv
  <2> QED BY <2>1 DEF StartInv
<1>6. ASSUME phase' = "timed process"
      PROVE  Frames(stack') \subseteq Below(it.node) /\ n # it.node
  <2>1. it \in lTimes /\ Frames(stack) \subseteq Below(it.node)
    BY <1>6 DEF TimersInv, IteratorInv
  <2>2. it.node \in Node /\ rules \in Graphs
    BY <2>1, DelayFacts DEF TypesInv
  <2>3. Dependents(n) \subseteq Below(it.node) /\ n # it.node
    BY <1>1, <2>1, <2>2, BelowFacts
  <2> QED BY <1>3, <2>1, <2>3
<1> QED BY <1>2, <1>4, <1>5, <1>6

LEMMA TimersStep == TypesInv /\ TimersInv /\ [Next]_vars => TimersInv'
<1> SUFFICES ASSUME TypesInv, TimersInv, [Next]_vars PROVE TimersInv'
  OBVIOUS
<1>1. /\ rules' = rules /\ Parent' = Parent /\ Delay' = Delay
      /\ \A n : Parents(n)' = Parents(n) /\ Below(n)' = Below(n)
  BY RulesStay, GraphStays, BelowStays
<1>2. CalledInv /\ IteratorInv /\ RestartInv /\ StartInv
  BY DEF TimersInv
<1>3. ASSUME UNCHANGED <<stack, lTime, lTimes, processed>>,
             phase' \in {"read", "start"} => phase \in {"read", "start"},
             phase' = "timed process" => phase' = phase /\ it' = it
      PROVE  TimersInv'
  <2>1. CalledInv' /\ StartInv'
    BY <1>1, <1>2, <1>3 DEF CalledInv, StartInv
  <2>2. IteratorInv'
    BY <1>1, <1>2, <1>3 DEF IteratorInv
  <2>3. RestartInv'
    BY <1>1, <1>2, <1>3 DEF RestartInv
  <2> QED BY <2>1, <2>2, <2>3 DEF TimersInv
<1>4. CASE UNCHANGED vars
  BY <1>3, <1>4 DEF vars, world, graph
<1>5. ASSUME NEW m \in Measurements, NEW v \in Readings, Insert(m, v) PROVE TimersInv'
  BY <1>3, <1>5 DEF Insert, graph
<1>6. CASE Tick
  BY <1>3, <1>6 DEF Tick, graph
<1>7. CASE Listen \/ ThreadsStarted
  BY <1>3, <1>7 DEF Listen, ThreadsStarted, graph
<1>8. CASE TimedDone \/ PollTimesOut \/ ConsumeInput \/ NotifyDone
  BY <1>3, <1>8 DEF TimedDone, PollTimesOut, ConsumeInput, NotifyDone, graph
<1>9. ASSUME NEW m \in Measurements, ReadMeasurement(m) PROVE TimersInv'
  <2>1. phase' = "read" /\ lTimes' = {} /\ processed' = {} /\ phase = "read" /\ stack' = stack
    BY <1>2, <1>9 DEF ReadMeasurement, StartInv
  <2>2. CalledInv'
    BY <1>1, <1>2, <2>1 DEF CalledInv
  <2> QED BY <2>1, <2>2 DEF TimersInv, IteratorInv, RestartInv, StartInv
<1>10. ASSUME NEW e \in lTimes, TimedStarts(e) PROVE TimersInv'
  <2>1. e.node \in Node /\ rules \in Graphs /\ Dependents(e.node) \in SUBSET Node
    BY DelayFacts DEF TypesInv, Dependents
  <2>2. Frames(stack') = Dependents(e.node) /\ Frames(stack) = {}
    <3>1. <<>> \in Seq(SUBSET Node) /\ stack = <<>>
      BY <1>10, EmptySeq DEF TimedStarts, TypesInv
    <3>2. Pushable(Dependents(e.node), <<>>, Node)
      BY <2>1, <3>1, FramePushed
    <3>3. Frames(<<>>) = {}
      BY <3>1, FramePopped
    <3> QED BY <1>10, <3>1, <3>2, <3>3 DEF TimedStarts, Pushable
  <2>3. CalledInv'
    BY <1>1, <2>2, CalledHaveParents DEF CalledInv
  <2>4. IteratorInv'
    <3>1. it' = e /\ e \in lTimes'
      BY <1>10 DEF TimedStarts, graph
    <3> QED BY <1>1, <2>1, <2>2, <3>1, BelowFacts DEF IteratorInv
  <2>5. RestartInv'
    BY <1>1, <1>2, <1>10, <2>2 DEF RestartInv, TimedStarts, graph
  <2>6. StartInv'
    BY <1>10 DEF StartInv, TimedStarts
  <2> QED BY <2>3, <2>4, <2>5, <2>6 DEF TimersInv
<1>11. CASE TimedEnds
  <2>1. /\ stack' = stack /\ lTimes' \subseteq lTimes /\ phase' = "timed" /\ lTime' = lTime
    BY <1>11 DEF TimedEnds
  <2>2. CalledInv' /\ IteratorInv' /\ StartInv'
    BY <1>1, <1>2, <2>1 DEF CalledInv, IteratorInv, StartInv
  <2>3. RestartInv'
    BY <1>1, <1>2, <2>1 DEF RestartInv
  <2> QED BY <2>2, <2>3 DEF TimersInv
<1>12. CASE NotificationRead
  <2>1. PICK m \in Measurements : m = Head(notifications)
    BY <1>12, QueueFacts DEF NotificationRead
  <2>2. m \in Node /\ Dependents(m) \in SUBSET Node
    BY NodeKinds DEF Dependents
  <2>3. Frames(stack') = Dependents(m) /\ Frames(stack) = {}
    <3>1. <<>> \in Seq(SUBSET Node) /\ stack = <<>> /\ stack' = <<Dependents(m)>>
      BY <1>12, <2>1, EmptySeq DEF NotificationRead
    <3>2. Pushable(Dependents(m), <<>>, Node)
      BY <2>2, <3>1, FramePushed
    <3>3. Frames(<<>>) = {}
      BY <3>1, FramePopped
    <3> QED BY <3>1, <3>2, <3>3 DEF Pushable
  <2>4. CalledInv'
    BY <1>1, <2>3, CalledHaveParents DEF CalledInv
  <2>5. IteratorInv' /\ StartInv'
    BY <1>12 DEF IteratorInv, StartInv, NotificationRead, world
  <2>6. RestartInv'
    <3> SUFFICES ASSUME NEW e \in lTimes, e.node \notin Dependents(m)
                 PROVE  e.lTime = lTime'[Parent[e.node]["parent"]] + Delay[e.node]
      BY <1>1, <1>12, <2>3 DEF RestartInv, NotificationRead
    <3>1. PICK p \in Node : p = Parent[e.node]["parent"] /\ e.node \in Dependents(p)
      BY DelayFacts
    <3>2. p # m
      BY <3>1
    <3>3. e.lTime = lTime[p] + Delay[e.node]
      BY <1>2, <2>3, <3>1 DEF RestartInv
    <3>4. lTime'[p] = lTime[p]
      BY <1>12, <2>1, <3>1, <3>2 DEF NotificationRead, TypesInv
    <3> QED BY <3>1, <3>3, <3>4
  <2> QED BY <2>4, <2>5, <2>6 DEF TimersInv
<1>13. CASE Returned
  <2>1. /\ stack \in Seq(SUBSET Node) /\ stack # <<>> /\ Head(stack) = {} /\ stack' = Tail(stack)
        /\ UNCHANGED <<phase, it, lTime, lTimes, processed>>
    BY <1>13 DEF Returned, TypesInv, graph
  <2>2. Frames(stack') = Frames(stack)
    <3>1. Frames(stack) = Head(stack) \cup Frames(Tail(stack))
      BY <2>1, FramePopped
    <3> QED BY <2>1, <3>1
  <2>3. CalledInv' /\ StartInv'
    BY <1>1, <1>2, <2>1, <2>2 DEF CalledInv, StartInv
  <2>4. IteratorInv'
    BY <1>1, <1>2, <2>1, <2>2 DEF IteratorInv
  <2>5. RestartInv'
    BY <1>1, <1>2, <2>1, <2>2 DEF RestartInv
  <2> QED BY <2>3, <2>4, <2>5 DEF TimersInv
<1>14. ASSUME NEW n \in Node, Visiting(n), Kind[n] # "delay", UNCHANGED <<phase, it, lTimes>>,
              \/ stack' = Entered(n) /\ \A p \in Node : p # n => lTime'[p] = lTime[p]
              \/ stack' = Left(n) /\ UNCHANGED lTime
       PROVE  TimersInv'
  <2>1. /\ CalledInv' /\ StartInv' /\ Frames(stack) \subseteq Frames(stack') \cup {n}
        /\ phase' = "timed process" => Frames(stack') \subseteq Below(it.node)
    BY <1>1, <1>14, VisitKeeps
  <2>2. IteratorInv'
    BY <1>1, <1>2, <1>14, <2>1 DEF IteratorInv
  <2>3. RestartInv'
    <3> SUFFICES ASSUME NEW e \in lTimes, e.node \notin Frames(stack')
                 PROVE  e.lTime = lTime'[Parent[e.node]["parent"]] + Delay[e.node]
      BY <1>1, <1>14 DEF RestartInv
    <3>1. PICK p \in Node : p = Parent[e.node]["parent"] /\ e.node \in Dependents(p)
      BY DelayFacts
    <3>2. e.node # n
      BY <1>14, DelayFacts
    <3>3. e.lTime = lTime[p] + Delay[e.node]
      BY <1>2, <2>1, <3>1, <3>2 DEF RestartInv
    <3>4. lTime'[p] = lTime[p]
      <4>1. CASE stack' = Left(n) /\ UNCHANGED lTime
        BY <4>1
      <4>2. CASE stack' = Entered(n) /\ \A q \in Node : q # n => lTime'[q] = lTime[q]
        <5>1. Dependents(n) \subseteq Frames(stack')
          BY <1>14, <4>2, VisitFacts
        <5> QED BY <3>1, <4>2, <5>1
      <4> QED BY <1>14, <4>1, <4>2
    <3> QED BY <3>1, <3>3, <3>4
  <2> QED BY <2>1, <2>2, <2>3 DEF TimersInv
<1>15. ASSUME NEW n \in Node, ProcessCombining(n) PROVE TimersInv'
  <2>1. Kind[n] # "delay" /\ \A p \in Node : p # n => lTime'[p] = lTime[p]
    BY <1>15 DEF ProcessCombining, Combining, TypesInv
  <2> QED BY <1>14, <1>15, <2>1 DEF ProcessCombining
<1>16. ASSUME NEW n \in Node, ProcessLatest(n) PROVE TimersInv'
  <2>1. Kind[n] # "delay" /\ \A p \in Node : p # n => lTime'[p] = lTime[p]
    BY <1>16 DEF ProcessLatest, TypesInv
  <2> QED BY <1>14, <1>16, <2>1 DEF ProcessLatest
<1>17. ASSUME NEW n \in Node, ProcessLatch(n) PROVE TimersInv'
  <2>1. \/ stack' = Entered(n) /\ \A p \in Node : p # n => lTime'[p] = lTime[p]
        \/ stack' = Left(n) /\ UNCHANGED lTime
    BY <1>17 DEF ProcessLatch, LatchTo, TypesInv
  <2> QED BY <1>14, <1>17, <2>1 DEF ProcessLatch
<1>18. ASSUME NEW n \in Node, ProcessAction(n) PROVE TimersInv'
  BY <1>14, <1>18 DEF ProcessAction
<1>19. ASSUME NEW n \in Node, ProcessDelay(n) PROVE TimersInv'
  <2>1. /\ CalledInv' /\ StartInv' /\ Frames(stack) \subseteq Frames(stack') \cup {n}
        /\ phase' = "timed process" => Frames(stack') \subseteq Below(it.node) /\ n # it.node
    BY <1>1, <1>19, VisitKeeps DEF ProcessDelay
  <2>2. PICK new : /\ new = [lTime |-> lTime[Parent[n]["parent"]] + Delay[n], node |-> n]
                  /\ lTimes' = {e \in lTimes : e.node # n} \cup {new}
                  /\ UNCHANGED <<phase, it, lTime>>
    BY <1>19 DEF ProcessDelay, fRegisterAction
  <2>3. IteratorInv'
    <3> SUFFICES ASSUME phase' = "timed process" PROVE it \in lTimes'
      BY <1>1, <2>1, <2>2 DEF IteratorInv
    <3>1. it \in lTimes /\ n # it.node
      BY <1>2, <2>1, <2>2 DEF IteratorInv
    <3> QED BY <2>2, <3>1
  <2>4. RestartInv'
    <3> SUFFICES ASSUME NEW e \in lTimes', e.node \notin Frames(stack')
                 PROVE  e.lTime = lTime[Parent[e.node]["parent"]] + Delay[e.node]
      BY <1>1, <2>2 DEF RestartInv
    <3>1. CASE e = new
      <4>1. e.node = n /\ e.lTime = lTime[Parent[n]["parent"]] + Delay[n]
        BY <2>2, <3>1
      <4> QED BY <4>1
    <3>2. CASE e \in lTimes /\ e.node # n
      BY <1>2, <2>1, <3>2 DEF RestartInv
    <3> QED BY <2>2, <3>1, <3>2
  <2> QED BY <2>1, <2>3, <2>4 DEF TimersInv
<1> QED
  BY <1>4, <1>5, <1>6, <1>7, <1>8, <1>9, <1>10, <1>11, <1>12, <1>13, <1>15, <1>16, <1>17, <1>18,
     <1>19 DEF Next, Main, Process

\* A change of a delay's parent restarts it, and what a delay does when it ends never takes
\* away the entry that timedActionsClass::fProcess is at, since no rule calls itself.
THEOREM DelaysCorrect == Spec => []TimersAreKept
<1>1. Init => TypesInv /\ TimersInv
  BY TypesInit, TimersInit
<1>2. TypesInv /\ TimersInv /\ [Next]_vars => (TypesInv /\ TimersInv)'
  BY TypesStep, TimersStep
<1>3. TypesInv /\ TimersInv => TimersAreKept
  <2> SUFFICES ASSUME TypesInv, TimersInv PROVE TimersAreKept
    OBVIOUS
  <2>1. stack = <<>> => Frames(stack) = {}
    BY DEF Frames
  <2> QED BY <2>1 DEF TimersInv, IteratorInv, RestartInv, TimersAreKept, TimersAreCurrent,
                      IteratorStaysValid
<1> QED BY <1>1, <1>2, <1>3, PTL DEF Spec

-----------------------------------------------------------------------------
(* Rows and notifications *)

LEMMA InQueueFacts ==
  ASSUME NEW S, NEW q \in Seq(S), NEW r \in Seq(S), NEW x \in S, NEW m
  PROVE  /\ InQueue(m, q) \/ InQueue(m, r) => InQueue(m, q \o r)
         /\ InQueue(m, q) => InQueue(m, Append(q, x))
         /\ InQueue(x, Append(q, x))
         /\ InQueue(m, q) /\ q # <<>> => m = Head(q) \/ InQueue(m, Tail(q))
         /\ ~InQueue(m, <<>>)
<1>1. PICK a \in Nat, b \in Nat : /\ a = Len(q) /\ DOMAIN q = 1..a
                                /\ b = Len(r) /\ DOMAIN r = 1..b
  BY LenProperties
<1>2. InQueue(m, q) \/ InQueue(m, r) => InQueue(m, q \o r)
  <2>1. PICK t : t = q \o r
    OBVIOUS
  <2>2. /\ Len(t) = a + b /\ t \in Seq(S)
        /\ \A i \in 1..(a + b) : t[i] = IF i <= a THEN q[i] ELSE r[i - a]
    BY <1>1, <2>1, ConcatProperties
  <2>3. DOMAIN t = 1..(a + b)
    BY <2>2, LenProperties
  <2>4. ASSUME NEW i \in 1..a PROVE i \in 1..(a + b) /\ t[i] = q[i]
    BY <2>2
  <2>5. ASSUME NEW i \in 1..b PROVE i + a \in 1..(a + b) /\ t[i + a] = r[i]
    <3>1. i + a \in 1..(a + b) /\ ~(i + a <= a) /\ (i + a) - a = i
      OBVIOUS
    <3> QED BY <2>2, <3>1
  <2> QED BY <1>1, <2>1, <2>3, <2>4, <2>5 DEF InQueue
<1>3. (InQueue(m, q) => InQueue(m, Append(q, x))) /\ InQueue(x, Append(q, x))
  <2>1. PICK t : t = Append(q, x)
    OBVIOUS
  <2>2. /\ Len(t) = a + 1 /\ t \in Seq(S) /\ t[a + 1] = x
        /\ \A i \in 1..a : t[i] = q[i]
    BY <1>1, <2>1, AppendProperties
  <2>3. DOMAIN t = 1..(a + 1)
    BY <2>2, LenProperties
  <2> QED BY <1>1, <2>1, <2>2, <2>3 DEF InQueue
<1>4. ASSUME InQueue(m, q), q # <<>> PROVE m = Head(q) \/ InQueue(m, Tail(q))
  <2>1. PICK t : t = Tail(q)
    OBVIOUS
  <2>2. t \in Seq(S) /\ Len(t) = a - 1 /\ \A i \in 1..(a - 1) : t[i] = q[i + 1]
    BY <1>1, <1>4, <2>1, HeadTailProperties
  <2>3. DOMAIN t = 1..(a - 1) /\ Head(q) = q[1]
    BY <1>4, <2>2, LenProperties, EmptySeq
  <2>4. PICK i \in 1..a : q[i] = m
    BY <1>1, <1>4 DEF InQueue
  <2>5. i = 1 \/ (i - 1 \in 1..(a - 1) /\ t[i - 1] = q[i])
    BY <2>2
  <2> QED BY <2>1, <2>3, <2>4, <2>5 DEF InQueue
<1>5. ~InQueue(m, <<>>)
  BY DEF InQueue
<1> QED BY <1>2, <1>3, <1>4, <1>5

\* main will be told of a measurement.
Announced(m) == InQueue(m, wire) \/ InQueue(m, notifications)

LEMMA AbsorbedKeeps ==
  ASSUME TypesInv, NEW queue \in Seq(Measurements), Absorbed(queue), NEW m \in Measurements,
         InQueue(m, wire) \/ InQueue(m, queue)
  PROVE  Announced(m)'
<1>1. wire \in Seq(Measurements)
  BY DEF TypesInv
<1>2. InQueue(m, queue \o wire)
  BY <1>1, InQueueFacts
<1>3. CASE notifications' = queue \o wire /\ wire' = <<>>
  <2>1. InQueue(m, notifications')
    BY <1>2, <1>3
  <2> QED BY <2>1 DEF Announced, InQueue
<1>4. CASE notifications' = queue /\ UNCHANGED wire
  BY <1>4 DEF Announced, InQueue
<1> QED BY <1>3, <1>4 DEF Absorbed

\* A measurement has been read in its newest row, or main will be told, or nobody told it.
RowRead(m) ==
  /\ lTime[m] <= rows[m].lTime
  /\ lTime[m] = rows[m].lTime => lValue[m] = rows[m].value
  /\ lTime[m] = 0 => phase = "read"
  /\ lTime[m] = 0 \/ lTime[m] = rows[m].lTime \/ m \in unheard \/ Announced(m)
RowsInv == \A m \in Measurements : RowRead(m)

LEMMA RowsInit == Init => RowsInv
<1> SUFFICES ASSUME Init, NEW m \in Measurements PROVE RowRead(m)
  BY DEF RowsInv
<1>1. lTime[m] = 0 /\ phase = "read" /\ rows[m].lTime = 1
  BY NodeKinds DEF Init
<1> QED BY <1>1 DEF RowRead

LEMMA RowsStep == TypesInv /\ RowsInv /\ [Next]_vars => RowsInv'
<1> SUFFICES ASSUME TypesInv, RowsInv, [Next]_vars, NEW m \in Measurements
             PROVE  RowRead(m)'
  BY RulesStay, GraphStays DEF RowsInv
<1>1. /\ RowRead(m) /\ m \in Node /\ Kind[m] = "measurement"
      /\ wire \in Seq(Measurements) /\ notifications \in Seq(Measurements)
  BY NodeKinds DEF RowsInv, TypesInv
<1>2. /\ lTime[m] \in Nat /\ lTime[m] <= now /\ now \in Nat
      /\ rows[m].lTime \in Nat /\ rows[m].lTime > 0 /\ rows[m].lTime <= now
  <2>1. now \in Nat /\ rows[m].lTime \in 1..now
    BY RowFacts
  <2>2. lTime[m] \in Nat /\ lTime[m] <= now
    BY <1>1, TimeFacts
  <2> QED BY <2>1, <2>2
<1>3. ASSUME UNCHANGED <<rows, unheard>>, lTime'[m] = lTime[m], lValue'[m] = lValue[m],
             lTime[m] = 0 => phase' = phase, Announced(m) => Announced(m)'
      PROVE  RowRead(m)'
  BY <1>1, <1>3 DEF RowRead
<1>4. Announced(m) /\ UNCHANGED <<wire, notifications>> => Announced(m)'
  BY DEF Announced
<1>5. CASE UNCHANGED vars
  BY <1>3, <1>4, <1>5 DEF vars, world, graph
<1>6. ASSUME NEW k \in Measurements, NEW v \in Readings, Insert(k, v) PROVE RowRead(m)'
  <2>1. lTime' = lTime /\ lValue' = lValue /\ phase' = phase /\ notifications' = notifications
    BY <1>6 DEF Insert, graph
  <2>2. CASE k # m
    <3>1. rows'[m] = rows[m]
      BY <1>6, <2>2 DEF Insert, TypesInv
    <3>2. CASE phase = "read"
      <4>1. wire' = wire /\ unheard' = unheard \cup {k}
        BY <1>6, <3>2 DEF Insert
      <4> QED BY <1>1, <1>4, <2>1, <3>1, <4>1 DEF RowRead
    <3>3. CASE phase # "read"
      <4>1. wire' = Append(wire, k) /\ (m \in unheard => m \in unheard')
        BY <1>6, <2>2, <3>3 DEF Insert
      <4>2. InQueue(m, wire) => InQueue(m, wire')
        BY <1>1, <4>1, InQueueFacts
      <4>3. Announced(m) => Announced(m)'
        BY <2>1, <4>2 DEF Announced, InQueue
      <4> QED BY <1>1, <2>1, <3>1, <4>1, <4>3 DEF RowRead
    <3> QED BY <3>2, <3>3
  <2>3. CASE k = m
    <3>1. rows'[m].lTime = now + 1
      BY <1>6, <2>3 DEF Insert, TypesInv
    <3>2. m \in unheard' \/ Announced(m)'
      <4>1. CASE phase = "read"
        BY <1>6, <2>3, <4>1 DEF Insert
      <4>2. CASE phase # "read"
        <5>1. wire' = Append(wire, m)
          BY <1>6, <2>3, <4>2 DEF Insert
        <5>2. InQueue(m, wire')
          BY <1>1, <5>1, InQueueFacts
        <5> QED BY <5>2 DEF Announced, InQueue
      <4> QED BY <4>1, <4>2
    <3> QED BY <1>1, <1>2, <2>1, <3>1, <3>2 DEF RowRead
  <2> QED BY <2>2, <2>3
<1>7. CASE Tick
  BY <1>3, <1>4, <1>7 DEF Tick, graph
<1>8. ASSUME NEW k \in Measurements, ReadMeasurement(k) PROVE RowRead(m)'
  <2>1. rows' = rows /\ phase' = phase /\ phase = "read" /\ UNCHANGED <<wire, notifications>>
    BY <1>8 DEF ReadMeasurement
  <2>2. CASE k = m
    <3>1. lTime'[m] = rows[m].lTime /\ lValue'[m] = rows[m].value
      BY <1>1, <1>8, <2>2 DEF ReadMeasurement, TypesInv
    <3> QED BY <1>2, <2>1, <3>1 DEF RowRead
  <2>3. CASE k # m
    <3>1. lTime'[m] = lTime[m] /\ lValue'[m] = lValue[m] /\ (m \in unheard => m \in unheard')
      BY <1>1, <1>8, <2>3 DEF ReadMeasurement, TypesInv
    <3> QED BY <1>1, <1>4, <2>1, <3>1 DEF RowRead
  <2> QED BY <2>2, <2>3
<1>9. CASE Listen
  <2>1. lTime[m] # 0
    BY <1>9 DEF Listen
  <2> QED BY <1>3, <1>4, <1>9, <2>1 DEF Listen, world, graph
<1>10. CASE ThreadsStarted
  <2>1. lTime[m] # 0
    BY <1>1, <1>10 DEF RowRead, ThreadsStarted
  <2>2. Announced(m) => Announced(m)'
    BY <1>1, <1>10, AbsorbedKeeps DEF ThreadsStarted, Announced
  <2> QED BY <1>3, <1>10, <2>1, <2>2 DEF ThreadsStarted, world, graph
<1>11. ASSUME phase # "read", UNCHANGED <<rows, unheard, lTime, lValue>>, Announced(m) => Announced(m)'
       PROVE  RowRead(m)'
  <2>1. lTime[m] # 0
    BY <1>1, <1>11 DEF RowRead
  <2> QED BY <1>3, <1>11, <2>1
<1>12. ASSUME NEW e \in lTimes, TimedStarts(e) PROVE RowRead(m)'
  BY <1>4, <1>11, <1>12 DEF TimedStarts, world, graph
<1>13. CASE TimedEnds
  BY <1>4, <1>11, <1>13 DEF TimedEnds, world
<1>14. CASE TimedDone \/ PollTimesOut \/ NotifyDone
  BY <1>4, <1>11, <1>14 DEF TimedDone, PollTimesOut, NotifyDone, world, graph
<1>15. CASE ConsumeInput
  <2>1. Absorbed(notifications)
    BY <1>15 DEF ConsumeInput, Absorbed
  <2>2. Announced(m) => Announced(m)'
    BY <1>1, <2>1, AbsorbedKeeps DEF Announced
  <2> QED BY <1>11, <1>15, <2>2 DEF ConsumeInput, world, graph
<1>16. CASE NotificationRead
  <2>1. PICK k \in Measurements : k = Head(notifications)
    BY <1>16, QueueFacts DEF NotificationRead
  <2>2. rows' = rows /\ unheard' = unheard /\ phase' = "notify" /\ phase = "notify"
    BY <1>16 DEF NotificationRead, world
  <2>3. CASE k = m
    <3>1. lTime'[m] = rows[m].lTime /\ lValue'[m] = rows[m].value
      BY <1>1, <1>16, <2>1, <2>3 DEF NotificationRead, TypesInv
    <3> QED BY <1>2, <2>2, <3>1 DEF RowRead
  <2>4. CASE k # m
    <3>1. lTime'[m] = lTime[m] /\ lValue'[m] = lValue[m]
      BY <1>1, <1>16, <2>1, <2>4 DEF NotificationRead, TypesInv
    <3>2. Tail(notifications) \in Seq(Measurements) /\ Absorbed(Tail(notifications))
          /\ notifications # <<>>
      BY <1>16, QueueFacts DEF NotificationRead
    <3>3. InQueue(m, notifications) => InQueue(m, Tail(notifications))
      BY <1>1, <2>1, <2>4, <3>2, InQueueFacts
    <3>4. Announced(m) => Announced(m)'
      BY <3>2, <3>3, AbsorbedKeeps DEF Announced
    <3> QED BY <1>3, <2>2, <3>1, <3>4
  <2> QED BY <2>3, <2>4
<1>17. CASE Returned
  BY <1>3, <1>4, <1>17 DEF Returned, world, graph
<1>18. ASSUME NEW n \in Node, ProcessCombining(n) PROVE RowRead(m)'
  <2>1. n # m
    BY <1>1, <1>18 DEF ProcessCombining, Combining
  <2>2. lTime'[m] = lTime[m] /\ lValue'[m] = lValue[m]
    BY <1>1, <1>18, <2>1 DEF ProcessCombining, TypesInv
  <2> QED BY <1>3, <1>4, <1>18, <2>2 DEF ProcessCombining, world
<1>19. ASSUME NEW n \in Node, ProcessLatest(n) PROVE RowRead(m)'
  <2>1. n # m
    BY <1>1, <1>19 DEF ProcessLatest
  <2>2. lTime'[m] = lTime[m] /\ lValue'[m] = lValue[m]
    BY <1>1, <1>19, <2>1 DEF ProcessLatest, TypesInv
  <2> QED BY <1>3, <1>4, <1>19, <2>2 DEF ProcessLatest, world
<1>20. ASSUME NEW n \in Node, ProcessLatch(n) PROVE RowRead(m)'
  <2>1. n # m
    BY <1>1, <1>20 DEF ProcessLatch
  <2>2. lTime'[m] = lTime[m] /\ lValue'[m] = lValue[m]
    BY <1>1, <1>20, <2>1 DEF ProcessLatch, LatchTo, TypesInv
  <2> QED BY <1>3, <1>4, <1>20, <2>2 DEF ProcessLatch, world
<1>21. ASSUME NEW n \in Node, ProcessDelay(n) PROVE RowRead(m)'
  <2>1. n # m
    BY <1>1, <1>21 DEF ProcessDelay
  <2>2. lTime'[m] = lTime[m] /\ lValue'[m] = lValue[m]
    BY <1>1, <1>21, <2>1 DEF ProcessDelay, TypesInv
  <2> QED BY <1>3, <1>4, <1>21, <2>2 DEF ProcessDelay, world
<1>22. ASSUME NEW n \in Node, ProcessAction(n) PROVE RowRead(m)'
  <2>1. Absorbed(notifications)
    BY <1>22 DEF ProcessAction
  <2>2. Announced(m) => Announced(m)'
    BY <1>1, <2>1, AbsorbedKeeps DEF Announced
  <2> QED BY <1>3, <1>22, <2>2 DEF ProcessAction, world
<1> QED
  BY <1>5, <1>6, <1>7, <1>8, <1>9, <1>10, <1>12, <1>13, <1>14, <1>15, <1>16, <1>17, <1>18, <1>19,
     <1>20, <1>21, <1>22 DEF Next, Main, Process

-----------------------------------------------------------------------------
(* Values *)

\* What the value of a node is made of.
SameInputs(n) ==
  /\ UNCHANGED rules
  /\ \A p \in Parents(n) : lValue'[p] = lValue[p] /\ lTime'[p] = lTime[p]
Same(n) ==
  /\ SameInputs(n)
  /\ lValue'[n] = lValue[n] /\ lTime'[n] = lTime[n]
  /\ n \in Actions => requests'[n] = requests[n]

\* A node "latest" that is as new as the newest of its parents has the value of one of them.
LatestIsKept(n) ==
  (/\ n \in processed
   /\ Kind[n] = "latest"
   /\ Parents(n) \subseteq Measurements
   /\ \A p \in Parents(n) : lTime[p] <= lTime[n])
  => \E p \in Parents(n) : lTime[p] = lTime[n] /\ lValue[n] = Truth(IsTrue(p))
LatestInv == /\ \A n \in Node : LatestIsKept(n)
             /\ \A n \in Node \ Measurements : n \notin processed => lTime[n] = 0

LEMMA SameInputsFacts ==
  ASSUME TypesInv, NEW n \in Node, SameInputs(n)
  PROVE  /\ Seen(n)' = Seen(n) /\ Computed(n)' = Computed(n)
         /\ lTime'[n] = lTime[n] => NewestOf(n)' = NewestOf(n)
         /\ \A slot \in DOMAIN Parent[n] : ValueAt(n, slot)' = ValueAt(n, slot)
         /\ \A p \in Parents(n) : IsTrue(p)' = IsTrue(p)
<1>1. /\ Kind' = Kind /\ Parent' = Parent /\ Parents(n)' = Parents(n)
      /\ \A slot \in DOMAIN Parent[n] : Parent[n][slot] \in Parents(n)
      /\ \A p \in Parents(n) : lValue'[p] = lValue[p] /\ lTime'[p] = lTime[p]
  BY GraphStays, NodeFacts DEF SameInputs, TypesInv
<1>2. \A slot \in DOMAIN Parent[n] : ValueAt(n, slot)' = ValueAt(n, slot)
  BY <1>1 DEF ValueAt
<1>3. Seen(n)' = Seen(n)
  BY <1>1, <1>2 DEF Seen
<1>4. Computed(n)' = Computed(n)
  BY <1>1, <1>3 DEF Computed
<1>5. lTime'[n] = lTime[n] => NewestOf(n)' = NewestOf(n)
  <2>1. {lTime'[p] : p \in Parents(n)} = {lTime[p] : p \in Parents(n)}
    BY <1>1
  <2> QED BY <1>1, <2>1 DEF NewestOf
<1>6. \A p \in Parents(n) : IsTrue(p)' = IsTrue(p)
  BY <1>1 DEF IsTrue
<1> QED BY <1>2, <1>3, <1>4, <1>5, <1>6

\* A node agrees with its parents as long as neither changes.
LEMMA ConsistentStays ==
  ASSUME TypesInv, NEW n \in Node \ Measurements, Same(n), Consistent(n)
  PROVE  Consistent(n)'
<1>1. /\ Kind' = Kind /\ Parent' = Parent /\ Parents(n)' = Parents(n)
      /\ Measurements' = Measurements /\ rules \in Graphs
      /\ \A p \in Parents(n) : lValue'[p] = lValue[p] /\ lTime'[p] = lTime[p]
      /\ lValue'[n] = lValue[n] /\ lTime'[n] = lTime[n]
      /\ n \in Actions => requests'[n] = requests[n]
  BY GraphStays DEF Same, SameInputs, TypesInv
<1>2. /\ Computed(n)' = Computed(n) /\ NewestOf(n)' = NewestOf(n)
      /\ \A p \in Parents(n) : IsTrue(p)' = IsTrue(p)
  BY <1>1, SameInputsFacts DEF Same
<1>3. Kind[n] # "measurement"
  BY NodeKinds
<1>4. CASE Kind[n] = "latest"
  BY <1>1, <1>2, <1>4 DEF Consistent
<1>5. CASE Kind[n] = "latch"
  <2>1. Parent[n]["set"] \in Parents(n) /\ Parent[n]["reset"] \in Parents(n)
    BY <1>1, <1>5, SlotFacts
  <2>2. /\ Wins(n, "set", "reset")' = Wins(n, "set", "reset")
        /\ Wins(n, "reset", "set")' = Wins(n, "reset", "set")
    BY <1>1, <1>2, <2>1 DEF Wins, IsTrue
  <2> QED BY <1>1, <1>5, <2>2 DEF Consistent
<1>6. CASE Kind[n] \in {"delay", "action"}
  <2>1. Parent[n]["parent"] \in Parents(n) /\ (Kind[n] = "action" => n \in Actions)
    BY <1>1, <1>6, SlotFacts, NodeKinds
  <2> QED BY <1>1, <1>6, <2>1 DEF Consistent
<1>7. CASE Kind[n] \notin {"latest", "latch", "delay", "action"}
  BY <1>1, <1>2, <1>3, <1>7 DEF Consistent
<1> QED BY <1>4, <1>5, <1>6, <1>7

LEMMA LatestInit == Init => LatestInv
<1> SUFFICES ASSUME Init PROVE LatestInv
  OBVIOUS
<1>1. processed = {} /\ lTime = [n \in Node |-> 0]
  BY DEF Init
<1> QED BY <1>1 DEF LatestInv, LatestIsKept

LEMMA LatestStays ==
  ASSUME TypesInv, NEW n \in Node, Same(n), LatestIsKept(n), n \in processed' => n \in processed
  PROVE  LatestIsKept(n)'
<1>1. /\ Kind' = Kind /\ Parents(n)' = Parents(n) /\ Measurements' = Measurements
      /\ \A p \in Parents(n) : lValue'[p] = lValue[p] /\ lTime'[p] = lTime[p]
      /\ lValue'[n] = lValue[n] /\ lTime'[n] = lTime[n]
  BY GraphStays DEF Same, SameInputs
<1>2. \A p \in Parents(n) : IsTrue(p)' = IsTrue(p)
  BY SameInputsFacts DEF Same
<1> QED BY <1>1, <1>2 DEF LatestIsKept

\* Of the measurements, only the one that is read changes, and of the other nodes, only the
\* one that is visited.
OnlyChanges(n) ==
  /\ UNCHANGED rules
  /\ \A q \in Node \ {n} : lValue'[q] = lValue[q] /\ lTime'[q] = lTime[q]
  /\ \A q \in Actions \ {n} : requests'[q] = requests[q]

LEMMA OthersAreSame ==
  ASSUME TypesInv, NEW v, OnlyChanges(v), NEW n \in Node \ {v}, v \notin Parents(n)
  PROVE  Same(n)
<1>1. Parents(n) \subseteq Node
  BY NodeFacts DEF TypesInv
<1> QED BY <1>1 DEF OnlyChanges, Same, SameInputs

\* What a step changes.
Visits(v) ==
  \/ ProcessCombining(v) \/ ProcessLatest(v) \/ ProcessLatch(v) \/ ProcessDelay(v)
  \/ ProcessAction(v)
LEMMA VisitChanges ==
  ASSUME TypesInv, NEW v \in Node, Visits(v)
  PROVE  /\ OnlyChanges(v) /\ processed' = processed \cup {v} /\ Visiting(v)
         /\ phase' = phase /\ it' = it /\ v \notin Measurements
<1>1. /\ rules' = rules /\ processed' = processed \cup {v} /\ Visiting(v)
      /\ phase' = phase /\ it' = it
  BY DEF Visits, ProcessCombining, ProcessLatest, ProcessLatch, ProcessDelay, ProcessAction, world
<1>2. v \notin Measurements
  BY NodeKinds DEF Visits, ProcessCombining, ProcessLatest, ProcessLatch, ProcessDelay,
                   ProcessAction, Combining
<1>3. \A q \in Node \ {v} : lValue'[q] = lValue[q] /\ lTime'[q] = lTime[q]
  <2>1. lValue \in [Node -> Int] /\ lTime \in [Node -> 0..now]
    BY DEF TypesInv
  <2>2. CASE ProcessCombining(v)
    BY <2>1, <2>2 DEF ProcessCombining
  <2>3. CASE ProcessLatest(v)
    BY <2>1, <2>3 DEF ProcessLatest
  <2>4. CASE ProcessLatch(v)
    BY <2>1, <2>4 DEF ProcessLatch, LatchTo
  <2>5. CASE ProcessDelay(v)
    BY <2>1, <2>5 DEF ProcessDelay
  <2>6. CASE ProcessAction(v)
    BY <2>6 DEF ProcessAction
  <2> QED BY <2>2, <2>3, <2>4, <2>5, <2>6 DEF Visits
<1>4. \A q \in Actions \ {v} : requests'[q] = requests[q]
  BY DEF Visits, ProcessCombining, ProcessLatest, ProcessLatch, ProcessDelay, ProcessAction, TypesInv
<1> QED BY <1>1, <1>2, <1>3, <1>4 DEF OnlyChanges

Reads(m) ==
  /\ phase = "notify"
  /\ stack = <<>>
  /\ m = Head(notifications)
  /\ lValue' = [lValue EXCEPT ![m] = rows[m].value]
  /\ lTime' = [lTime EXCEPT ![m] = rows[m].lTime]
  /\ processed' = processed \cup {m}
  /\ stack' = <<Dependents(m)>>
  /\ UNCHANGED <<rules, phase, it, lTimes, requests>>
LEMMA ReadFacts ==
  ASSUME TypesInv, NotificationRead
  PROVE  \E m \in Measurements : Reads(m)
<1>1. Head(notifications) \in Measurements
  BY QueueFacts DEF NotificationRead
<1> QED BY <1>1 DEF NotificationRead, Reads, world

LEMMA ReadChanges ==
  ASSUME TypesInv, NEW m \in Measurements, Reads(m)
  PROVE  /\ OnlyChanges(m) /\ lValue'[m] = rows[m].value /\ lTime'[m] = rows[m].lTime
         /\ Frames(stack) = {} /\ Frames(stack') = Dependents(m)
<1>1. m \in Node /\ lValue \in [Node -> Int] /\ lTime \in [Node -> 0..now]
  BY NodeKinds DEF TypesInv
<1>2. OnlyChanges(m)
  BY <1>1 DEF Reads, OnlyChanges
<1>3. lValue'[m] = rows[m].value /\ lTime'[m] = rows[m].lTime
  BY <1>1 DEF Reads
<1>4. Frames(stack) = {} /\ Frames(stack') = Dependents(m)
  <2>1. <<>> \in Seq(SUBSET Node) /\ Dependents(m) \in SUBSET Node
    BY EmptySeq DEF Dependents
  <2>2. Pushable(Dependents(m), <<>>, Node)
    BY <2>1, FramePushed
  <2>3. Frames(<<>>) = {}
    BY <2>1, FramePopped
  <2> QED BY <2>2, <2>3 DEF Reads, Pushable
<1> QED BY <1>2, <1>3, <1>4

\* A step leaves the values alone, or it is one of these.
LEMMA StepCases ==
  ASSUME TypesInv, [Next]_vars
  PROVE  \/ UNCHANGED <<lValue, lTime, requests, processed>>
         \/ \E m \in Measurements : ReadMeasurement(m)
         \/ \E m \in Measurements : Reads(m)
         \/ \E v \in Node : Visits(v)
<1>1. CASE NotificationRead
  BY <1>1, ReadFacts
<1>2. CASE \E n \in Node : Visits(n)
  BY <1>2
<1>3. CASE \E m \in Measurements : ReadMeasurement(m)
  BY <1>3
<1>4. CASE UNCHANGED vars
  BY <1>4 DEF vars, graph
<1>5. CASE (\E m \in Measurements : \E v \in Readings : Insert(m, v)) \/ Tick
  BY <1>5 DEF Insert, Tick, graph
<1>6. CASE Listen \/ ThreadsStarted \/ (\E e \in lTimes : TimedStarts(e)) \/ TimedEnds \/ TimedDone
  BY <1>6 DEF Listen, ThreadsStarted, TimedStarts, TimedEnds, TimedDone, graph
<1>7. CASE PollTimesOut \/ ConsumeInput \/ NotifyDone \/ Returned
  BY <1>7 DEF PollTimesOut, ConsumeInput, NotifyDone, Returned, graph
<1> QED BY <1>1, <1>2, <1>3, <1>4, <1>5, <1>6, <1>7 DEF Next, Main, Process, Visits

\* A node "latest" that compares measurements, processed.
LEMMA LatestProcessed ==
  ASSUME TypesInv, TimersInv, RowsInv, LatestInv, NEW n \in Node, ProcessLatest(n),
         Parents(n) \subseteq Measurements
  PROVE  \E p \in Parents(n) : /\ lTime'[p] = lTime'[n] /\ lTime'[n] = NewestOf(n)
                               /\ lValue'[n] = Truth(IsTrue(p))
<1>1. /\ n \notin Parents(n) /\ Parents(n) \subseteq Node /\ n \notin Measurements
      /\ lValue \in [Node -> Int] /\ lTime \in [Node -> 0..now]
  BY NodeFacts, NodeKinds DEF ProcessLatest, TypesInv
<1>2. /\ lTime'[n] = NewestOf(n) /\ \A p \in Parents(n) : lTime'[p] = lTime[p]
  BY <1>1 DEF ProcessLatest
<1>3. /\ \A p \in Parents(n) : lTime[p] <= NewestOf(n)
  BY NewestFacts
<1>4. CASE NewestOf(n) = lTime[n]
  <2>1. lValue'[n] = lValue[n]
    BY <1>4 DEF ProcessLatest
  <2>2. n \in processed
    <3>1. PICK p \in Parents(n) : TRUE
      <4>1. n \in Frames(stack)
        BY VisitFacts DEF ProcessLatest
      <4> QED BY <4>1 DEF TimersInv, CalledInv
    <3>2. phase # "read"
      BY DEF ProcessLatest, Visiting, TypesInv
    <3>3. lTime[p] # 0
      BY <3>1, <3>2 DEF RowsInv, RowRead
    <3>4. lTime[p] <= lTime[n] /\ lTime[p] \in Nat /\ lTime[n] \in Nat
      BY <1>1, <1>3, <1>4, TimeFacts
    <3>5. lTime[n] # 0
      BY <3>3, <3>4
    <3> QED BY <1>1, <3>5 DEF LatestInv
  <2>3. PICK p \in Parents(n) : lTime[p] = lTime[n] /\ lValue[n] = Truth(IsTrue(p))
    BY <1>3, <1>4, <2>2 DEF LatestInv, LatestIsKept, ProcessLatest
  <2> QED BY <1>2, <1>4, <2>1, <2>3
<1>5. CASE NewestOf(n) # lTime[n]
  <2>1. PICK p \in Parents(n) : /\ lTime[p] = NewestOf(n)
                               /\ lValue' = [lValue EXCEPT ![n] = Truth(IsTrue(p))]
    BY <1>5 DEF ProcessLatest
  <2>2. lValue'[n] = Truth(IsTrue(p))
    BY <1>1, <2>1
  <2> QED BY <1>2, <2>1, <2>2
<1> QED BY <1>4, <1>5

LEMMA LatestStep == TypesInv /\ TimersInv /\ RowsInv /\ LatestInv /\ [Next]_vars => LatestInv'
<1> SUFFICES ASSUME TypesInv, TimersInv, RowsInv, LatestInv, [Next]_vars PROVE LatestInv'
  OBVIOUS
<1>1. /\ rules' = rules /\ Node' = Node /\ Kind' = Kind /\ Measurements' = Measurements
      /\ \A n : Parents(n)' = Parents(n)
  BY RulesStay, GraphStays
<1>2. \A n \in Node : LatestIsKept(n)
  BY DEF LatestInv
<1>3. CASE UNCHANGED <<lValue, lTime, requests, processed>>
  <2>1. \A n \in Node : Same(n)
    BY <1>1, <1>3 DEF Same, SameInputs
  <2>2. \A n \in Node : LatestIsKept(n)'
    BY <1>2, <1>3, <2>1, LatestStays
  <2> QED BY <1>1, <1>3, <2>2 DEF LatestInv
<1>4. ASSUME NEW m \in Measurements, ReadMeasurement(m) PROVE LatestInv'
  <2>1. processed' = {}
    BY <1>4 DEF ReadMeasurement, TimersInv, StartInv
  <2>2. \A n \in Node \ Measurements : lTime'[n] = lTime[n] /\ lTime[n] = 0
    <3>1. processed = {}
      BY <1>4 DEF ReadMeasurement, TimersInv, StartInv
    <3> QED BY <1>4, <3>1 DEF ReadMeasurement, LatestInv, TypesInv
  <2> QED BY <1>1, <2>1, <2>2 DEF LatestInv, LatestIsKept
<1>5. ASSUME NEW m \in Measurements, Reads(m) PROVE LatestInv'
  <2>1. /\ OnlyChanges(m) /\ lValue'[m] = rows[m].value /\ lTime'[m] = rows[m].lTime
        /\ processed' = processed \cup {m} /\ m \in Node /\ Kind[m] = "measurement"
    BY <1>5, ReadChanges, NodeKinds DEF Reads
  <2>2. ASSUME NEW n \in Node \ Measurements, n \notin processed' PROVE lTime'[n] = 0
    BY <2>1, <2>2 DEF LatestInv, OnlyChanges
  <2>3. ASSUME NEW n \in Node PROVE LatestIsKept(n)'
    <3>1. CASE n = m
      BY <1>1, <2>1, <3>1 DEF LatestIsKept
    <3>2. CASE n # m /\ m \notin Parents(n)
      <4>1. Same(n)
        BY <2>1, <3>2, OthersAreSame
      <4> QED BY <1>2, <2>1, <3>2, <4>1, LatestStays
    <3>3. CASE n # m /\ m \in Parents(n)
      <4> SUFFICES ASSUME n \in processed, Kind[n] = "latest", Parents(n) \subseteq Measurements,
                          \A p \in Parents(n) : lTime'[p] <= lTime'[n]
                   PROVE  \E p \in Parents(n) : /\ lTime'[p] = lTime'[n]
                                                /\ lValue'[n] = Truth(IsTrue(p)')
        BY <1>1, <2>1, <3>3 DEF LatestIsKept
      <4>1. /\ \A p \in Parents(n) : p # m => lTime'[p] = lTime[p] /\ lValue'[p] = lValue[p]
            /\ lTime'[n] = lTime[n] /\ lValue'[n] = lValue[n] /\ Parents(n) \subseteq Node
        BY <2>1, <3>3, NodeFacts DEF OnlyChanges, TypesInv
      <4>2. /\ lTime[m] <= lTime'[m] /\ (lTime[m] = lTime'[m] => lValue[m] = lValue'[m])
        BY <2>1 DEF RowsInv, RowRead
      <4>3. lTime[m] \in Nat /\ lTime'[m] \in Nat /\ lTime[n] \in Nat /\ lTime'[m] <= lTime[n]
        <5>1. lTime[m] \in Nat /\ lTime[n] \in Nat /\ rows[m].lTime \in 1..now /\ now \in Nat
          BY <2>1, TimeFacts, RowFacts
        <5>2. rows[m].lTime \in Nat
          BY <5>1
        <5> QED BY <2>1, <3>3, <4>1, <5>1, <5>2
      <4>4. \A p \in Parents(n) : lTime[p] <= lTime[n]
        <5>1. lTime[m] <= lTime[n]
          BY <4>2, <4>3
        <5> QED BY <4>1, <5>1
      <4>5. PICK p \in Parents(n) : lTime[p] = lTime[n] /\ lValue[n] = Truth(IsTrue(p))
        BY <1>2, <4>4 DEF LatestIsKept
      <4>6. lTime'[p] = lTime[p] /\ lValue'[p] = lValue[p]
        <5>1. CASE p = m
          BY <4>2, <4>3, <4>5, <5>1
        <5> QED BY <4>1, <5>1
      <4> QED BY <4>1, <4>5, <4>6 DEF IsTrue
    <3> QED BY <3>1, <3>2, <3>3
  <2> QED BY <1>1, <2>2, <2>3 DEF LatestInv
<1>6. ASSUME NEW v \in Node, Visits(v) PROVE LatestInv'
  <2>1. OnlyChanges(v) /\ processed' = processed \cup {v} /\ v \notin Measurements
    BY <1>6, VisitChanges
  <2>2. ASSUME NEW n \in Node \ Measurements, n \notin processed' PROVE lTime'[n] = 0
    BY <2>1, <2>2 DEF LatestInv, OnlyChanges
  <2>3. ASSUME NEW n \in Node PROVE LatestIsKept(n)'
    <3>1. CASE Kind[n] = "latest" /\ Parents(n) \subseteq Measurements /\ n # v
      <4>1. Same(n)
        BY <2>1, <3>1, OthersAreSame
      <4> QED BY <1>2, <2>1, <3>1, <4>1, LatestStays
    <3>2. CASE Kind[n] = "latest" /\ Parents(n) \subseteq Measurements /\ n = v
      <4>1. ProcessLatest(n)
        BY <1>6, <3>2 DEF Visits, ProcessCombining, ProcessLatch, ProcessDelay, ProcessAction,
                          Combining
      <4>2. PICK p \in Parents(n) : lTime'[p] = lTime'[n] /\ lValue'[n] = Truth(IsTrue(p))
        BY <3>2, <4>1, LatestProcessed
      <4>3. lValue'[p] = lValue[p]
        BY <2>1, <3>2, <4>2, NodeFacts DEF OnlyChanges, TypesInv
      <4> QED BY <1>1, <4>2, <4>3 DEF LatestIsKept, IsTrue
    <3>3. CASE ~(Kind[n] = "latest" /\ Parents(n) \subseteq Measurements)
      BY <1>1, <3>3 DEF LatestIsKept
    <3> QED BY <3>1, <3>2, <3>3
  <2> QED BY <1>1, <2>2, <2>3 DEF LatestInv
<1> QED BY <1>3, <1>4, <1>5, <1>6, StepCases

-----------------------------------------------------------------------------
(* Agreement *)

\* fProcess will be called for n: by what is active now, or when a delay ends.
InEntry(n, e) == n \in Dependents(e.node) /\ ~(phase = "timed process" /\ e = it)
Called(n) == n \in Frames(stack) \/ \E e \in lTimes : InEntry(n, e)

\* A node that has been processed agrees with its parents, or it will be called.
AgreeInv == \A n \in processed \ Measurements : Consistent(n) \/ Called(n)

\* A node agrees with its parents once it is processed.
LEMMA ProcessedAgrees ==
  ASSUME TypesInv, TimersInv, RowsInv, LatestInv, NEW v \in Node, Visits(v)
  PROVE  Consistent(v)'
<1>1. /\ OnlyChanges(v) /\ v \notin Measurements /\ v \notin Parents(v) /\ rules \in Graphs
      /\ lValue \in [Node -> Int] /\ lTime \in [Node -> 0..now]
  BY VisitChanges, NodeFacts DEF TypesInv
<1>2. SameInputs(v)
  <2>1. Parents(v) \subseteq Node
    BY <1>1, NodeFacts
  <2> QED BY <1>1, <2>1 DEF OnlyChanges, SameInputs
<1>3. /\ Kind' = Kind /\ Parent' = Parent /\ Parents(v)' = Parents(v)
      /\ Measurements' = Measurements
      /\ \A p \in Parents(v) : lValue'[p] = lValue[p] /\ lTime'[p] = lTime[p]
  BY <1>2, GraphStays DEF SameInputs
<1>4. Computed(v)' = Computed(v) /\ \A p \in Parents(v) : IsTrue(p)' = IsTrue(p)
  BY <1>2, SameInputsFacts
<1>5. CASE ProcessCombining(v)
  <2>1. lValue'[v] = Computed(v) /\ Kind[v] \in Combining
    BY <1>1, <1>5 DEF ProcessCombining
  <2> QED BY <1>3, <1>4, <2>1 DEF Consistent, Combining
<1>6. CASE ProcessLatest(v)
  <2>1. Kind[v] = "latest"
    BY <1>6 DEF ProcessLatest
  <2> SUFFICES ASSUME Parents(v) \subseteq Measurements
               PROVE  \E p \in Parents(v) : /\ lTime'[p] = NewestOf(v)'
                                            /\ lValue'[v] = Truth(IsTrue(p)')
    BY <1>3, <2>1 DEF Consistent
  <2>2. PICK p \in Parents(v) : /\ lTime'[p] = lTime'[v] /\ lTime'[v] = NewestOf(v)
                               /\ lValue'[v] = Truth(IsTrue(p))
    BY <1>6, LatestProcessed
  <2>3. NewestOf(v)' = NewestOf(v)
    <3>1. PICK k : k = NewestOf(v)
      OBVIOUS
    <3>2. PICK S : S = {k} \cup {lTime[q] : q \in Parents(v)}
      OBVIOUS
    <3>3. k \in 0..now /\ \A q \in Parents(v) : lTime[q] \in 0..now /\ lTime[q] <= k
      BY <1>1, <3>1, NewestFacts, NodeFacts
    <3>4. S \subseteq 0..now /\ k \in S /\ now \in Nat /\ \A x \in S : x <= k
      <4>1. now \in Nat
        BY TimeFacts
      <4> QED BY <3>2, <3>3, <4>1
    <3>5. Max(S) \in S /\ \A x \in S : x <= Max(S)
      BY <3>4, MaxIsGreatest
    <3>6. Max(S) = k
      <4>1. PICK x \in S : x = Max(S) /\ \A y \in S : y <= x
        BY <3>5
      <4>2. x <= k /\ k <= x
        BY <3>4, <4>1
      <4>3. x \in Int /\ k \in Int
        BY <3>4
      <4> QED BY <4>1, <4>2, <4>3
    <3>7. {lTime'[q] : q \in Parents(v)} = {lTime[q] : q \in Parents(v)} /\ lTime'[v] = k
      BY <1>3, <2>2, <3>1
    <3>8. NewestOf(v)' = Max(S)
      BY <1>3, <3>2, <3>7 DEF NewestOf
    <3> QED BY <3>1, <3>6, <3>8
  <2> QED BY <1>4, <2>2, <2>3
<1>7. CASE ProcessLatch(v)
  <2>1. Kind[v] = "latch" /\ Parent[v]["set"] \in Parents(v) /\ Parent[v]["reset"] \in Parents(v)
    BY <1>1, <1>7, SlotFacts DEF ProcessLatch
  <2>2. /\ Wins(v, "set", "reset")' = Wins(v, "set", "reset")
        /\ Wins(v, "reset", "set")' = Wins(v, "reset", "set")
    BY <1>3, <1>4, <2>1 DEF Wins, IsTrue
  <2>3. ~(Wins(v, "set", "reset") /\ Wins(v, "reset", "set"))
    <3>1. Parent[v]["set"] \in Node /\ Parent[v]["reset"] \in Node
      BY <1>1, <2>1, SlotFacts
    <3>2. PICK a \in Nat, b \in Nat : a = lTime[Parent[v]["set"]] /\ b = lTime[Parent[v]["reset"]]
      BY <3>1, TimeFacts
    <3> QED BY <3>2 DEF Wins
  <2>4. /\ Wins(v, "set", "reset") => lValue'[v] = 1
        /\ Wins(v, "reset", "set") => lValue'[v] = 0
    BY <1>1, <1>7, <2>3 DEF ProcessLatch, LatchTo
  <2> QED BY <1>3, <2>1, <2>2, <2>4 DEF Consistent
<1>8. CASE ProcessDelay(v)
  <2>1. Kind[v] = "delay" /\ Parent[v]["parent"] \in Parents(v)
    BY <1>1, <1>8, SlotFacts DEF ProcessDelay
  <2>2. lValue'[v] = lValue[Parent[v]["parent"]]
    BY <1>1, <1>8 DEF ProcessDelay
  <2> QED BY <1>3, <2>1, <2>2 DEF Consistent
<1>9. CASE ProcessAction(v)
  <2>1. Kind[v] = "action" /\ Parent[v]["parent"] \in Parents(v) /\ v \in Actions
    BY <1>1, <1>9, SlotFacts, NodeKinds DEF ProcessAction
  <2>2. requests'[v] = lValue[Parent[v]["parent"]]
    BY <1>9, <2>1 DEF ProcessAction, TypesInv
  <2> QED BY <1>3, <2>1, <2>2 DEF Consistent
<1> QED BY <1>5, <1>6, <1>7, <1>8, <1>9 DEF Visits

\* What a visit of v does to who will be called.
LEMMA VisitCalls ==
  ASSUME TypesInv, TimersInv, NEW v \in Node, Visits(v), NEW n \in Node \ {v}
  PROVE  /\ Called(n) => Called(n)'
         /\ v \in Parents(n) => Called(n)' \/ (lValue'[v] = lValue[v] /\ lTime'[v] = lTime[v])
<1>1. /\ rules' = rules /\ phase' = phase /\ it' = it /\ Visiting(v)
      /\ stack' \in {Left(v), Entered(v)} /\ \A x : Dependents(x)' = Dependents(x)
  <2>1. OnlyChanges(v) /\ phase' = phase /\ it' = it /\ Visiting(v)
    BY VisitChanges
  <2>2. stack' \in {Left(v), Entered(v)}
    BY DEF Visits, ProcessCombining, ProcessLatest, ProcessLatch, LatchTo, ProcessDelay,
           ProcessAction
  <2>3. rules' = rules
    BY <2>1 DEF OnlyChanges
  <2> QED BY <2>1, <2>2, <2>3, GraphStays
<1>2. Frames(stack) \subseteq Frames(stack') \cup {v} /\ (phase = "timed process" => v # it.node)
  BY <1>1, VisitKeeps
<1>3. \A e : InEntry(n, e)' = InEntry(n, e)
  BY <1>1 DEF InEntry
<1>4. n \in Frames(stack') => Called(n)'
  BY DEF Called, Frames
<1>5. v \in Parents(n) => n \in Dependents(v)
  BY DEF Dependents
<1>6. CASE ~ProcessDelay(v)
  <2>1. lTimes' = lTimes
    BY <1>6 DEF Visits, ProcessCombining, ProcessLatest, ProcessLatch, ProcessAction
  <2>2. Called(n) => Called(n)'
    BY <1>2, <1>3, <1>4, <2>1 DEF Called
  <2>3. stack' = Entered(v) \/ UNCHANGED <<lValue, lTime>>
    BY <1>6 DEF Visits, ProcessCombining, ProcessLatest, ProcessLatch, LatchTo, ProcessAction
  <2>4. stack' = Entered(v) => Dependents(v) \subseteq Frames(stack')
    BY <1>1, VisitFacts
  <2> QED BY <1>4, <1>5, <2>2, <2>3, <2>4
<1>7. CASE ProcessDelay(v)
  <2>1. PICK new : /\ new = [lTime |-> lTime[Parent[v]["parent"]] + Delay[v], node |-> v]
                  /\ lTimes' = {e \in lTimes : e.node # v} \cup {new}
    BY <1>7 DEF ProcessDelay, fRegisterAction
  <2>2. new \in lTimes' /\ new.node = v
    BY <2>1
  <2>3. n \in Dependents(v) => InEntry(n, new)
    BY <1>2, <2>2 DEF InEntry
  <2>4. n \in Dependents(v) => Called(n)'
    BY <1>3, <2>2, <2>3 DEF Called
  <2>5. ASSUME NEW e \in lTimes, InEntry(n, e) PROVE Called(n)'
    <3>1. CASE e.node = v
      BY <2>4, <2>5, <3>1 DEF InEntry
    <3>2. CASE e.node # v
      BY <1>3, <2>1, <2>5, <3>2 DEF Called
    <3> QED BY <3>1, <3>2
  <2> QED BY <1>2, <1>4, <1>5, <2>4, <2>5 DEF Called
<1> QED BY <1>6, <1>7

\* What the other steps do to it.
LEMMA OtherCalls ==
  ASSUME TypesInv, [Next]_vars, UNCHANGED <<lValue, lTime, requests, processed>>,
         NEW n \in Node, Called(n), ~\E v \in Node : Visits(v)
  PROVE  Called(n)'
<1>1. \A x : Dependents(x)' = Dependents(x)
  BY RulesStay, GraphStays
<1>2. ASSUME UNCHANGED <<stack, lTimes>>,
             phase' = "timed process" => phase' = phase /\ it' = it
      PROVE  Called(n)'
  BY <1>1, <1>2 DEF Called, InEntry
<1>3. CASE UNCHANGED vars
  BY <1>2, <1>3 DEF vars, graph
<1>4. CASE (\E m \in Measurements : \E v \in Readings : Insert(m, v)) \/ Tick
  BY <1>2, <1>4 DEF Insert, Tick, graph
<1>5. CASE Listen \/ ThreadsStarted \/ TimedDone
  BY <1>2, <1>5 DEF Listen, ThreadsStarted, TimedDone, graph
<1>6. CASE PollTimesOut \/ ConsumeInput \/ NotifyDone
  BY <1>2, <1>6 DEF PollTimesOut, ConsumeInput, NotifyDone, graph
<1>7. CASE \E m \in Measurements : ReadMeasurement(m)
  BY <1>2, <1>7 DEF ReadMeasurement
<1>8. ASSUME NEW e \in lTimes, TimedStarts(e) PROVE Called(n)'
  <2>1. stack = <<>> /\ stack' = <<Dependents(e.node)>> /\ it' = e /\ lTimes' = lTimes
    BY <1>8 DEF TimedStarts, TypesInv, graph
  <2>2. Frames(stack) = {} /\ Frames(stack') = Dependents(e.node)
    <3>1. <<>> \in Seq(SUBSET Node) /\ Dependents(e.node) \in SUBSET Node
      BY EmptySeq DEF Dependents
    <3>2. Pushable(Dependents(e.node), <<>>, Node)
      BY <3>1, FramePushed
    <3>3. Frames(<<>>) = {}
      BY <3>1, FramePopped
    <3> QED BY <2>1, <3>2, <3>3 DEF Pushable
  <2>3. PICK f \in lTimes : n \in Dependents(f.node)
    BY <2>2 DEF Called, InEntry
  <2>4. CASE f = e
    BY <1>1, <2>2, <2>3, <2>4 DEF Called, Frames
  <2>5. CASE f # e
    BY <1>1, <2>1, <2>3, <2>5 DEF Called, InEntry
  <2> QED BY <2>4, <2>5
<1>9. CASE TimedEnds
  <2>1. /\ stack' = stack /\ phase = "timed process" /\ phase' = "timed" /\ lTimes' = lTimes \ {it}
    BY <1>9 DEF TimedEnds
  <2> QED BY <1>1, <2>1 DEF Called, InEntry
<1>10. CASE NotificationRead
  <2>1. PICK m \in Measurements : Reads(m)
    BY <1>10, ReadFacts
  <2>2. Frames(stack) = {} /\ UNCHANGED <<lTimes, phase, it>>
    BY <2>1, ReadChanges DEF Reads
  <2> QED BY <1>1, <2>2 DEF Called, InEntry
<1>11. CASE Returned
  <2>1. /\ stack \in Seq(SUBSET Node) /\ stack # <<>> /\ Head(stack) = {} /\ stack' = Tail(stack)
        /\ UNCHANGED <<phase, it, lTimes>>
    BY <1>11 DEF Returned, TypesInv, graph
  <2>2. Frames(stack') = Frames(stack)
    <3>1. Frames(stack) = Head(stack) \cup Frames(Tail(stack))
      BY <2>1, FramePopped
    <3> QED BY <2>1, <3>1
  <2> QED BY <1>1, <2>1, <2>2 DEF Called, InEntry, Frames
<1> QED
  BY <1>3, <1>4, <1>5, <1>6, <1>7, <1>8, <1>9, <1>10, <1>11 DEF Next, Main, Process, Visits

LEMMA AgreeStep ==
  TypesInv /\ TimersInv /\ RowsInv /\ LatestInv /\ AgreeInv /\ [Next]_vars => AgreeInv'
<1> SUFFICES ASSUME TypesInv, TimersInv, RowsInv, LatestInv, AgreeInv, [Next]_vars,
                    NEW n \in processed' \ Measurements
             PROVE  Consistent(n)' \/ Called(n)'
  BY RulesStay, GraphStays DEF AgreeInv
<1>1. rules' = rules /\ n \in Node
  <2>1. processed' \subseteq Node'
    BY TypesStep DEF TypesInv
  <2> QED BY <2>1, RulesStay, GraphStays
<1>2. n \in processed => Consistent(n) \/ Called(n)
  BY DEF AgreeInv
<1>3. CASE \E v \in Node : Visits(v)
  <2>1. PICK v \in Node : Visits(v)
    BY <1>3
  <2>2. OnlyChanges(v) /\ processed' = processed \cup {v}
    BY <2>1, VisitChanges
  <2>3. CASE n = v
    BY <2>1, <2>3, ProcessedAgrees
  <2>4. CASE n # v
    <3>1. n \in processed
      BY <2>2, <2>4
    <3>2. CASE Called(n)
      BY <1>1, <2>1, <2>4, <3>2, VisitCalls
    <3>3. CASE Consistent(n)
      <4>1. CASE v \notin Parents(n)
        <5>1. Same(n)
          BY <1>1, <2>2, <2>4, <4>1, OthersAreSame
        <5> QED BY <1>1, <3>3, <5>1, ConsistentStays
      <4>2. CASE v \in Parents(n) /\ ~Called(n)'
        <5>1. lValue'[v] = lValue[v] /\ lTime'[v] = lTime[v]
          BY <1>1, <2>1, <2>4, <4>2, VisitCalls
        <5>2. Same(n)
          <6>1. Parents(n) \subseteq Node
            BY <1>1, NodeFacts DEF TypesInv
          <6> QED BY <1>1, <2>2, <2>4, <5>1, <6>1 DEF OnlyChanges, Same, SameInputs
        <5> QED BY <1>1, <3>3, <5>2, ConsistentStays
      <4> QED BY <4>1, <4>2
    <3> QED BY <1>2, <3>1, <3>2, <3>3
  <2> QED BY <2>3, <2>4
<1>4. CASE UNCHANGED <<lValue, lTime, requests, processed>> /\ ~\E v \in Node : Visits(v)
  <2>1. CASE Called(n)
    BY <1>1, <1>4, <2>1, OtherCalls
  <2>2. CASE Consistent(n)
    <3>1. Same(n)
      BY <1>1, <1>4 DEF Same, SameInputs
    <3> QED BY <1>1, <2>2, <3>1, ConsistentStays
  <2> QED BY <1>2, <1>4, <2>1, <2>2
<1>5. ASSUME NEW m \in Measurements, ReadMeasurement(m) PROVE FALSE
  <2>1. processed' = {}
    BY <1>5 DEF ReadMeasurement, TimersInv, StartInv
  <2> QED BY <2>1
<1>6. ASSUME NEW m \in Measurements, Reads(m) PROVE Consistent(n)' \/ Called(n)'
  <2>1. /\ OnlyChanges(m) /\ n # m /\ n \in processed
        /\ Frames(stack) = {} /\ Frames(stack') = Dependents(m)
        /\ UNCHANGED <<lTimes, phase, it>>
    BY <1>6, ReadChanges DEF Reads
  <2>2. CASE m \in Parents(n)
    <3>1. n \in Frames(stack')
      BY <1>1, <2>1, <2>2 DEF Dependents
    <3> QED BY <3>1 DEF Called, Frames
  <2>3. CASE m \notin Parents(n) /\ Consistent(n)
    <3>1. Same(n)
      BY <1>1, <2>1, <2>3, OthersAreSame
    <3> QED BY <1>1, <2>3, <3>1, ConsistentStays
  <2>4. CASE Called(n)
    <3>1. \A x : Dependents(x)' = Dependents(x)
      BY <1>1, GraphStays
    <3> QED BY <2>1, <2>4, <3>1 DEF Called, InEntry
  <2> QED BY <1>2, <2>1, <2>2, <2>3, <2>4
<1> QED BY <1>3, <1>4, <1>5, <1>6, StepCases

RuleInv == TypesInv /\ TimersInv /\ RowsInv /\ LatestInv /\ AgreeInv

LEMMA RuleInvImpliesQuiet == RuleInv => QuietIsConsistent
<1> SUFFICES ASSUME RuleInv, Quiet, NEW n \in processed \cup Measurements PROVE Consistent(n)
  BY DEF QuietIsConsistent
<1>1. /\ TypesInv /\ phase = "poll" /\ wire = <<>> /\ notifications = <<>> /\ lTimes = {}
      /\ stack = <<>>
  BY DEF RuleInv, Quiet, TypesInv
<1>2. CASE n \in Measurements
  <2>1. RowRead(n) /\ Kind[n] = "measurement"
    BY <1>2, NodeKinds DEF RuleInv, RowsInv
  <2>2. ~Announced(n)
    BY <1>1 DEF Announced, InQueue
  <2> QED BY <1>1, <2>1, <2>2 DEF RowRead, Consistent
<1>3. CASE n \in processed \ Measurements
  <2>1. ~Called(n)
    BY <1>1 DEF Called, Frames
  <2> QED BY <1>3, <2>1 DEF RuleInv, AgreeInv
<1> QED BY <1>2, <1>3

\* Whatever acyclic rules are in the database: when main has nothing left to do, every node
\* and every request of an action follows from the newest rows that were announced, although
\* the dependents are called in any order and delays are restarted and end in between.
THEOREM RulesAgree == Spec => []QuietIsConsistent
<1>1. Init => RuleInv
  <2> SUFFICES ASSUME Init PROVE RuleInv
    OBVIOUS
  <2>1. AgreeInv
    BY DEF Init, AgreeInv
  <2> QED BY <2>1, TypesInit, TimersInit, RowsInit, LatestInit DEF RuleInv
<1>2. RuleInv /\ [Next]_vars => RuleInv'
  BY TypesStep, TimersStep, RowsStep, LatestStep, AgreeStep DEF RuleInv
<1>3. RuleInv => QuietIsConsistent
  BY RuleInvImpliesQuiet
<1> QED BY <1>1, <1>2, <1>3, PTL DEF Spec
=============================================================================
