-------------------------- MODULE SparsifierProofs --------------------------
(* Theorems about Sparsifier, for every set of readings, every set of      *)
(* deadbands and every number of stored samples.                           *)
EXTENDS Sparsifier, SequenceTheorems, TLAPS

USE ConstantsAssumption

\* What fStore has collected before it decides about a flush: one sample more, or
\* the last one replaced by a later sample of the same value.
LEMMA RecordedFacts ==
  ASSUME TypeOK, NEW s \in timedValue
  PROVE  LET values == Recorded(s)
         IN  /\ values \in Seq(timedValue)
             /\ Len(values) > 0
             /\ Last(values) = s
             /\ \/ Len(values) = Len(lValues) + 1
                \/ /\ Len(values) = Len(lValues)
                   /\ Len(values) > 2
                   /\ lValues[Len(values)].lValue = s.lValue
                   /\ lValues[Len(values) - 1].lValue = s.lValue
             /\ \A i \in 1..(Len(values) - 1) : values[i] = lValues[i]
<1> DEFINE n == Len(lValues)
<1>1. CASE n > 2 /\ lValues[n].lValue = s.lValue /\ lValues[n - 1].lValue = s.lValue
  BY <1>1 DEF Recorded, TypeOK, Last
<1>2. CASE ~(n > 2 /\ lValues[n].lValue = s.lValue /\ lValues[n - 1].lValue = s.lValue)
  <2>1. Recorded(s) = Append(lValues, s)
    BY <1>2 DEF Recorded
  <2> QED
    BY <2>1 DEF TypeOK, Last
<1> QED BY <1>1, <1>2

\* Later samples have later times.
InOrder(values) ==
  \A i, j \in DOMAIN values : i < j => values[i].lTime < values[j].lTime

\* The sequences that up to three appends make.
LEMMA AppendFacts ==
  ASSUME NEW S, NEW x \in S, NEW y \in S, NEW z \in S
  PROVE  /\ LET q == Append(Append(<<x>>, y), z)
            IN q \in Seq(S) /\ Len(q) = 3 /\ q[1] = x /\ q[2] = y /\ q[3] = z
         /\ LET q == Append(<<x>>, y)
            IN q \in Seq(S) /\ Len(q) = 2 /\ q[1] = x /\ q[2] = y
         /\ LET q == Append(Append(<<>>, x), y)
            IN q \in Seq(S) /\ Len(q) = 2 /\ q[1] = x /\ q[2] = y
         /\ LET q == Append(<<>>, x)
            IN q \in Seq(S) /\ Len(q) = 1 /\ q[1] = x
<1>1. LET q == Append(Append(<<x>>, y), z)
      IN q \in Seq(S) /\ Len(q) = 3 /\ q[1] = x /\ q[2] = y /\ q[3] = z
  OBVIOUS
<1>2. LET q == Append(<<x>>, y)
      IN q \in Seq(S) /\ Len(q) = 2 /\ q[1] = x /\ q[2] = y
  OBVIOUS
<1>3. LET q == Append(Append(<<>>, x), y)
      IN q \in Seq(S) /\ Len(q) = 2 /\ q[1] = x /\ q[2] = y
  OBVIOUS
<1>4. LET q == Append(<<>>, x)
      IN q \in Seq(S) /\ Len(q) = 1 /\ q[1] = x
  OBVIOUS
<1> QED BY <1>1, <1>2, <1>3, <1>4

\* What fFlush sends: at most three samples, in order, the last one among them,
\* and both extremes unless they are the sample at index 0.
LEMMA PickedFacts ==
  ASSUME NEW values \in Seq(timedValue), Len(values) > 0,
         NEW lo \in 0..(Len(values) - 1), NEW hi \in 0..(Len(values) - 1)
  PROVE  LET p == Picked(values, lo, hi)
         IN  /\ p \in Seq(timedValue)
             /\ Len(p) > 0
             /\ Last(p) = Last(values)
             /\ \A i \in 1..Len(p) : \E k \in 1..Len(values) :
                  p[i] = values[k] /\ (k > 1 \/ Len(values) = 1)
             /\ lo > 0 => \E i \in 1..Len(p) : p[i] = values[lo + 1]
             /\ hi > 0 => \E i \in 1..Len(p) : p[i] = values[hi + 1]
             /\ InOrder(values) => InOrder(p)
<1> DEFINE least == IF lo < hi THEN lo ELSE hi
           most  == IF lo < hi THEN hi ELSE lo
           early == IF 0 < least /\ least < most THEN <<values[least + 1]>> ELSE <<>>
           both  == IF 0 < most /\ most + 1 < Len(values)
                      THEN Append(early, values[most + 1]) ELSE early
           p     == Picked(values, lo, hi)
           a     == values[least + 1]
           b     == values[most + 1]
           c     == Last(values)
<1>1. /\ least \in 0..(Len(values) - 1)
      /\ most \in 0..(Len(values) - 1)
      /\ least <= most
      /\ (lo = least /\ hi = most) \/ (lo = most /\ hi = least)
  OBVIOUS
<1>2. a \in timedValue /\ b \in timedValue /\ c \in timedValue
  BY <1>1 DEF Last
<1>3. /\ p \in Seq(timedValue)
      /\ \/ /\ Len(p) = 3 /\ p[1] = a /\ p[2] = b /\ p[3] = c
            /\ 0 < least /\ least < most /\ most + 1 < Len(values)
         \/ /\ Len(p) = 2 /\ p[1] = a /\ p[2] = c
            /\ 0 < least /\ least < most /\ most + 1 = Len(values)
         \/ /\ Len(p) = 2 /\ p[1] = b /\ p[2] = c
            /\ (0 = least \/ least = most) /\ 0 < most /\ most + 1 < Len(values)
         \/ /\ Len(p) = 1 /\ p[1] = c
            /\ (0 = least \/ least = most) /\ (most = 0 \/ most + 1 = Len(values))
  <2>1. p = Append(both, c)
    BY DEF Picked
  <2>2. CASE 0 < least /\ least < most /\ most + 1 < Len(values)
    <3>1. p = Append(Append(<<a>>, b), c)
      BY <2>1, <2>2
    <3>2. p \in Seq(timedValue) /\ Len(p) = 3 /\ p[1] = a /\ p[2] = b /\ p[3] = c
      BY ONLY <1>2, <3>1, AppendFacts
    <3> QED BY <3>2, <2>2, <1>1
  <2>3. CASE 0 < least /\ least < most /\ ~(most + 1 < Len(values))
    <3>1. p = Append(<<a>>, c)
      BY <2>1, <2>3
    <3>2. p \in Seq(timedValue) /\ Len(p) = 2 /\ p[1] = a /\ p[2] = c
      BY ONLY <1>2, <3>1, AppendFacts
    <3> QED BY <3>2, <2>3, <1>1
  <2>4. CASE ~(0 < least /\ least < most) /\ 0 < most /\ most + 1 < Len(values)
    <3>1. p = Append(Append(<<>>, b), c)
      BY <2>1, <2>4
    <3>2. p \in Seq(timedValue) /\ Len(p) = 2 /\ p[1] = b /\ p[2] = c
      BY ONLY <1>2, <3>1, AppendFacts
    <3> QED BY <3>2, <2>4, <1>1
  <2>5. CASE ~(0 < least /\ least < most) /\ ~(0 < most /\ most + 1 < Len(values))
    <3>1. p = Append(<<>>, c)
      BY <2>1, <2>5
    <3>2. p \in Seq(timedValue) /\ Len(p) = 1 /\ p[1] = c
      BY ONLY <1>2, <3>1, AppendFacts
    <3> QED BY <3>2, <2>5, <1>1
  <2> QED BY <2>2, <2>3, <2>4, <2>5
<1> HIDE DEF p
<1>4. p \in Seq(timedValue) /\ Len(p) > 0 /\ p[Len(p)] = c
  BY <1>3
<1>5. \A i \in 1..Len(p) : \E k \in 1..Len(values) :
        p[i] = values[k] /\ (k > 1 \/ Len(values) = 1)
  <2> SUFFICES ASSUME NEW i \in 1..Len(p)
               PROVE  \E k \in 1..Len(values) :
                        p[i] = values[k] /\ (k > 1 \/ Len(values) = 1)
    OBVIOUS
  <2>1. \/ p[i] = a /\ 0 < least
        \/ p[i] = b /\ 0 < most
        \/ p[i] = c
    <3> HIDE DEF a, b, c, least, most
    <3> QED BY <1>1, <1>3
  <2>2. CASE p[i] = a /\ 0 < least
    <3> WITNESS least + 1 \in 1..Len(values)
    <3> QED BY <2>2, <1>1
  <2>3. CASE p[i] = b /\ 0 < most
    <3> WITNESS most + 1 \in 1..Len(values)
    <3> QED BY <2>3, <1>1
  <2>4. CASE p[i] = c
    <3>1. Len(values) \in 1..Len(values) /\ p[i] = values[Len(values)]
      BY <2>4 DEF Last
    <3>2. Len(values) \in Nat
      BY LenProperties
    <3>3. Len(values) > 1 \/ Len(values) = 1
      BY <3>2
    <3> QED BY <3>1, <3>3, Zenon
  <2> QED BY <2>1, <2>2, <2>3, <2>4
<1>6. \A k \in {least, most} : k > 0 => \E i \in 1..Len(p) : p[i] = values[k + 1]
  <2>1. /\ least > 0 => \E i \in 1..Len(p) : p[i] = a
        /\ most > 0 => \E i \in 1..Len(p) : p[i] = b
    <3>1. least = most => a = b
      OBVIOUS
    <3>2. most + 1 = Len(values) => b = c
      BY DEF Last
    <3> HIDE DEF a, b, c, p, least, most
    <3> QED BY <1>1, <1>2, <1>3, <3>1, <3>2
  <2> QED BY <2>1
<1>7. InOrder(values) => InOrder(p)
  <2> SUFFICES ASSUME InOrder(values) PROVE InOrder(p)
    OBVIOUS
  <2>1. /\ least < most => a.lTime < b.lTime
        /\ least + 1 < Len(values) => a.lTime < c.lTime
        /\ most + 1 < Len(values) => b.lTime < c.lTime
    BY <1>1 DEF InOrder, Last
  <2>2. \A i, j \in 1..Len(p) : i < j => p[i].lTime < p[j].lTime
    <3>1. a.lTime \in Int /\ b.lTime \in Int /\ c.lTime \in Int
      BY <1>2 DEF timedValue
    <3> HIDE DEF a, b, c, least, most
    <3>2. CASE Len(p) = 3
      BY <1>1, <1>3, <2>1, <3>1, <3>2
    <3>3. CASE Len(p) = 2
      BY <1>1, <1>3, <2>1, <3>1, <3>3
    <3>4. CASE Len(p) = 1
      BY <3>4
    <3> QED BY <1>3, <3>2, <3>3, <3>4
  <2> QED BY <2>2, <1>4 DEF InOrder
<1> QED BY <1>1, <1>4, <1>5, <1>6, <1>7 DEF Last, p

\* The index arithmetic of one fStore.
LEMMA IndexFacts ==
  ASSUME TypeOK, NEW s \in timedValue
  PROVE  LET values == Recorded(s)
             lo == MinIndex(values, s.lValue)
             hi == MaxIndex(values, s.lValue)
         IN  lo \in 0..(Len(values) - 1) /\ hi \in 0..(Len(values) - 1)
<1> DEFINE values == Recorded(s)
<1>1. values \in Seq(timedValue) /\ Len(values) > 0 /\ Len(values) >= Len(lValues)
  BY RecordedFacts DEF TypeOK
<1>2. /\ lMinValueIndex \in 0..(Len(values) - 1)
      /\ lMaxValueIndex \in 0..(Len(values) - 1)
  BY <1>1 DEF TypeOK, IndexInto
<1> QED BY <1>1, <1>2 DEF MinIndex, MaxIndex

\* A report keeps the types.
LEMMA ReportType ==
  ASSUME TypeOK, NEW values \in Seq(timedValue), Len(values) > 0,
         NEW lo \in 0..(Len(values) - 1), NEW hi \in 0..(Len(values) - 1),
         Report(values, lo, hi)
  PROVE  /\ lValues' \in Seq(timedValue)
         /\ lMinValueIndex' \in IndexInto(lValues')
         /\ lMaxValueIndex' \in IndexInto(lValues')
         /\ lSendQueue' \in Seq(timedValue)
         /\ since' \subseteq timedValue
<1>1. Picked(values, lo, hi) \in Seq(timedValue)
  BY PickedFacts
<1>2. Last(values) \in timedValue
  BY DEF Last
<1> QED BY <1>1, <1>2 DEF Report, TypeOK, IndexInto

THEOREM TypeCorrect == Spec => []TypeOK
<1>1. Init => TypeOK
  BY DEF Init, TypeOK, IndexInto
<1>2. TypeOK /\ [Next]_vars => TypeOK'
  <2> SUFFICES ASSUME TypeOK, [Next]_vars PROVE TypeOK'
    OBVIOUS
  <2>1. ASSUME NEW v \in Values, fStore(v) PROVE TypeOK'
    <3> DEFINE s      == [lTime |-> clock + 1, lValue |-> v]
               values == Recorded(s)
               lo     == MinIndex(values, v)
               hi     == MaxIndex(values, v)
    <3>1. s \in timedValue /\ clock' \in 0..MaxTime
      BY <2>1 DEF fStore, timedValue, TypeOK
    <3>2. values \in Seq(timedValue) /\ Len(values) > 0
      BY <3>1, RecordedFacts
    <3>3. lo \in 0..(Len(values) - 1) /\ hi \in 0..(Len(values) - 1)
      BY <3>1, IndexFacts
    <3> HIDE DEF s, values, lo, hi
    <3>4. CASE Report(values, lo, hi)
      BY <2>1, <3>1, <3>2, <3>3, <3>4, ReportType DEF TypeOK, fStore
    <3>5. CASE /\ lValues' = values
               /\ lMinValueIndex' = lo
               /\ lMaxValueIndex' = hi
               /\ since' = since \cup {s}
               /\ UNCHANGED lSendQueue
      BY <2>1, <3>1, <3>2, <3>3, <3>5 DEF TypeOK, fStore, IndexInto
    <3> QED BY <2>1, <3>4, <3>5 DEF fStore, s, values, lo, hi
  <2>2. CASE fFlush
    <3>1. /\ lValues \in Seq(timedValue) /\ Len(lValues) > 0
          /\ lMinValueIndex \in 0..(Len(lValues) - 1)
          /\ lMaxValueIndex \in 0..(Len(lValues) - 1)
      BY <2>2 DEF fFlush, TypeOK, IndexInto
    <3> QED BY <2>2, <3>1, ReportType DEF fFlush, TypeOK
  <2>3. CASE fSendValues
    BY <2>3 DEF fSendValues, TypeOK, IndexInto
  <2>4. ASSUME NEW band \in DeadBands, fConfigure(band) PROVE TypeOK'
    BY <2>4 DEF fConfigure, TypeOK, IndexInto
  <2>5. CASE UNCHANGED vars
    BY <2>5 DEF vars, TypeOK, IndexInto
  <2> QED BY <2>1, <2>2, <2>3, <2>4, <2>5 DEF Next
<1> QED BY <1>1, <1>2, PTL DEF Spec

\* Recording a sample keeps the values already collected.
LEMMA RecordedValues ==
  ASSUME TypeOK, NEW s \in timedValue
  PROVE  LET values == Recorded(s)
         IN  /\ \A i \in 1..Len(lValues) : values[i].lValue = lValues[i].lValue
             /\ \A i \in 1..Len(values) : values[i].lValue \in Int
             /\ \A i \in 1..Len(lValues) : lValues[i].lValue \in Int
<1> DEFINE values == Recorded(s)
<1>0. lValues \in Seq(timedValue) /\ Len(lValues) \in Nat
  BY LenProperties DEF TypeOK
<1>1. /\ values \in Seq(timedValue)
      /\ Len(values) > 0
      /\ Last(values) = s
      /\ \/ Len(values) = Len(lValues) + 1
         \/ Len(values) = Len(lValues) /\ lValues[Len(values)].lValue = s.lValue
      /\ \A i \in 1..(Len(values) - 1) : values[i] = lValues[i]
  BY RecordedFacts
<1> HIDE DEF values
<1>2. \A i \in 1..Len(lValues) : values[i].lValue = lValues[i].lValue
  BY <1>0, <1>1 DEF Last
<1>3. /\ \A i \in 1..Len(values) : values[i] \in timedValue
      /\ \A i \in 1..Len(lValues) : lValues[i] \in timedValue
  BY <1>0, <1>1
<1> QED BY <1>2, <1>3 DEF timedValue, values

\* The indices of a collection that is not empty.
LEMMA IndicesInRange ==
  ASSUME TypeOK, lValues # <<>>
  PROVE  /\ lValues \in Seq(timedValue)
         /\ Len(lValues) \in Nat \ {0}
         /\ DOMAIN lValues = 1..Len(lValues)
         /\ lMinValueIndex \in 0..(Len(lValues) - 1)
         /\ lMaxValueIndex \in 0..(Len(lValues) - 1)
<1>1. lValues \in Seq(timedValue)
  BY DEF TypeOK
<1>2. Len(lValues) \in Nat \ {0} /\ DOMAIN lValues = 1..Len(lValues)
  BY <1>1, LenProperties, EmptySeq
<1>3. /\ lMinValueIndex \in 0..(Len(lValues) - 1)
      /\ lMaxValueIndex \in 0..(Len(lValues) - 1)
  BY DEF TypeOK, IndexInto
<1> QED BY <1>1, <1>2, <1>3

\* The incremental update finds the first extremes of the longer collection.
LEMMA ExtremesStep ==
  ASSUME TypeOK, ExtremesTracked, lValues # <<>>, NEW s \in timedValue
  PROVE  LET values == Recorded(s)
         IN  /\ IsFirstMin(values, MinIndex(values, s.lValue))
             /\ IsFirstMax(values, MaxIndex(values, s.lValue))
<1> DEFINE values == Recorded(s)
           lo == MinIndex(values, s.lValue)
           hi == MaxIndex(values, s.lValue)
           n  == Len(values)
           m  == Len(lValues)
<1>0. lValues \in Seq(timedValue) /\ m \in Nat \ {0} /\ DOMAIN lValues = 1..m
  BY IndicesInRange
<1>1. /\ values \in Seq(timedValue) /\ n \in Nat /\ m \in Nat /\ m > 0
      /\ n = m \/ n = m + 1
      /\ values[n] = s
      /\ DOMAIN values = 1..n /\ DOMAIN lValues = 1..m
  <2>1. /\ values \in Seq(timedValue)
        /\ n = m \/ n = m + 1
        /\ values[n] = s
    BY RecordedFacts DEF Last
  <2>2. n \in Nat /\ DOMAIN values = 1..n
    <3>1. values \in Seq(timedValue)
      BY <2>1
    <3> HIDE DEF values
    <3> QED BY <3>1, LenProperties
  <2> HIDE DEF values, n, m
  <2> QED BY <1>0, <2>1, <2>2
<1>2. /\ \A i \in 1..m : values[i].lValue = lValues[i].lValue
      /\ \A i \in 1..n : values[i].lValue \in Int
      /\ \A i \in 1..m : lValues[i].lValue \in Int
  BY RecordedValues
<1>3. /\ lMinValueIndex + 1 \in 1..m /\ lMinValueIndex \in Nat
      /\ \A j \in 1..m : lValues[lMinValueIndex + 1].lValue <= lValues[j].lValue
      /\ \A j \in 1..lMinValueIndex :
           lValues[lMinValueIndex + 1].lValue < lValues[j].lValue
      /\ lMaxValueIndex + 1 \in 1..m /\ lMaxValueIndex \in Nat
      /\ \A j \in 1..m : lValues[j].lValue <= lValues[lMaxValueIndex + 1].lValue
      /\ \A j \in 1..lMaxValueIndex :
           lValues[j].lValue < lValues[lMaxValueIndex + 1].lValue
  <2>1. lMinValueIndex \in Nat /\ lMaxValueIndex \in Nat
    BY IndicesInRange
  <2>2. IsFirstMin(lValues, lMinValueIndex) /\ IsFirstMax(lValues, lMaxValueIndex)
    BY DEF ExtremesTracked
  <2> QED BY <1>1, <2>1, <2>2 DEF IsFirstMin, IsFirstMax
<1>4. /\ lo = IF s.lValue < values[lMinValueIndex + 1].lValue THEN n - 1 ELSE lMinValueIndex
      /\ hi = IF s.lValue > values[lMaxValueIndex + 1].lValue THEN n - 1 ELSE lMaxValueIndex
  BY DEF MinIndex, MaxIndex
<1> HIDE DEF values, lo, hi, n, m
<1>5. s.lValue \in Int
  BY DEF timedValue
<1>6. lo + 1 \in 1..n /\ hi + 1 \in 1..n
  BY <1>1, <1>3, <1>4
<1>7. IsFirstMin(values, lo)
  <2>1. CASE s.lValue < values[lMinValueIndex + 1].lValue
    <3>1. \A j \in 1..m : s.lValue < values[j].lValue
      BY <1>2, <1>3, <1>5, <2>1
    <3>2. lo = n - 1 /\ n = m + 1
      BY <1>1, <1>4, <1>5, <2>1, <3>1
    <3> QED BY <1>1, <1>2, <3>1, <3>2 DEF IsFirstMin
  <2>2. CASE ~(s.lValue < values[lMinValueIndex + 1].lValue)
    BY <1>1, <1>2, <1>3, <1>4, <1>6, <2>2 DEF IsFirstMin
  <2> QED BY <2>1, <2>2
<1>8. IsFirstMax(values, hi)
  <2>1. CASE s.lValue > values[lMaxValueIndex + 1].lValue
    <3>1. \A j \in 1..m : values[j].lValue < s.lValue
      BY <1>2, <1>3, <1>5, <2>1
    <3>2. hi = n - 1 /\ n = m + 1
      BY <1>1, <1>4, <1>5, <2>1, <3>1
    <3> QED BY <1>1, <1>2, <3>1, <3>2 DEF IsFirstMax
  <2>2. CASE ~(s.lValue > values[lMaxValueIndex + 1].lValue)
    BY <1>1, <1>2, <1>3, <1>4, <1>6, <2>2 DEF IsFirstMax
  <2> QED BY <2>1, <2>2
<1> QED BY <1>7, <1>8 DEF values, lo, hi

\* After a report the collection is one sample, its own smallest and largest.
LEMMA ReportExtremes ==
  ASSUME NEW values \in Seq(timedValue), Len(values) > 0, NEW lo, NEW hi,
         Report(values, lo, hi)
  PROVE  ExtremesTracked'
<1>1. Last(values) \in timedValue
  BY LenProperties DEF Last
<1>2. lValues' = <<Last(values)>> /\ Last(values).lValue \in Int
  BY <1>1 DEF Report, timedValue
<1>3. lMinValueIndex' = 0 /\ lMaxValueIndex' = 0
  BY DEF Report
<1> QED BY <1>2, <1>3 DEF ExtremesTracked, IsFirstMin, IsFirstMax

\* ExtremesTracked: fStore's incremental indices point to the first smallest and
\* the first largest collected sample.
THEOREM ExtremesAreTracked == Spec => []ExtremesTracked
<1>1. Init => ExtremesTracked
  BY DEF Init, ExtremesTracked
<1>2. TypeOK /\ ExtremesTracked /\ [Next]_vars => ExtremesTracked'
  <2> SUFFICES ASSUME TypeOK, ExtremesTracked, [Next]_vars PROVE ExtremesTracked'
    OBVIOUS
  <2>1. ASSUME NEW v \in Values, fStore(v) PROVE ExtremesTracked'
    <3> DEFINE s      == [lTime |-> clock + 1, lValue |-> v]
               values == Recorded(s)
               lo     == MinIndex(values, v)
               hi     == MaxIndex(values, v)
    <3>1. s \in timedValue
      BY <2>1 DEF fStore, timedValue, TypeOK
    <3>2. values \in Seq(timedValue) /\ Len(values) > 0
      BY <3>1, RecordedFacts
    <3>3. CASE Report(values, lo, hi)
      <4> HIDE DEF values, lo, hi
      <4> QED BY <3>2, <3>3, ReportExtremes
    <3>4. CASE /\ ~LeavesDeadBand(values, lo, hi, v)
               /\ lValues' = values
               /\ lMinValueIndex' = lo
               /\ lMaxValueIndex' = hi
      <4>1. lValues # <<>>
        BY <3>4 DEF LeavesDeadBand, Recorded
      <4>2. IsFirstMin(values, lo) /\ IsFirstMax(values, hi)
        BY <4>1, <3>1, ExtremesStep
      <4> HIDE DEF values, lo, hi
      <4>3. values # <<>>
        BY <3>2
      <4> QED BY <3>4, <4>2, <4>3 DEF ExtremesTracked, IsFirstMin, IsFirstMax
    <3> QED BY <2>1, <3>3, <3>4 DEF fStore
  <2>2. CASE fFlush
    <3>1. lValues \in Seq(timedValue) /\ Len(lValues) > 0
      BY <2>2 DEF fFlush, TypeOK
    <3> QED BY <2>2, <3>1, ReportExtremes DEF fFlush
  <2>3. CASE fSendValues
    BY <2>3 DEF fSendValues, ExtremesTracked, IsFirstMin, IsFirstMax
  <2>4. ASSUME NEW band \in DeadBands, fConfigure(band) PROVE ExtremesTracked'
    BY <2>4 DEF fConfigure, ExtremesTracked, IsFirstMin, IsFirstMax
  <2>5. CASE UNCHANGED vars
    BY <2>5 DEF vars, ExtremesTracked, IsFirstMin, IsFirstMax
  <2> QED BY <2>1, <2>2, <2>3, <2>4, <2>5 DEF Next
<1> QED BY <1>1, <1>2, TypeCorrect, PTL DEF Spec

-----------------------------------------------------------------------------
(* What goes into the stream: its order, the deadband, the envelope, and   *)
(* that it is a ValueStream.                                               *)

\* The stream after a report.
LEMMA ConcatFacts ==
  ASSUME NEW q \in Seq(timedValue), NEW p \in Seq(timedValue), Len(p) > 0
  PROVE  /\ q \o p \in Seq(timedValue)
         /\ Len(q \o p) = Len(q) + Len(p)
         /\ \A i \in 1..Len(q) : (q \o p)[i] = q[i]
         /\ \A i \in 1..Len(p) : (q \o p)[Len(q) + i] = p[i]
         /\ Last(q \o p) = Last(p)
         /\ q \o p # <<>>
<1>1. Len(q) \in Nat /\ Len(p) \in Nat
  BY LenProperties
<1>2. /\ q \o p \in Seq(timedValue)
      /\ Len(q \o p) = Len(q) + Len(p)
      /\ \A i \in 1..(Len(q) + Len(p)) :
           (q \o p)[i] = IF i <= Len(q) THEN q[i] ELSE p[i - Len(q)]
  BY ConcatProperties
<1>3. \A i \in 1..Len(q) : (q \o p)[i] = q[i]
  BY <1>1, <1>2
<1>4. \A i \in 1..Len(p) : (q \o p)[Len(q) + i] = p[i]
  <2> SUFFICES ASSUME NEW i \in 1..Len(p) PROVE (q \o p)[Len(q) + i] = p[i]
    OBVIOUS
  <2>1. /\ Len(q) + i \in 1..(Len(q) + Len(p))
        /\ ~(Len(q) + i <= Len(q))
        /\ Len(q) + i - Len(q) = i
    BY <1>1
  <2>2. (q \o p)[Len(q) + i] = p[Len(q) + i - Len(q)]
    BY <1>2, <2>1
  <2> QED BY <2>1, <2>2
<1>5. Last(q \o p) = Last(p)
  BY <1>1, <1>2, <1>4 DEF Last
<1>6. q \o p # <<>>
  BY <1>1, <1>2
<1> QED BY <1>2, <1>3, <1>4, <1>5, <1>6

\* Appending later samples keeps the order.
LEMMA ConcatInOrder ==
  ASSUME NEW q \in Seq(timedValue), NEW p \in Seq(timedValue), Len(p) > 0,
         InOrder(q), InOrder(p),
         q # <<>> => \A i \in 1..Len(p) : Last(q).lTime < p[i].lTime
  PROVE  InOrder(q \o p)
<1> DEFINE r == q \o p
           m == Len(q)
           n == Len(p)
<1>1. m \in Nat /\ n \in Nat /\ DOMAIN q = 1..m /\ DOMAIN p = 1..n
  BY LenProperties
<1>2. /\ DOMAIN r = 1..(m + n)
      /\ \A i \in 1..m : r[i] = q[i]
      /\ \A i \in 1..n : r[m + i] = p[i]
  <2>1. r \in Seq(timedValue) /\ Len(r) = m + n
    BY ConcatFacts
  <2>2. DOMAIN r = 1..Len(r)
    BY <2>1, LenProperties
  <2> QED BY <2>1, <2>2, ConcatFacts
<1>3. /\ \A i \in 1..m : q[i].lTime \in Int
      /\ \A i \in 1..n : p[i].lTime \in Int
  <2>1. \A x \in timedValue : x.lTime \in Int
    BY DEF timedValue
  <2>2. /\ \A i \in 1..m : q[i] \in timedValue
        /\ \A i \in 1..n : p[i] \in timedValue
    BY ElementOfSeq
  <2> QED BY <2>1, <2>2
<1>4. \A i \in 1..m, j \in 1..n : q[i].lTime < p[j].lTime
  <2> SUFFICES ASSUME NEW i \in 1..m, NEW j \in 1..n PROVE q[i].lTime < p[j].lTime
    OBVIOUS
  <2>1. q # <<>>
    BY <1>1
  <2>2. q[m].lTime < p[j].lTime
    BY <2>1 DEF Last
  <2>3. m \in 1..m
    BY <1>1
  <2>4. i = m \/ q[i].lTime < q[m].lTime
    <3>1. i \in DOMAIN q /\ m \in DOMAIN q /\ (i = m \/ i < m)
      <4> HIDE DEF m
      <4> QED BY <1>1, <2>3
    <3> QED BY <3>1 DEF InOrder
  <2>5. q[i].lTime \in Int /\ q[m].lTime \in Int /\ p[j].lTime \in Int
    BY <1>3, <2>3
  <2> HIDE DEF m
  <2> QED BY <2>2, <2>4, <2>5
<1> HIDE DEF r, m, n
<1>5. ASSUME NEW i \in 1..(m + n), NEW j \in 1..(m + n), i < j
      PROVE  r[i].lTime < r[j].lTime
  <2>1. CASE j <= m
    <3>1. i \in 1..m /\ j \in 1..m
      BY <1>1, <1>5, <2>1
    <3> QED BY <1>1, <1>2, <1>5, <3>1 DEF InOrder
  <2>2. CASE i <= m /\ m < j
    <3>1. i \in 1..m /\ j - m \in 1..n /\ j = m + (j - m)
      BY <1>1, <2>2
    <3>2. r[i] = q[i] /\ r[j] = p[j - m]
      BY <1>2, <3>1
    <3> QED BY <1>4, <3>1, <3>2
  <2>3. CASE m < i
    <3>1. i - m \in 1..n /\ j - m \in 1..n /\ i = m + (i - m) /\ j = m + (j - m)
      BY <1>1, <1>5, <2>3
    <3>2. r[m + (i - m)] = p[i - m] /\ r[m + (j - m)] = p[j - m]
      BY <1>2, <3>1
    <3>3. r[i] = p[i - m] /\ r[j] = p[j - m] /\ i - m < j - m
      BY <1>1, <1>5, <3>1, <3>2
    <3> QED BY <1>1, <3>1, <3>3 DEF InOrder
  <2> QED BY <1>1, <1>5, <2>1, <2>2, <2>3
<1> QED BY <1>2, <1>5 DEF InOrder, r

\* The parts of Queued.
LEMMA QueuedFacts ==
  ASSUME TypeOK
  PROVE  /\ Queued \in Seq(timedValue)
         /\ \A p \in Seq(timedValue) : table \o (lSendQueue \o p) = Queued \o p
<1>1. table \in Seq(timedValue) /\ lSendQueue \in Seq(timedValue)
  BY DEF TypeOK
<1>2. Queued \in Seq(timedValue)
  BY <1>1, ConcatProperties DEF Queued
<1>3. \A p \in Seq(timedValue) : table \o (lSendQueue \o p) = Queued \o p
  BY <1>1, ConcatAssociative DEF Queued
<1> QED BY <1>2, <1>3

\* Sending moves a sample from the queue to the table and leaves the stream alone.
LEMMA SendKeepsStream ==
  ASSUME TypeOK, fSendValues
  PROVE  Queued' = Queued
<1>1. /\ table \in Seq(timedValue) /\ lSendQueue \in Seq(timedValue)
      /\ lSendQueue # <<>>
  BY DEF TypeOK, fSendValues
<1> DEFINE h == Head(lSendQueue)
           t == Tail(lSendQueue)
<1>2. h \in timedValue /\ t \in Seq(timedValue)
  BY <1>1, HeadTailProperties
<1>3. lSendQueue = <<h>> \o t
  BY <1>1
<1>4. Append(table, h) = table \o <<h>>
  BY <1>1, <1>2
<1>5. <<h>> \in Seq(timedValue)
  BY <1>2
<1>6. (table \o <<h>>) \o t = table \o (<<h>> \o t)
  BY <1>1, <1>2, <1>5, ConcatAssociative
<1>7. table' = Append(table, h) /\ lSendQueue' = t
  BY DEF fSendValues
<1> QED BY <1>3, <1>4, <1>6, <1>7 DEF Queued

\* The inductive invariant of the order: nothing is queued before the first sample, and
\* no collected sample is from the future.
OrderInv == /\ StreamInOrder
            /\ lValues = <<>> => Queued = <<>>
            /\ \A i \in DOMAIN lValues : lValues[i].lTime <= clock

\* fStore collects in order and keeps the first sample.
LEMMA RecordedInOrder ==
  ASSUME TypeOK, OrderInv, NEW s \in timedValue, s.lTime = clock + 1
  PROVE  LET values == Recorded(s)
         IN  /\ InOrder(values)
             /\ \A i \in DOMAIN values : values[i].lTime <= clock + 1
             /\ lValues # <<>> => Len(values) > 1 /\ values[1] = lValues[1]
<1> DEFINE values == Recorded(s)
           n == Len(values)
           m == Len(lValues)
<1>1. /\ lValues \in Seq(timedValue)
      /\ m \in Nat
      /\ DOMAIN lValues = 1..m
      /\ lValues # <<>> => m > 0
  <2>1. lValues \in Seq(timedValue)
    BY DEF TypeOK
  <2> QED BY <2>1, LenProperties, EmptySeq
<1>2. /\ values \in Seq(timedValue)
      /\ n > 0
      /\ values[n] = s
      /\ n = m + 1 \/ (n = m /\ n > 2)
      /\ \A i \in 1..(n - 1) : values[i] = lValues[i]
  BY RecordedFacts DEF Last
<1> HIDE DEF values
<1>3. n \in Nat /\ DOMAIN values = 1..n
  BY <1>2, LenProperties
<1> HIDE DEF n, m
<1>4. \A i \in 1..(n - 1) : i \in 1..m /\ values[i] = lValues[i]
  BY <1>1, <1>2, <1>3
<1>5. \A i \in 1..m : lValues[i].lTime <= clock /\ lValues[i].lTime \in Int
  <2>1. \A i \in 1..m : lValues[i] \in timedValue
    BY <1>1, ElementOfSeq DEF m
  <2>2. \A x \in timedValue : x.lTime \in Int
    BY DEF timedValue
  <2> QED BY <1>1, <2>1, <2>2 DEF OrderInv
<1>6. clock \in Nat
  BY DEF TypeOK
<1>7. ASSUME NEW i \in 1..n, NEW j \in 1..n, i < j PROVE values[i].lTime < values[j].lTime
  <2>1. i \in 1..(n - 1)
    BY <1>3, <1>7
  <2>2. CASE j = n
    BY <1>2, <1>4, <1>5, <1>6, <2>1, <2>2
  <2>3. CASE j # n
    <3>1. j \in 1..(n - 1)
      BY <1>3, <2>3
    <3> QED BY <1>1, <1>4, <1>7, <2>1, <3>1 DEF OrderInv, StreamInOrder
  <2> QED BY <2>2, <2>3
<1>8. \A i \in 1..n : values[i].lTime <= clock + 1
  <2> SUFFICES ASSUME NEW i \in 1..n PROVE values[i].lTime <= clock + 1
    OBVIOUS
  <2>1. i = n \/ i \in 1..(n - 1)
    BY <1>3
  <2> QED BY <1>2, <1>4, <1>5, <1>6, <2>1
<1>9. lValues # <<>> => n > 1 /\ values[1] = lValues[1]
  BY <1>1, <1>2, <1>3
<1> QED BY <1>3, <1>7, <1>8, <1>9 DEF InOrder, values, n

\* A report continues the stream.
LEMMA ReportInOrder ==
  ASSUME TypeOK, StreamInOrder,
         NEW values \in Seq(timedValue), Len(values) > 0, InOrder(values),
         \A i \in DOMAIN values : values[i].lTime <= clock',
         NEW lo \in 0..(Len(values) - 1), NEW hi \in 0..(Len(values) - 1),
         Queued # <<>> => Len(values) > 1 /\ values[1] = Last(Queued),
         Report(values, lo, hi), table' = table
  PROVE  OrderInv'
<1> DEFINE p == Picked(values, lo, hi)
<1>1. /\ p \in Seq(timedValue)
      /\ Len(p) > 0
      /\ Last(p) = Last(values)
      /\ \A i \in 1..Len(p) : \E k \in 1..Len(values) :
           p[i] = values[k] /\ (k > 1 \/ Len(values) = 1)
      /\ InOrder(p)
  BY PickedFacts
<1>2. lSendQueue' = lSendQueue \o p /\ lValues' = <<Last(values)>>
  BY DEF Report
<1> HIDE DEF p
<1>3. Queued' = Queued \o p
  BY <1>1, <1>2, QueuedFacts DEF Queued
<1>4. Queued \in Seq(timedValue)
  BY QueuedFacts
<1>5. Len(values) \in Nat \ {0} /\ DOMAIN values = 1..Len(values)
  BY LenProperties
<1>6. Queued # <<>> => \A i \in 1..Len(p) : Last(Queued).lTime < p[i].lTime
  <2> SUFFICES ASSUME Queued # <<>>, NEW i \in 1..Len(p)
               PROVE  Last(Queued).lTime < p[i].lTime
    OBVIOUS
  <2>1. PICK k \in 1..Len(values) : p[i] = values[k] /\ k > 1
    BY <1>1, <1>5
  <2>2. values[1].lTime < values[k].lTime
    BY <1>5, <2>1 DEF InOrder
  <2> QED BY <2>1, <2>2
<1>7. InOrder(Queued)
  BY DEF StreamInOrder, InOrder
<1>8. InOrder(Queued')
  BY <1>1, <1>3, <1>4, <1>6, <1>7, ConcatInOrder
<1>9. Queued' # <<>> /\ Last(Queued') = Last(values)
  BY <1>1, <1>3, <1>4, ConcatFacts
<1>10. /\ lValues' # <<>>
       /\ DOMAIN lValues' = {1}
       /\ lValues'[1] = Last(values)
       /\ lValues'[1].lTime <= clock'
  BY <1>2, <1>5 DEF Last
<1> QED BY <1>8, <1>9, <1>10 DEF OrderInv, StreamInOrder, InOrder

LEMMA OrderInvariant == Spec => []OrderInv
<1>1. Init => OrderInv
  BY DEF Init, OrderInv, StreamInOrder, Queued
<1>2. TypeOK /\ OrderInv /\ [Next]_vars => OrderInv'
  <2> SUFFICES ASSUME TypeOK, OrderInv, [Next]_vars PROVE OrderInv'
    OBVIOUS
  <2>1. ASSUME NEW v \in Values, fStore(v) PROVE OrderInv'
    <3> DEFINE s      == [lTime |-> clock + 1, lValue |-> v]
               values == Recorded(s)
               lo     == MinIndex(values, v)
               hi     == MaxIndex(values, v)
    <3>1. s \in timedValue /\ s.lTime = clock + 1
      BY <2>1, ConstantsAssumption DEF fStore, timedValue, TypeOK
    <3>2. /\ values \in Seq(timedValue)
          /\ Len(values) > 0
          /\ InOrder(values)
          /\ \A i \in DOMAIN values : values[i].lTime <= clock + 1
          /\ lValues # <<>> => Len(values) > 1 /\ values[1] = lValues[1]
      BY <3>1, RecordedFacts, RecordedInOrder
    <3>3. lo \in 0..(Len(values) - 1) /\ hi \in 0..(Len(values) - 1)
      BY <3>1, IndexFacts
    <3>4. clock' = clock + 1 /\ table' = table
      BY <2>1 DEF fStore
    <3>5. \/ Report(values, lo, hi)
          \/ /\ ~LeavesDeadBand(values, lo, hi, v)
             /\ lValues' = values
             /\ UNCHANGED lSendQueue
      BY <2>1 DEF fStore
    <3> HIDE DEF values, lo, hi
    <3>6. CASE Report(values, lo, hi)
      <4>1. Queued # <<>> => Len(values) > 1 /\ values[1] = Last(Queued)
        BY <3>2 DEF OrderInv, StreamInOrder
      <4>2. \A i \in DOMAIN values : values[i].lTime <= clock'
        BY <3>2, <3>4
      <4>3. StreamInOrder
        BY DEF OrderInv
      <4> QED BY <3>2, <3>3, <3>4, <3>6, <4>1, <4>2, <4>3, ReportInOrder
    <3>7. CASE /\ ~LeavesDeadBand(values, lo, hi, v)
               /\ lValues' = values
               /\ UNCHANGED lSendQueue
      <4>1. lValues # <<>>
        <5>1. Len(values) # 1
          BY <3>7 DEF LeavesDeadBand
        <5> QED BY <5>1 DEF Recorded, values
      <4>2. Queued' = Queued
        BY <3>4, <3>7 DEF Queued
      <4>3. lValues' # <<>>
        BY <3>2, <3>7
      <4> QED BY <3>2, <3>4, <3>7, <4>1, <4>2, <4>3 DEF OrderInv, StreamInOrder, InOrder
    <3> QED BY <3>5, <3>6, <3>7
  <2>2. CASE fFlush
    <3>1. /\ Len(lValues) > 1
          /\ Report(lValues, lMinValueIndex, lMaxValueIndex)
          /\ table' = table
          /\ clock' = clock
      BY <2>2 DEF fFlush
    <3>2. /\ lValues \in Seq(timedValue)
          /\ lMinValueIndex \in 0..(Len(lValues) - 1)
          /\ lMaxValueIndex \in 0..(Len(lValues) - 1)
      BY <3>1 DEF TypeOK, IndexInto
    <3>3. StreamInOrder /\ InOrder(lValues)
      BY DEF OrderInv, StreamInOrder, InOrder
    <3>4. lValues # <<>>
      BY <3>1
    <3>5. lValues[1] = Last(Queued)
      BY <3>3, <3>4 DEF StreamInOrder
    <3>6. \A i \in DOMAIN lValues : lValues[i].lTime <= clock'
      BY <3>1 DEF OrderInv
    <3> QED BY <3>1, <3>2, <3>3, <3>5, <3>6, ReportInOrder
  <2>3. CASE fSendValues
    <3>1. Queued' = Queued
      BY <2>3, SendKeepsStream
    <3>2. lValues' = lValues /\ clock' = clock
      BY <2>3 DEF fSendValues
    <3> QED BY <3>1, <3>2 DEF OrderInv, StreamInOrder
  <2>4. ASSUME NEW band \in DeadBands, fConfigure(band) PROVE OrderInv'
    BY <2>4 DEF fConfigure, OrderInv, StreamInOrder, Queued
  <2>5. CASE UNCHANGED vars
    BY <2>5 DEF vars, OrderInv, StreamInOrder, Queued
  <2> QED BY <2>1, <2>2, <2>3, <2>4, <2>5 DEF Next
<1> QED BY <1>1, <1>2, TypeCorrect, PTL DEF Spec

\* StreamInOrder: nothing is reported twice or out of order.
THEOREM StreamIsInOrder == Spec => []StreamInOrder
<1>1. OrderInv => StreamInOrder
  BY DEF OrderInv
<1> QED BY <1>1, OrderInvariant, PTL

\* A sample that stays inside the deadband is close to the first collected one, which
\* is between the extremes.
LEMMA InsideDeadBand ==
  ASSUME NEW values \in Seq(timedValue), Len(values) > 0, lDeadBand \in DeadBands,
         NEW lo \in Nat, NEW hi \in Nat, NEW v \in Values,
         IsFirstMin(values, lo), IsFirstMax(values, hi),
         ~LeavesDeadBand(values, lo, hi, v)
  PROVE  v - values[1].lValue < lDeadBand /\ values[1].lValue - v < lDeadBand
<1>1. DOMAIN values = 1..Len(values) /\ 1 \in 1..Len(values)
  BY LenProperties
<1>2. values[lo + 1].lValue <= values[1].lValue /\ values[1].lValue <= values[hi + 1].lValue
  BY <1>1 DEF IsFirstMin, IsFirstMax
<1>3. /\ values[1].lValue \in Int
      /\ values[lo + 1].lValue \in Int
      /\ values[hi + 1].lValue \in Int
  <2>1. lo + 1 \in 1..Len(values) /\ hi + 1 \in 1..Len(values)
    BY <1>1 DEF IsFirstMin, IsFirstMax
  <2>2. /\ values[1] \in timedValue
        /\ values[lo + 1] \in timedValue
        /\ values[hi + 1] \in timedValue
    BY <1>1, <2>1, ElementOfSeq
  <2> QED BY <2>2, ConstantsAssumption DEF timedValue
<1>4. v \in Int /\ lDeadBand \in Int
  BY ConstantsAssumption
<1>5. v < values[lo + 1].lValue + lDeadBand /\ v > values[hi + 1].lValue - lDeadBand
  BY <1>3, <1>4 DEF LeavesDeadBand
<1>6. \A least, first, most, d, x \in Int :
        /\ least <= first /\ first <= most
        /\ x < least + d /\ x > most - d
        => x - first < d /\ first - x < d
  OBVIOUS
<1> QED BY <1>2, <1>3, <1>4, <1>5, <1>6

\* DeadBandHonoured: the last reported value is within the deadband of the stored one.
THEOREM DeadBandIsHonoured == Spec => DeadBandHonoured
<1> DEFINE Close ==
             clock' # clock =>
               LET reported == Last(Queued').lValue
                   stored   == Last(lValues').lValue
               IN  \/ stored = reported
                   \/ stored - reported < lDeadBand' /\ reported - stored < lDeadBand'
<1>1. TypeOK /\ ExtremesTracked /\ OrderInv /\ OrderInv' /\ [Next]_vars => [Close]_vars
  <2> SUFFICES ASSUME TypeOK, ExtremesTracked, OrderInv, OrderInv', [Next]_vars,
                      clock' # clock
               PROVE  \/ Last(lValues').lValue = Last(Queued').lValue
                      \/ /\ Last(lValues').lValue - Last(Queued').lValue < lDeadBand'
                         /\ Last(Queued').lValue - Last(lValues').lValue < lDeadBand'
    OBVIOUS
  <2>1. PICK v \in Values : fStore(v)
    BY DEF Next, vars, fFlush, fSendValues, fConfigure
  <2> DEFINE s      == [lTime |-> clock + 1, lValue |-> v]
             values == Recorded(s)
             lo     == MinIndex(values, v)
             hi     == MaxIndex(values, v)
  <2>2. s \in timedValue /\ s.lTime = clock + 1 /\ s.lValue = v
    BY <2>1, ConstantsAssumption DEF fStore, timedValue, TypeOK
  <2>3. values \in Seq(timedValue) /\ Len(values) > 0 /\ Last(values) = s
    BY <2>2, RecordedFacts
  <2>4. lo \in Nat /\ hi \in Nat
    <3>1. lo \in 0..(Len(values) - 1) /\ hi \in 0..(Len(values) - 1)
      BY <2>2, IndexFacts
    <3> HIDE DEF values, lo, hi
    <3> QED BY <3>1
  <2>5. /\ lDeadBand' = lDeadBand /\ lDeadBand \in DeadBands /\ table' = table
        /\ \/ Report(values, lo, hi)
           \/ /\ ~LeavesDeadBand(values, lo, hi, v)
              /\ lValues' = values
              /\ UNCHANGED lSendQueue
    BY <2>1 DEF fStore, TypeOK
  <2>6. lValues # <<>> => IsFirstMin(values, lo) /\ IsFirstMax(values, hi)
    BY <2>2, ExtremesStep
  <2>7. lValues = <<>> => Len(values) = 1
    BY DEF Recorded
  <2> HIDE DEF s, values, lo, hi
  <2>8. lValues' # <<>> => lValues'[1] = Last(Queued')
    BY DEF OrderInv, StreamInOrder
  <2>9. CASE Report(values, lo, hi)
    <3>1. lValues' = <<Last(values)>>
      BY <2>9 DEF Report
    <3>2. lValues' # <<>> /\ Last(lValues') = lValues'[1]
      BY <3>1 DEF Last
    <3> QED BY <2>8, <3>2
  <2>10. CASE /\ ~LeavesDeadBand(values, lo, hi, v)
              /\ lValues' = values
              /\ UNCHANGED lSendQueue
    <3>1. Len(values) # 1
      BY <2>10 DEF LeavesDeadBand
    <3>2. /\ v - values[1].lValue < lDeadBand
          /\ values[1].lValue - v < lDeadBand
      <4>1. IsFirstMin(values, lo) /\ IsFirstMax(values, hi)
        BY <2>6, <2>7, <3>1
      <4>2. ~LeavesDeadBand(values, lo, hi, v)
        BY <2>10
      <4>3. v \in Values
        BY <2>1
      <4> QED BY <2>3, <2>4, <2>5, <4>1, <4>2, <4>3, InsideDeadBand
    <3>3. lValues' # <<>>
      BY <2>3, <2>10
    <3>4. Last(lValues').lValue = v /\ Last(Queued').lValue = values[1].lValue
      BY <2>2, <2>3, <2>8, <2>10, <3>3
    <3> QED BY <2>5, <3>2, <3>4
  <2> QED BY <2>5, <2>9, <2>10
<1> QED BY <1>1, TypeCorrect, ExtremesAreTracked, OrderInvariant, PTL
        DEF Spec, DeadBandHonoured

\* Every sample stored since the last report lies between the collected extremes.
SinceInv == /\ lValues = <<>> => since = {}
            /\ lValues # <<>> =>
                 \A s \in since : /\ lValues[lMinValueIndex + 1].lValue <= s.lValue
                                  /\ s.lValue <= lValues[lMaxValueIndex + 1].lValue

\* Recording a sample widens the extremes, so they still enclose the earlier ones.
LEMMA ExtremesWiden ==
  ASSUME TypeOK, ExtremesTracked, SinceInv, lValues # <<>>, NEW s \in timedValue
  PROVE  LET values == Recorded(s)
             least  == values[MinIndex(values, s.lValue) + 1].lValue
             most   == values[MaxIndex(values, s.lValue) + 1].lValue
         IN  \A x \in since \cup {s} : least <= x.lValue /\ x.lValue <= most
<1> DEFINE values == Recorded(s)
           lo     == MinIndex(values, s.lValue)
           hi     == MaxIndex(values, s.lValue)
           least  == values[lo + 1].lValue
           most   == values[hi + 1].lValue
           least0 == lValues[lMinValueIndex + 1].lValue
           most0  == lValues[lMaxValueIndex + 1].lValue
<1>1. /\ lMinValueIndex + 1 \in 1..Len(lValues)
      /\ lMaxValueIndex + 1 \in 1..Len(lValues)
  BY IndicesInRange
<1>2. /\ values[lMinValueIndex + 1].lValue = least0
      /\ values[lMaxValueIndex + 1].lValue = most0
      /\ least0 \in Int /\ most0 \in Int
  BY <1>1, RecordedValues
<1>3. values \in Seq(timedValue) /\ Len(values) > 0 /\ Last(values) = s
  BY RecordedFacts
<1>4. /\ lo = IF s.lValue < least0 THEN Len(values) - 1 ELSE lMinValueIndex
      /\ hi = IF s.lValue > most0 THEN Len(values) - 1 ELSE lMaxValueIndex
  BY <1>2 DEF MinIndex, MaxIndex
<1> HIDE DEF values, lo, hi, least0, most0
<1>5. values[Len(values)] = s /\ Len(values) - 1 + 1 = Len(values)
  BY <1>3, LenProperties DEF Last
<1>6. /\ least = IF s.lValue < least0 THEN s.lValue ELSE least0
      /\ most = IF s.lValue > most0 THEN s.lValue ELSE most0
  BY <1>2, <1>4, <1>5
<1> HIDE DEF least, most
<1>7. s.lValue \in Int /\ \A x \in since : x.lValue \in Int
  BY ConstantsAssumption DEF TypeOK, timedValue
<1>8. \A x \in since : least0 <= x.lValue /\ x.lValue <= most0
  BY DEF SinceInv, least0, most0
<1>9. \A x \in since \cup {s} : least <= x.lValue /\ x.lValue <= most
  BY <1>2, <1>6, <1>7, <1>8
<1> QED BY <1>9 DEF least, most, lo, hi, values

\* After a report only its last sample counts.
LEMMA ReportSince ==
  ASSUME NEW values \in Seq(timedValue), Len(values) > 0, NEW lo, NEW hi,
         Report(values, lo, hi)
  PROVE  SinceInv'
<1>1. Last(values) \in timedValue
  BY LenProperties DEF Last
<1>2. Last(values).lValue \in Int
  BY <1>1, ConstantsAssumption DEF timedValue
<1> QED BY <1>2 DEF Report, SinceInv

LEMMA SinceInvariant == Spec => []SinceInv
<1>1. Init => SinceInv
  BY DEF Init, SinceInv
<1>2. TypeOK /\ ExtremesTracked /\ SinceInv /\ [Next]_vars => SinceInv'
  <2> SUFFICES ASSUME TypeOK, ExtremesTracked, SinceInv, [Next]_vars PROVE SinceInv'
    OBVIOUS
  <2>1. ASSUME NEW v \in Values, fStore(v) PROVE SinceInv'
    <3> DEFINE s      == [lTime |-> clock + 1, lValue |-> v]
               values == Recorded(s)
               lo     == MinIndex(values, v)
               hi     == MaxIndex(values, v)
    <3>1. s \in timedValue /\ s.lValue = v
      BY <2>1, ConstantsAssumption DEF fStore, timedValue, TypeOK
    <3>2. values \in Seq(timedValue) /\ Len(values) > 0
      BY <3>1, RecordedFacts
    <3>3. CASE Report(values, lo, hi)
      <4> HIDE DEF values, lo, hi
      <4> QED BY <3>2, <3>3, ReportSince
    <3>4. CASE /\ ~LeavesDeadBand(values, lo, hi, v)
               /\ lValues' = values
               /\ lMinValueIndex' = lo
               /\ lMaxValueIndex' = hi
               /\ since' = since \cup {s}
      <4>1. lValues # <<>>
        BY <3>4 DEF LeavesDeadBand, Recorded
      <4>2. \A x \in since \cup {s} : /\ values[lo + 1].lValue <= x.lValue
                                      /\ x.lValue <= values[hi + 1].lValue
        BY <4>1, <3>1, ExtremesWiden
      <4> HIDE DEF values, lo, hi, s
      <4>3. values # <<>>
        BY <3>2
      <4> QED BY <3>4, <4>2, <4>3 DEF SinceInv
    <3> QED BY <2>1, <3>3, <3>4 DEF fStore
  <2>2. CASE fFlush
    <3>1. lValues \in Seq(timedValue) /\ Len(lValues) > 0
      BY <2>2 DEF fFlush, TypeOK
    <3> QED BY <2>2, <3>1, ReportSince DEF fFlush
  <2>3. CASE fSendValues
    BY <2>3 DEF fSendValues, SinceInv
  <2>4. ASSUME NEW band \in DeadBands, fConfigure(band) PROVE SinceInv'
    BY <2>4 DEF fConfigure, SinceInv
  <2>5. CASE UNCHANGED vars
    BY <2>5 DEF vars, SinceInv
  <2> QED BY <2>1, <2>2, <2>3, <2>4, <2>5 DEF Next
<1> QED BY <1>1, <1>2, TypeCorrect, ExtremesAreTracked, PTL DEF Spec

\* The extremes of what a report replaces are in the stream, either in the report or
\* as the last sample of the one before.
LEMMA ReportShowsExtremes ==
  ASSUME TypeOK, NEW values \in Seq(timedValue), Len(values) > 0,
         NEW lo \in 0..(Len(values) - 1), NEW hi \in 0..(Len(values) - 1),
         Queued # <<>>, values[1] = Last(Queued),
         Report(values, lo, hi), table' = table
  PROVE  LET late == Len(Queued)..Len(Queued')
         IN  /\ \E i \in late : Queued'[i] = values[lo + 1]
             /\ \E i \in late : Queued'[i] = values[hi + 1]
             /\ \E i \in late : Queued'[i] = Last(values)
<1> DEFINE p == Picked(values, lo, hi)
           m == Len(Queued)
           n == Len(p)
<1>1. /\ p \in Seq(timedValue)
      /\ n > 0
      /\ Last(p) = Last(values)
      /\ lo > 0 => \E i \in 1..n : p[i] = values[lo + 1]
      /\ hi > 0 => \E i \in 1..n : p[i] = values[hi + 1]
  BY PickedFacts
<1>2. lSendQueue' = lSendQueue \o p
  BY DEF Report
<1> HIDE DEF p
<1>3. Queued' = Queued \o p /\ Queued \in Seq(timedValue)
  BY <1>1, <1>2, QueuedFacts DEF Queued
<1>4. m \in Nat \ {0} /\ n \in Nat \ {0}
  BY <1>1, <1>3, EmptySeq, LenProperties
<1>5. /\ Len(Queued') = m + n
      /\ Queued'[m] = values[1]
      /\ \A i \in 1..n : Queued'[m + i] = p[i]
  BY <1>1, <1>3, <1>4, ConcatFacts DEF Last
<1> HIDE DEF m, n
<1>6. m \in m..(m + n) /\ \A i \in 1..n : m + i \in m..(m + n)
  BY <1>4
<1>7. \A i \in 1..n : \E j \in m..(m + n) : Queued'[j] = p[i]
  BY <1>5, <1>6
<1>8. p[n] = Last(values) /\ n \in 1..n
  BY <1>1, <1>4 DEF Last, n
<1>9. \E j \in m..(m + n) : Queued'[j] = Last(values)
  BY <1>7, <1>8
<1>10. \E j \in m..(m + n) : Queued'[j] = values[lo + 1]
  <2>1. CASE lo = 0
    BY <1>5, <1>6, <2>1
  <2>2. CASE lo # 0
    BY <1>1, <1>7, <2>2
  <2> QED BY <2>1, <2>2
<1>11. \E j \in m..(m + n) : Queued'[j] = values[hi + 1]
  <2>1. CASE hi = 0
    BY <1>5, <1>6, <2>1
  <2>2. CASE hi # 0
    BY <1>1, <1>7, <2>2
  <2> QED BY <2>1, <2>2
<1> QED BY <1>5, <1>9, <1>10, <1>11 DEF m

\* A report encloses what it replaces, from the last sample of the report before on.
LEMMA ReportEncloses ==
  ASSUME TypeOK, NEW values \in Seq(timedValue), Len(values) > 0,
         NEW lo \in 0..(Len(values) - 1), NEW hi \in 0..(Len(values) - 1),
         Queued # <<>>, values[1] = Last(Queued),
         Report(values, lo, hi), table' = table,
         \A s \in since : /\ values[lo + 1].lValue <= s.lValue
                          /\ s.lValue <= values[hi + 1].lValue
  PROVE  LET visible == {Queued'[i].lValue : i \in Len(Queued)..Len(Queued')}
         IN  \A s \in since \cup since' :
               \E low, high \in visible : low <= s.lValue /\ s.lValue <= high
<1> DEFINE visible == {Queued'[i].lValue : i \in Len(Queued)..Len(Queued')}
<1>1. /\ values[lo + 1].lValue \in visible
      /\ values[hi + 1].lValue \in visible
      /\ Last(values).lValue \in visible
  BY ReportShowsExtremes
<1>2. since' = {Last(values)}
  BY DEF Report
<1>3. Last(values).lValue \in Int
  <2>1. Last(values) \in timedValue
    BY LenProperties DEF Last
  <2> QED BY <2>1, ConstantsAssumption DEF timedValue
<1> HIDE DEF visible
<1>4. ASSUME NEW s \in since \cup since'
      PROVE  \E low, high \in visible : low <= s.lValue /\ s.lValue <= high
  <2>1. CASE s \in since
    BY <1>1, <2>1
  <2>2. CASE s = Last(values)
    BY <1>1, <1>3, <2>2
  <2> QED BY <1>2, <1>4, <2>1, <2>2
<1> QED BY <1>4 DEF visible

\* EnvelopeReported: what a report leaves out lies between samples of the stream.
THEOREM EnvelopeIsReported == Spec => EnvelopeReported
<1> DEFINE Enclosed ==
             Len(Queued') > Len(Queued) /\ Queued # <<>> =>
               LET visible == {Queued'[i].lValue : i \in Len(Queued)..Len(Queued')}
               IN  \A s \in since \cup since' :
                     \E low, high \in visible : low <= s.lValue /\ s.lValue <= high
<1>1. TypeOK /\ ExtremesTracked /\ OrderInv /\ SinceInv /\ [Next]_vars => [Enclosed]_vars
  <2> SUFFICES ASSUME TypeOK, ExtremesTracked, OrderInv, SinceInv, [Next]_vars,
                      Len(Queued') > Len(Queued), Queued # <<>>
               PROVE  LET visible == {Queued'[i].lValue : i \in Len(Queued)..Len(Queued')}
                      IN  \A s \in since \cup since' :
                            \E low, high \in visible : low <= s.lValue /\ s.lValue <= high
    OBVIOUS
  <2>1. Queued' # Queued
    <3>1. Len(Queued) \in Nat
      BY QueuedFacts, LenProperties
    <3> QED BY <3>1
  <2>2. lValues # <<>> /\ lValues[1] = Last(Queued)
    BY DEF OrderInv, StreamInOrder
  <2>3. ASSUME NEW v \in Values, fStore(v)
        PROVE  LET visible == {Queued'[i].lValue : i \in Len(Queued)..Len(Queued')}
               IN  \A s \in since \cup since' :
                     \E low, high \in visible : low <= s.lValue /\ s.lValue <= high
    <3> DEFINE s      == [lTime |-> clock + 1, lValue |-> v]
               values == Recorded(s)
               lo     == MinIndex(values, v)
               hi     == MaxIndex(values, v)
    <3>1. s \in timedValue /\ s.lTime = clock + 1 /\ s.lValue = v
      BY <2>3, ConstantsAssumption DEF fStore, timedValue, TypeOK
    <3>2. values \in Seq(timedValue) /\ Len(values) > 0
      BY <3>1, RecordedFacts
    <3>3. lo \in 0..(Len(values) - 1) /\ hi \in 0..(Len(values) - 1)
      BY <3>1, IndexFacts
    <3>4. values[1] = Last(Queued)
      BY <2>2, <3>1, RecordedInOrder
    <3>5. \A x \in since : /\ values[lo + 1].lValue <= x.lValue
                           /\ x.lValue <= values[hi + 1].lValue
      BY <2>2, <3>1, ExtremesWiden
    <3>6. Report(values, lo, hi) /\ table' = table
      BY <2>1, <2>3 DEF fStore, Queued
    <3> HIDE DEF values, lo, hi
    <3> QED BY <3>2, <3>3, <3>4, <3>5, <3>6, ReportEncloses
  <2>4. CASE fFlush
    <3>1. /\ lValues \in Seq(timedValue)
          /\ Len(lValues) > 0
          /\ lMinValueIndex \in 0..(Len(lValues) - 1)
          /\ lMaxValueIndex \in 0..(Len(lValues) - 1)
      BY <2>2, IndicesInRange
    <3>2. /\ Report(lValues, lMinValueIndex, lMaxValueIndex)
          /\ table' = table
      BY <2>4 DEF fFlush
    <3>3. \A x \in since : /\ lValues[lMinValueIndex + 1].lValue <= x.lValue
                           /\ x.lValue <= lValues[lMaxValueIndex + 1].lValue
      BY <2>2 DEF SinceInv
    <3> QED BY <2>2, <3>1, <3>2, <3>3, ReportEncloses
  <2>5. ~fSendValues
    BY <2>1, SendKeepsStream
  <2>6. ~(\E band \in DeadBands : fConfigure(band)) /\ ~UNCHANGED vars
    BY <2>1 DEF fConfigure, vars, Queued
  <2> QED BY <2>3, <2>4, <2>5, <2>6 DEF Next
<1> QED BY <1>1, TypeCorrect, ExtremesAreTracked, OrderInvariant, SinceInvariant, PTL
        DEF Spec, EnvelopeReported

\* The abstract variables of Stream.
Newest == IF lValues = <<>> THEN NoSample ELSE Last(lValues)

\* A report appends to the stream and ends in the newest sample.
LEMMA ReportRefines ==
  ASSUME TypeOK, NEW values \in Seq(timedValue), Len(values) > 0,
         NEW lo \in 0..(Len(values) - 1), NEW hi \in 0..(Len(values) - 1),
         Report(values, lo, hi), table' = table
  PROVE  /\ Len(Queued') > Len(Queued)
         /\ SubSeq(Queued', 1, Len(Queued)) = Queued
         /\ Queued'[Len(Queued')] = Newest'
         /\ Newest' = Last(values)
<1> DEFINE p == Picked(values, lo, hi)
<1>1. p \in Seq(timedValue) /\ Len(p) > 0 /\ Last(p) = Last(values)
  BY PickedFacts
<1>2. lSendQueue' = lSendQueue \o p /\ lValues' = <<Last(values)>>
  BY DEF Report
<1> HIDE DEF p
<1>3. Queued' = Queued \o p /\ Queued \in Seq(timedValue)
  BY <1>1, <1>2, QueuedFacts DEF Queued
<1>4. /\ Queued' \in Seq(timedValue)
      /\ Len(Queued') = Len(Queued) + Len(p)
      /\ \A i \in 1..Len(Queued) : Queued'[i] = Queued[i]
      /\ Last(Queued') = Last(p)
  BY <1>1, <1>3, ConcatFacts
<1>5. Len(Queued) \in Nat /\ Len(p) \in Nat
  BY <1>1, <1>3, LenProperties
<1>6. Len(Queued') > Len(Queued)
  BY <1>1, <1>4, <1>5
<1>7. Newest' = Last(values)
  BY <1>2 DEF Newest, Last
<1>8. Queued'[Len(Queued')] = Newest'
  BY <1>1, <1>4, <1>7 DEF Last
<1>9. SubSeq(Queued', 1, Len(Queued)) = Queued
  <2> DEFINE q == SubSeq(Queued', 1, Len(Queued))
  <2>1. \A i \in 1..Len(Queued) : Queued'[i] \in timedValue
    BY <1>3, <1>4, ElementOfSeq
  <2>2. /\ q \in Seq(timedValue)
        /\ Len(q) = Len(Queued)
        /\ \A i \in 1..Len(Queued) : q[i] = Queued[i]
    BY <1>4, <1>5, <2>1, SubSeqProperties
  <2> HIDE DEF q
  <2>3. q = Queued
    BY <1>3, <2>2, SeqEqual
  <2> QED BY <2>3 DEF q
<1> QED BY <1>6, <1>7, <1>8, <1>9

\* A new sample is later than everything in the stream.
LEMMA NewSampleIsFresh ==
  ASSUME TypeOK, OrderInv, NEW s \in timedValue, s.lTime = clock + 1
  PROVE  s # Newest /\ \A i \in 1..Len(Queued) : Queued[i] # s
<1>1. clock \in Nat
  BY DEF TypeOK
<1>2. s # Newest
  <2>1. CASE lValues = <<>>
    <3>1. Newest.lTime = 0
      BY <2>1 DEF Newest, NoSample
    <3> QED BY <1>1, <3>1
  <2>2. CASE lValues # <<>>
    <3>1. Len(lValues) \in DOMAIN lValues
      BY <2>2, IndicesInRange
    <3>2. Newest.lTime <= clock /\ Newest \in timedValue
      BY <2>2, <3>1, IndicesInRange, ElementOfSeq DEF Newest, Last, OrderInv
    <3>3. Newest.lTime \in Int
      BY <3>2 DEF timedValue
    <3> QED BY <1>1, <3>2, <3>3
  <2> QED BY <2>1, <2>2
<1>3. ASSUME NEW i \in 1..Len(Queued) PROVE Queued[i] # s
  <2>1. /\ Queued \in Seq(timedValue)
        /\ Len(Queued) \in Nat \ {0}
        /\ DOMAIN Queued = 1..Len(Queued)
    BY QueuedFacts, LenProperties
  <2>2. Queued # <<>>
    BY <2>1
  <2>3. lValues # <<>> /\ lValues[1] = Last(Queued)
    BY <2>2 DEF OrderInv, StreamInOrder
  <2>4. lValues[1].lTime <= clock
    BY <2>3, IndicesInRange DEF OrderInv
  <2>5. Last(Queued).lTime <= clock
    BY <2>3, <2>4
  <2>6. Queued[i].lTime \in Int /\ Last(Queued).lTime \in Int
    <3>1. \A x \in timedValue : x.lTime \in Int
      BY DEF timedValue
    <3>2. Len(Queued) \in 1..Len(Queued)
      BY <2>1
    <3>3. Queued[i] \in timedValue /\ Queued[Len(Queued)] \in timedValue
      BY <2>1, <3>2, ElementOfSeq
    <3> QED BY <3>1, <3>3 DEF Last
  <2>7. i = Len(Queued) \/ Queued[i].lTime < Last(Queued).lTime
    <3> DEFINE m == Len(Queued)
    <3>1. m \in DOMAIN Queued /\ i \in DOMAIN Queued /\ (i = m \/ i < m)
      <4>1. m \in Nat \ {0} /\ i \in 1..m /\ DOMAIN Queued = 1..m
        BY <2>1
      <4> HIDE DEF m
      <4> QED BY <4>1
    <3> QED BY <3>1 DEF OrderInv, StreamInOrder, Last
  <2>8. Queued[i].lTime <= clock
    BY <1>1, <2>5, <2>6, <2>7 DEF Last
  <2> QED BY <1>1, <2>6, <2>8
<1> QED BY <1>2, <1>3

\* The compression implements ValueStream: what is reported is a stream that only grows
\* at its end, a flush reports only what has not been reported, and the rows are a
\* prefix of it.
THEOREM SparsifierImplementsStream == Spec => ImplementsValueStream
<1>1. Init => Stream!Init
  BY DEF Init, Stream!Init, Queued
<1>2. TypeOK /\ OrderInv /\ [Next]_vars => [Stream!Next]_(Stream!vars)
  <2> SUFFICES ASSUME TypeOK, OrderInv, [Next]_vars
               PROVE  Stream!Next \/ UNCHANGED Stream!vars
    OBVIOUS
  <2>1. ASSUME NEW v \in Values, fStore(v) PROVE Stream!Next
    <3> DEFINE s      == [lTime |-> clock + 1, lValue |-> v]
               values == Recorded(s)
               lo     == MinIndex(values, v)
               hi     == MaxIndex(values, v)
    <3>1. s \in timedValue /\ s.lTime = clock + 1 /\ s.lValue = v
      BY <2>1, ConstantsAssumption DEF fStore, timedValue, TypeOK
    <3>2. values \in Seq(timedValue) /\ Len(values) > 0 /\ Last(values) = s
      BY <3>1, RecordedFacts
    <3>3. lo \in 0..(Len(values) - 1) /\ hi \in 0..(Len(values) - 1)
      BY <3>1, IndexFacts
    <3>4. s # Newest /\ \A i \in 1..Len(Queued) : Queued[i] # s
      BY <3>1, NewSampleIsFresh
    <3>5. table' = table
      BY <2>1 DEF fStore
    <3>6. \/ Report(values, lo, hi)
          \/ /\ ~LeavesDeadBand(values, lo, hi, v)
             /\ lValues' = values
             /\ UNCHANGED lSendQueue
      BY <2>1 DEF fStore
    <3>7. lValues = <<>> => Len(values) = 1
      BY DEF Recorded
    <3> HIDE DEF s, values, lo, hi
    <3>8. Stream!Fresh(s)
      BY <3>4 DEF Stream!Fresh, Newest
    <3>9. CASE Report(values, lo, hi)
      <4>1. /\ Len(Queued') > Len(Queued)
            /\ SubSeq(Queued', 1, Len(Queued)) = Queued
            /\ Queued'[Len(Queued')] = Newest'
            /\ Newest' = s
        BY <3>2, <3>3, <3>5, <3>9, ReportRefines
      <4>2. Stream!Report
        BY <4>1 DEF Stream!Report, Newest
      <4>3. Stream!StoreAndReport(s)
        BY <3>5, <3>8, <4>1, <4>2 DEF Stream!StoreAndReport, Newest
      <4> QED BY <3>1, <4>3 DEF Stream!Next
    <3>10. CASE /\ ~LeavesDeadBand(values, lo, hi, v)
                /\ lValues' = values
                /\ UNCHANGED lSendQueue
      <4>1. lValues # <<>>
        BY <3>7, <3>10 DEF LeavesDeadBand
      <4>2. Newest # NoSample
        <5>1. Last(lValues) \in timedValue
          BY <4>1, IndicesInRange, ElementOfSeq DEF Last
        <5>2. Last(lValues).lTime # 0
          BY <5>1, ConstantsAssumption DEF timedValue
        <5> QED BY <4>1, <5>2 DEF Newest, NoSample
      <4>3. Newest' = s
        BY <3>2, <3>10 DEF Newest
      <4>4. Queued' = Queued
        BY <3>5, <3>10 DEF Queued
      <4>5. Stream!Hold(s)
        BY <3>5, <3>8, <4>2, <4>3, <4>4 DEF Stream!Hold, Newest
      <4> QED BY <3>1, <4>5 DEF Stream!Next
    <3> QED BY <3>6, <3>9, <3>10
  <2>2. CASE fFlush
    <3>1. /\ Len(lValues) > 1
          /\ lValues # <<>>
          /\ Report(lValues, lMinValueIndex, lMaxValueIndex)
          /\ table' = table
      BY <2>2 DEF fFlush
    <3>2. /\ lValues \in Seq(timedValue)
          /\ Len(lValues) \in Nat \ {0}
          /\ DOMAIN lValues = 1..Len(lValues)
          /\ lMinValueIndex \in 0..(Len(lValues) - 1)
          /\ lMaxValueIndex \in 0..(Len(lValues) - 1)
      BY <3>1, IndicesInRange
    <3>3. /\ Len(Queued') > Len(Queued)
          /\ SubSeq(Queued', 1, Len(Queued)) = Queued
          /\ Queued'[Len(Queued')] = Newest'
          /\ Newest' = Last(lValues)
      BY <3>1, <3>2, ReportRefines
    <3>4. Newest = Last(lValues) /\ Newest # NoSample
      <4>1. Last(lValues) \in timedValue
        BY <3>2, ElementOfSeq DEF Last
      <4>2. Last(lValues).lTime # 0
        BY <4>1, ConstantsAssumption DEF timedValue
      <4> QED BY <3>1, <4>2 DEF Newest, NoSample
    <3>5. lValues[1] = Last(Queued)
      BY <3>1 DEF OrderInv, StreamInOrder
    <3>6. lValues[1].lTime < Last(lValues).lTime
      BY <3>1, <3>2 DEF OrderInv, StreamInOrder, Last
    <3>7. Last(Queued) # Newest
      <4>1. Len(lValues) \in 1..Len(lValues)
        BY <3>2
      <4>2. lValues[Len(lValues)] \in timedValue
        BY <3>2, <4>1, ElementOfSeq
      <4>3. Last(lValues).lTime \in Int
        BY <4>2 DEF timedValue, Last
      <4> QED BY <3>4, <3>5, <3>6, <4>3
    <3>8. Stream!Unsent
      BY <3>4, <3>7 DEF Stream!Unsent, Newest, Last
    <3>9. Stream!Report
      BY <3>3 DEF Stream!Report, Newest
    <3>10. Stream!Flush
      BY <3>1, <3>3, <3>4, <3>8, <3>9 DEF Stream!Flush, Newest
    <3> QED BY <3>10 DEF Stream!Next
  <2>3. CASE fSendValues
    <3>1. Queued' = Queued
      BY <2>3, SendKeepsStream
    <3>2. Newest' = Newest
      BY <2>3 DEF fSendValues, Newest
    <3>3. Len(table) < Len(Queued) /\ Len(table') = Len(table) + 1
      <4>1. /\ table \in Seq(timedValue) /\ lSendQueue \in Seq(timedValue)
            /\ lSendQueue # <<>>
            /\ table' = Append(table, Head(lSendQueue))
        BY <2>3 DEF TypeOK, fSendValues
      <4>2. Len(Queued) = Len(table) + Len(lSendQueue)
        BY <4>1, ConcatProperties DEF Queued
      <4>3. Len(table) \in Nat /\ Len(lSendQueue) \in Nat \ {0}
        BY <4>1, LenProperties, EmptySeq
      <4>4. Len(table') = Len(table) + 1
        BY <4>1
      <4> QED BY <4>2, <4>3, <4>4
    <3>4. Stream!Deliver
      BY <3>1, <3>2, <3>3 DEF Stream!Deliver, Newest
    <3> QED BY <3>4 DEF Stream!Next
  <2>4. ASSUME NEW band \in DeadBands, fConfigure(band) PROVE UNCHANGED Stream!vars
    BY <2>4 DEF fConfigure, Stream!vars, Queued
  <2>5. CASE UNCHANGED vars
    BY <2>5 DEF vars, Stream!vars, Queued
  <2> QED BY <2>1, <2>2, <2>3, <2>4, <2>5 DEF Next
<1> QED BY <1>1, <1>2, TypeCorrect, OrderInvariant, PTL
        DEF Spec, ImplementsValueStream, Stream!Spec
=============================================================================
