---------------------------- MODULE StorerProofs ----------------------------
(* Theorems about Storer, for every set of measurements, every set of      *)
(* producers, every way to share the measurements out and every number of  *)
(* samples: the storer pops only what is there; the rows of a measurement  *)
(* of one thread are in order but for what the signal catcher flushes; and *)
(* until the daemon stops such a measurement is a ValueStream.             *)
EXTENDS Storer, SequenceTheorems, TLAPS

Steps == {"check", "store", "push", "settle", "signal", "clear", "done"}

\* What is held back or being flushed has been stored.
UnsentIsStored == \A m \in Measurement : unsent[m] => kept[m] > 0
FlushedIsStored == catcher = "push" => kept[flushing] > 0

\* A producer at work is at a measurement of its own; a bool is pushed with its number.
WorksOnItsOwn ==
  \A p \in Producer :
    /\ pc[p] \notin {"check", "done"} => at[p] \in owned[p]
    /\ pc[p] = "settle" => at[p] \in Bools
    /\ pc[p] = "clear" => at[p] \notin Bools
    /\ pc[p] \in {"push", "settle"} /\ at[p] \in Bools => mine[p] > 0
FlushesNumbers == catcher \in {"signal", "clear"} => flushing \notin Bools

NumbersInv == UnsentIsStored /\ FlushedIsStored /\ WorksOnItsOwn /\ FlushesNumbers

\* The storer has a value in hand exactly between pop and insert.
PoppedInv == popped # <<>> <=> storer = "insert"

\* The inductive invariant of the types.
TypesInv == TypeOK /\ NumbersInv /\ PopsWhatItTested /\ PoppedInv
-----------------------------------------------------------------------------
\* What a report or a flush pushes.
LEMMA PushTypes ==
  ASSUME TypeOK, NEW m \in Measurement, NEW q \in Seq(Numbers), Push(m, q)
  PROVE  /\ lSendQueue' \in [Measurement -> Seq(Numbers)]
         /\ lSendQueue'[m] = lSendQueue[m] \o q
         /\ \A n \in Measurement : n # m => lSendQueue'[n] = lSendQueue[n]
         /\ \A n \in Measurement : lSendQueue[n] # <<>> => lSendQueue'[n] # <<>>
<1>1. lSendQueue \in [Measurement -> Seq(Numbers)]
  BY DEF TypeOK
<1>2. lSendQueue[m] \in Seq(Numbers)
  BY <1>1
<1>3. lSendQueue[m] \o q \in Seq(Numbers)
  BY <1>2, ConcatProperties
<1>4. lSendQueue' = [lSendQueue EXCEPT ![m] = lSendQueue[m] \o q]
  BY DEF Push
<1>5. lSendQueue[m] # <<>> => lSendQueue[m] \o q # <<>>
  <2>1. Len(lSendQueue[m] \o q) = Len(lSendQueue[m]) + Len(q)
    BY <1>2, ConcatProperties
  <2>2. Len(lSendQueue[m]) \in Nat /\ Len(q) \in Nat
    BY <1>2, LenProperties
  <2>3. lSendQueue[m] # <<>> => Len(lSendQueue[m]) > 0
    BY <1>2, <2>2, EmptySeq
  <2> QED BY <2>1, <2>2, <2>3, EmptySeq
<1> QED BY <1>1, <1>3, <1>4, <1>5

\* What a producer pushes are samples.
LEMMA ReportPushes ==
  ASSUME TypeOK, NumbersInv, NEW p \in Producer, Report(p)
  PROVE  \E q \in Seq(Numbers) : Push(at[p], q) /\ q = Reports(p)
<1> DEFINE m == at[p]
<1>1. /\ m \in Measurement
      /\ kept[m] \in 0..MaxSample /\ mine[p] \in 0..MaxSample
      /\ pc[p] = "push" /\ Push(m, Reports(p))
      /\ mine[p] = 0 => unsent[m]
  BY DEF TypeOK, Report
<1>2. unsent[m] => kept[m] > 0
  BY <1>1 DEF NumbersInv, UnsentIsStored
<1>3. m \in Bools => mine[p] > 0
  BY <1>1 DEF NumbersInv, WorksOnItsOwn
<1>4. PICK a \in 0..MaxSample : a = kept[m]
  BY <1>1
<1>5. PICK b \in 0..MaxSample : b = mine[p]
  BY <1>1
<1>6. \A x, y \in Numbers : <<x>> \in Seq(Numbers) /\ <<x, y>> \in Seq(Numbers)
  OBVIOUS
<1>7. Reports(p) = CASE m \in Bools /\ unsent[m] -> <<a, b>>
                     [] m \notin Bools /\ b = 0 -> <<a>>
                     [] OTHER -> <<b>>
  BY <1>4, <1>5 DEF Reports
<1>8. /\ unsent[m] => a \in Numbers
      /\ b > 0 => b \in Numbers
  BY <1>2, <1>4 DEF Numbers
<1>9. Reports(p) \in Seq(Numbers)
  <2>1. CASE m \in Bools /\ unsent[m]
    BY <1>3, <1>5, <1>6, <1>7, <1>8, <2>1
  <2>2. CASE m \notin Bools /\ b = 0
    BY <1>1, <1>5, <1>6, <1>7, <1>8, <2>2
  <2>3. CASE ~(m \in Bools /\ unsent[m]) /\ ~(m \notin Bools /\ b = 0)
    <3>1. b > 0
      BY <1>3, <1>5, <2>3
    <3>2. Reports(p) = <<b>>
      BY <1>7, <2>3
    <3> QED BY <1>6, <1>8, <3>1, <3>2
  <2> QED BY <2>1, <2>2, <2>3
<1> QED BY <1>1, <1>9

\* What the signal catcher pushes is a sample.
Flushed == IF index = 0 THEN kept[flushing] ELSE index
LEMMA FlushPushed ==
  ASSUME TypeOK, NumbersInv, FlushPushes
  PROVE  /\ flushing \in Measurement /\ Flushed \in Numbers
         /\ <<Flushed>> \in Seq(Numbers)
         /\ Push(flushing, <<Flushed>>)
<1>1. /\ flushing \in Measurement
      /\ kept[flushing] \in 0..MaxSample /\ index \in 0..MaxSample
      /\ catcher = "push"
      /\ Push(flushing, <<Flushed>>)
  BY DEF TypeOK, FlushPushes, Flushed
<1>2. kept[flushing] > 0
  BY <1>1 DEF NumbersInv, FlushedIsStored
<1>3. Flushed \in Numbers
  BY <1>1, <1>2 DEF Flushed, Numbers
<1>4. \A x \in Numbers : <<x>> \in Seq(Numbers)
  OBVIOUS
<1> QED BY <1>1, <1>3, <1>4
-----------------------------------------------------------------------------
LEMMA TypesInit == Init => TypesInv
<1> SUFFICES ASSUME Init PROVE TypesInv
  OBVIOUS
<1>1. Skew \in Measurement /\ 0 \in 0..MaxSample
  BY StorerAssumption
<1>2. <<>> \in Seq(Numbers)
  OBVIOUS
<1>3. TypeOK
  <2>1. /\ given \in [Measurement -> 0..MaxSample]
        /\ kept \in [Measurement -> 0..MaxSample]
        /\ mine \in [Producer -> 0..MaxSample] /\ index \in 0..MaxSample
    BY <1>1 DEF Init
  <2>2. lSendQueue \in [Measurement -> Seq(Numbers)] /\ sent \in [Measurement -> Seq(Numbers)]
    BY <1>2 DEF Init
  <2>3. refused \in [Measurement -> SUBSET Nat] /\ late \in [Measurement -> Nat]
    BY DEF Init
  <2> QED BY <1>1, <2>1, <2>2, <2>3 DEF Init, TypeOK
<1>4. NumbersInv
  <2>1. WorksOnItsOwn
    <3> SUFFICES ASSUME NEW p \in Producer
                 PROVE  /\ pc[p] \notin {"check", "done"} => at[p] \in owned[p]
                        /\ pc[p] \notin {"settle", "clear", "push"}
      BY DEF WorksOnItsOwn
    <3> QED BY StorerAssumption DEF Init
  <2>2. UnsentIsStored /\ FlushedIsStored /\ FlushesNumbers
    BY DEF Init, UnsentIsStored, FlushedIsStored, FlushesNumbers
  <2> QED BY <2>1, <2>2 DEF NumbersInv
<1>5. PopsWhatItTested /\ PoppedInv
  BY DEF Init, PopsWhatItTested, PoppedInv
<1> QED BY <1>3, <1>4, <1>5 DEF TypesInv

\* What the storer has in hand is not disturbed by a push, nor by a signal.
LEMMA HandKept ==
  ASSUME TypesInv,
         \/ UNCHANGED storer
         \/ fSignalToStorer,
         UNCHANGED <<sending, popped>>,
         \A n \in Measurement : lSendQueue[n] # <<>> => lSendQueue'[n] # <<>>
  PROVE  /\ PopsWhatItTested' /\ PoppedInv'
         /\ storer' \in {"top", "scan", "choose", "send", "pop", "insert", "waiting", "done"}
<1>1. sending \in Measurement
  BY DEF TypesInv, TypeOK
<1>2. /\ storer' = "pop" <=> storer = "pop"
      /\ storer' = "insert" <=> storer = "insert"
      /\ storer' \in {"top", "scan", "choose", "send", "pop", "insert", "waiting", "done"}
  BY DEF fSignalToStorer, TypesInv, TypeOK
<1> QED BY <1>1, <1>2 DEF TypesInv, PopsWhatItTested, PoppedInv

-----------------------------------------------------------------------------
\* The parts of the types that each thread keeps to itself.
ProducerTypes == /\ given \in [Measurement -> 0..MaxSample]
                 /\ pc \in [Producer -> Steps]
                 /\ at \in [Producer -> Measurement]
                 /\ lastBeat \in BOOLEAN
                 /\ owned \in Sharing
CatcherTypes == /\ catcher \in {"wait", "flush", "push", "signal", "clear", "done"}
                /\ unflushed \subseteq Measurement
                /\ flushing \in Measurement
                /\ late \in [Measurement -> Nat]
DataTypes == /\ sent \in [Measurement -> Seq(Numbers)]
             /\ refused \in [Measurement -> SUBSET Nat]
             /\ quitNow \in BOOLEAN
             /\ unscanned \subseteq Measurement
             /\ measurements \subseteq Measurement
             /\ sending \in Measurement
             /\ popped \in {<<>>} \cup {<<n>> : n \in Numbers}
StorerSteps == storer \in {"top", "scan", "choose", "send", "pop", "insert", "waiting",
                           "done"}
SampleTypes == /\ kept \in [Measurement -> 0..MaxSample]
               /\ unsent \in [Measurement -> BOOLEAN]
               /\ mine \in [Producer -> 0..MaxSample]
               /\ index \in 0..MaxSample
SharedTypes == /\ lSendQueue \in [Measurement -> Seq(Numbers)]
               /\ lStopRequested \in BOOLEAN
               /\ main \in {"join", "signal", "joinStorer", "done", "terminated"}

LEMMA TypesSplit ==
  TypeOK <=> /\ ProducerTypes /\ CatcherTypes /\ DataTypes /\ StorerSteps
             /\ SampleTypes /\ SharedTypes
BY DEF TypeOK, ProducerTypes, CatcherTypes, DataTypes, StorerSteps, SampleTypes, SharedTypes,
       Steps

LEMMA TypesSplitNext ==
  TypeOK' <=> /\ ProducerTypes' /\ CatcherTypes' /\ DataTypes' /\ StorerSteps'
              /\ SampleTypes' /\ SharedTypes'
BY DEF TypeOK, ProducerTypes, CatcherTypes, DataTypes, StorerSteps, SampleTypes, SharedTypes,
       Steps, Numbers

\* A measurement that can still be stored has a number left.
LEMMA Room ==
  ASSUME TypeOK, NEW p \in Producer, Stores(p)
  PROVE  /\ at[p] \in Measurement
         /\ given[at[p]] \in Nat /\ This(at[p]) = given[at[p]] + 1
         /\ This(at[p]) \in Numbers /\ This(at[p]) \in 0..MaxSample
         /\ given' = [given EXCEPT ![at[p]] = This(at[p])]
         /\ given' \in [Measurement -> 0..MaxSample]
<1>1. at[p] \in Measurement /\ given \in [Measurement -> 0..MaxSample]
  BY DEF TypeOK
<1>2. /\ given[at[p]] < Bound(at[p])
      /\ given' = [given EXCEPT ![at[p]] = This(at[p])]
  BY DEF Stores
<1>3. Bound(at[p]) \in Nat /\ Bound(at[p]) <= MaxSample
  BY StorerAssumption DEF Bound
<1>4. This(at[p]) = given[at[p]] + 1
  BY DEF This
<1>5. PICK n \in Nat : n = given[at[p]]
  BY <1>1
<1>6. n + 1 \in 0..MaxSample
  BY <1>2, <1>3, <1>5, StorerAssumption
<1> QED BY <1>1, <1>2, <1>4, <1>5, <1>6 DEF Numbers

\* A producer that goes from one step to another.
LEMMA ProducerMoves ==
  ASSUME TypeOK, WorksOnItsOwn, NEW p \in Producer, NEW next \in Steps,
         pc' = [pc EXCEPT ![p] = next], UNCHANGED owned,
         NEW m \in Measurement, at' = at \/ at' = [at EXCEPT ![p] = m],
         \A q \in Producer : q # p /\ at[q] \in Bools => mine'[q] = mine[q],
         /\ next \notin {"check", "done"} => at'[p] \in owned[p]
         /\ next = "settle" => at'[p] \in Bools
         /\ next = "clear" => at'[p] \notin Bools
         /\ next \in {"push", "settle"} /\ at'[p] \in Bools => mine'[p] > 0
  PROVE  /\ pc' \in [Producer -> Steps]
         /\ at' \in [Producer -> Measurement]
         /\ WorksOnItsOwn'
<1>1. pc \in [Producer -> Steps] /\ at \in [Producer -> Measurement]
  BY DEF TypeOK, Steps
<1>2. /\ pc'[p] = next
      /\ \A q \in Producer : q # p => pc'[q] = pc[q] /\ at'[q] = at[q]
  BY <1>1
<1>3. ASSUME NEW q \in Producer
      PROVE  /\ pc'[q] \notin {"check", "done"} => at'[q] \in owned[q]
             /\ pc'[q] = "settle" => at'[q] \in Bools
             /\ pc'[q] = "clear" => at'[q] \notin Bools
             /\ pc'[q] \in {"push", "settle"} /\ at'[q] \in Bools => mine'[q] > 0
  <2>1. CASE q = p
    BY <1>2, <2>1
  <2>2. CASE q # p
    BY <1>2, <2>2 DEF WorksOnItsOwn
  <2> QED BY <2>1, <2>2
<1>4. WorksOnItsOwn'
  BY <1>3 DEF WorksOnItsOwn
<1> QED BY <1>1, <1>4

\* lValues shrinks to its last sample.
LEMMA ClearTypes ==
  ASSUME TypeOK, NEW m \in Measurement, Clear(m)
  PROVE  /\ unsent' \in [Measurement -> BOOLEAN]
         /\ mine' \in [Producer -> 0..MaxSample] /\ index' \in 0..MaxSample
         /\ \A n \in Measurement : unsent'[n] => unsent[n]
         /\ \A q \in Producer : at[q] # m \/ pc[q] # "push" => mine'[q] = mine[q]
         /\ \A q \in Producer : mine'[q] \in {mine[q], 0}
<1>1. /\ unsent \in [Measurement -> BOOLEAN]
      /\ mine \in [Producer -> 0..MaxSample] /\ index \in 0..MaxSample
      /\ MaxSample \in Nat
  BY StorerAssumption DEF TypeOK
<1>2. /\ unsent' = [unsent EXCEPT ![m] = FALSE]
      /\ mine' = [q \in Producer |->
                    IF pc[q] = "push" /\ at[q] = m /\ mine[q] # 1 THEN 0 ELSE mine[q]]
      /\ index' = IF catcher = "push" /\ flushing = m THEN 0 ELSE index
  BY DEF Clear
<1>3. 0 \in 0..MaxSample
  BY <1>1
<1> QED BY <1>1, <1>2, <1>3

\* What the producers have in hand.
HandTypes == /\ pc \in [Producer -> Steps] /\ at \in [Producer -> Measurement]
             /\ SampleTypes /\ UnsentIsStored /\ FlushedIsStored /\ WorksOnItsOwn

LEMMA ProducerHands ==
  ASSUME TypesInv, NEW p \in Producer, Produce(p) \/ ProducerThrows(p)
  PROVE  HandTypes'
<1>1. /\ TypeOK /\ NumbersInv /\ PopsWhatItTested /\ PoppedInv
      /\ ProducerTypes /\ CatcherTypes /\ DataTypes /\ StorerSteps /\ SampleTypes
      /\ SharedTypes
  BY TypesSplit DEF TypesInv
<1>2. /\ at[p] \in Measurement /\ Skew \in Measurement
      /\ given \in [Measurement -> 0..MaxSample]
      /\ kept \in [Measurement -> 0..MaxSample]
      /\ unsent \in [Measurement -> BOOLEAN]
      /\ mine \in [Producer -> 0..MaxSample]
      /\ 0 \in 0..MaxSample
      /\ WorksOnItsOwn /\ UnsentIsStored /\ FlushedIsStored
      /\ pc[p] \notin {"check", "done"} => at[p] \in owned[p]
  BY <1>1, StorerAssumption DEF ProducerTypes, SampleTypes, NumbersInv, WorksOnItsOwn
<1>10. After(p) \in Steps /\ After(p) \in {"check", "done"}
  BY DEF After, Steps
<1>11. CASE ProducerGoesOn(p)
  <2>1. PICK m \in owned[p] : at' = [at EXCEPT ![p] = m]
    BY <1>11 DEF ProducerGoesOn
  <2>2. m \in Measurement
    BY <1>1, StorerAssumption DEF ProducerTypes
  <2>3. /\ pc' = [pc EXCEPT ![p] = "store"] /\ "store" \in Steps
        /\ UNCHANGED <<kept, unsent, mine, index, catcher, flushing, owned>>
    BY <1>11 DEF ProducerGoesOn, shared, catcherVars, Steps
  <2>4. at'[p] = m
    BY <1>1, <2>1 DEF ProducerTypes
  <2>5. pc' \in [Producer -> Steps] /\ at' \in [Producer -> Measurement] /\ WorksOnItsOwn'
    BY <1>1, <1>2, <2>1, <2>2, <2>3, <2>4, ProducerMoves
  <2> QED BY <1>1, <1>2, <2>3, <2>5 DEF HandTypes, SampleTypes, UnsentIsStored, FlushedIsStored
<1>12. CASE ProducerStops(p)
  <2>1. PICK next \in Steps : next = IF p = Reader THEN "store" ELSE "done"
    BY DEF Steps
  <2>2. /\ pc' = [pc EXCEPT ![p] = next] /\ at' = [at EXCEPT ![p] = Skew]
        /\ UNCHANGED <<kept, unsent, mine, index, catcher, flushing, owned>>
    BY <1>12, <2>1 DEF ProducerStops, shared, catcherVars
  <2>3. at'[p] = Skew
    BY <1>1, <2>2 DEF ProducerTypes
  <2>4. next \notin {"check", "done"} => at'[p] \in owned[p]
    BY <1>1, <2>1, <2>3, StorerAssumption DEF ProducerTypes
  <2>5. pc' \in [Producer -> Steps] /\ at' \in [Producer -> Measurement] /\ WorksOnItsOwn'
    BY <1>1, <1>2, <2>1, <2>2, <2>4, ProducerMoves
  <2> QED BY <1>1, <1>2, <2>2, <2>5 DEF HandTypes, SampleTypes, UnsentIsStored, FlushedIsStored
<1>13. CASE Hold(p)
  <2>1. /\ Stores(p) /\ pc' = [pc EXCEPT ![p] = After(p)]
        /\ UNCHANGED <<at, mine, index, catcher, flushing, owned>>
        /\ kept' = [kept EXCEPT ![at[p]] = This(at[p])]
        /\ unsent' = [unsent EXCEPT ![at[p]] = TRUE]
    BY <1>13 DEF Hold, Stores, catcherVars
  <2>2. /\ This(at[p]) \in 0..MaxSample /\ This(at[p]) > 0
    BY <1>1, <2>1, Room DEF Numbers
  <2>3. pc' \in [Producer -> Steps] /\ at' \in [Producer -> Measurement] /\ WorksOnItsOwn'
    <3>1. PICK next \in Steps : next = After(p) /\ next \in {"check", "done"}
      BY <1>10
    <3> QED BY <1>1, <1>2, <2>1, <3>1, ProducerMoves
  <2> QED BY <1>1, <1>2, <2>1, <2>2, <2>3 DEF HandTypes, SampleTypes, UnsentIsStored, FlushedIsStored
<1>14. CASE Collect(p) \/ Change(p)
  <2>1. /\ Stores(p) /\ pc' = [pc EXCEPT ![p] = "push"] /\ "push" \in Steps
        /\ UNCHANGED <<at, index, catcher, flushing, owned>>
        /\ mine' = [mine EXCEPT ![p] = This(at[p])]
        /\ \/ /\ kept' = [kept EXCEPT ![at[p]] = This(at[p])]
              /\ unsent' = [unsent EXCEPT ![at[p]] = kept[at[p]] # 0]
           \/ UNCHANGED <<kept, unsent>>
    BY <1>14 DEF Collect, Change, Stores, catcherVars, Steps
  <2>2. PICK k \in 0..MaxSample : k = This(at[p]) /\ k > 0
    <3>1. This(at[p]) \in Numbers
      BY <1>1, <2>1, Room
    <3>2. \A k \in Numbers : k \in 0..MaxSample /\ k > 0
      BY DEF Numbers
    <3> QED BY <3>1, <3>2
  <2>3. mine'[p] > 0 /\ pc[p] = "store"
    BY <1>2, <2>1, <2>2 DEF Stores
  <2>4. pc' \in [Producer -> Steps] /\ at' \in [Producer -> Measurement] /\ WorksOnItsOwn'
    BY <1>1, <1>2, <2>1, <2>2, <2>3, ProducerMoves
  <2>5. mine' \in [Producer -> 0..MaxSample] /\ index' \in 0..MaxSample
    BY <1>1, <1>2, <2>1, <2>2 DEF SampleTypes
  <2>6. CASE UNCHANGED <<kept, unsent>>
    BY <1>1, <1>2, <2>1, <2>4, <2>5, <2>6 DEF HandTypes, SampleTypes, UnsentIsStored, FlushedIsStored
  <2>7. CASE /\ kept' = [kept EXCEPT ![at[p]] = This(at[p])]
             /\ unsent' = [unsent EXCEPT ![at[p]] = kept[at[p]] # 0]
    <3>1. kept' \in [Measurement -> 0..MaxSample] /\ unsent' \in [Measurement -> BOOLEAN]
      BY <1>2, <2>2, <2>7
    <3>2. /\ kept'[at[p]] > 0
          /\ \A n \in Measurement :
               n # at[p] => kept'[n] = kept[n] /\ unsent'[n] = unsent[n]
      BY <1>2, <2>2, <2>7
    <3>3. UnsentIsStored'
      BY <1>2, <3>2 DEF UnsentIsStored
    <3>4. FlushedIsStored'
      <4>1. flushing \in Measurement
        BY <1>1 DEF CatcherTypes
      <4> QED BY <1>2, <2>1, <3>2, <4>1 DEF FlushedIsStored
    <3> QED BY <2>4, <2>5, <3>1, <3>3, <3>4 DEF HandTypes, SampleTypes
  <2> QED BY <2>1, <2>6, <2>7
<1>15. CASE Report(p)
  <2>1. PICK next \in Steps : next = IF at[p] \in Bools THEN "settle" ELSE "signal"
    BY DEF Steps
  <2>2. /\ pc[p] = "push" /\ pc' = [pc EXCEPT ![p] = next]
        /\ mine' = [mine EXCEPT ![p] = IF at[p] \in Bools THEN @ ELSE 0]
        /\ UNCHANGED <<at, kept, unsent, index, catcher, flushing, owned>>
    BY <1>15, <2>1 DEF Report, catcherVars
  <2>3. at[p] \in Bools => mine'[p] > 0
    BY <1>2, <2>2 DEF WorksOnItsOwn
  <2>4. pc' \in [Producer -> Steps] /\ at' \in [Producer -> Measurement] /\ WorksOnItsOwn'
    BY <1>1, <1>2, <2>1, <2>2, <2>3, ProducerMoves
  <2> QED BY <1>1, <1>2, <2>2, <2>4 DEF HandTypes, SampleTypes, UnsentIsStored, FlushedIsStored
<1>16. CASE ReportThrows(p)
  BY <1>1, <1>2, <1>16 DEF ReportThrows, producerVars, catcherVars, ProducerTypes, HandTypes,
                           SampleTypes, UnsentIsStored, FlushedIsStored, WorksOnItsOwn
<1>17. CASE Settle(p)
  <2>1. /\ pc[p] = "settle" /\ pc' = [pc EXCEPT ![p] = "signal"] /\ "signal" \in Steps
        /\ kept' = [kept EXCEPT ![at[p]] = mine[p]]
        /\ unsent' = [unsent EXCEPT ![at[p]] = FALSE]
        /\ mine' = [mine EXCEPT ![p] = 0]
        /\ UNCHANGED <<at, index, catcher, flushing, owned>>
    BY <1>17 DEF Settle, catcherVars, Steps
  <2>2. mine[p] > 0 /\ mine[p] \in 0..MaxSample
    BY <1>2, <2>1 DEF WorksOnItsOwn
  <2>3. pc' \in [Producer -> Steps] /\ at' \in [Producer -> Measurement] /\ WorksOnItsOwn'
    BY <1>1, <1>2, <2>1, ProducerMoves
  <2> QED BY <1>1, <1>2, <2>1, <2>2, <2>3 DEF HandTypes, SampleTypes, UnsentIsStored, FlushedIsStored
<1>18. CASE ReportSignals(p) \/ ProducerThrows(p)
  <2>1. PICK next \in Steps :
          next = IF ReportSignals(p) THEN IF at[p] \in Bools THEN After(p) ELSE "clear"
                 ELSE "check"
    BY <1>10 DEF Steps
  <2>2. /\ pc[p] \in {"signal", "store"} /\ pc' = [pc EXCEPT ![p] = next]
        /\ UNCHANGED <<at, kept, unsent, mine, index, catcher, flushing, owned>>
        /\ next \in {"check", "done"} \/ (next = "clear" /\ at[p] \notin Bools)
    BY <1>10, <1>18, <2>1 DEF ReportSignals, ProducerThrows, shared, catcherVars
  <2>3. pc' \in [Producer -> Steps] /\ at' \in [Producer -> Measurement] /\ WorksOnItsOwn'
    BY <1>1, <1>2, <2>1, <2>2, ProducerMoves
  <2> QED BY <1>1, <1>2, <2>2, <2>3 DEF HandTypes, SampleTypes, UnsentIsStored, FlushedIsStored
<1>19. CASE ReportClears(p)
  <2>1. /\ pc[p] = "clear" /\ pc' = [pc EXCEPT ![p] = After(p)] /\ Clear(at[p])
        /\ UNCHANGED <<at, kept, catcher, flushing, owned>>
    BY <1>19 DEF ReportClears, catcherVars
  <2>2. at[p] \notin Bools
    BY <1>2, <2>1 DEF WorksOnItsOwn
  <2>3. /\ unsent' \in [Measurement -> BOOLEAN]
        /\ mine' \in [Producer -> 0..MaxSample] /\ index' \in 0..MaxSample
        /\ \A n \in Measurement : unsent'[n] => unsent[n]
        /\ \A q \in Producer : at[q] # at[p] \/ pc[q] # "push" => mine'[q] = mine[q]
    BY <1>1, <1>2, <2>1, ClearTypes
  <2>4. PICK next \in Steps : next = After(p) /\ next \in {"check", "done"}
    BY <1>10
  <2>5. \A q \in Producer : q # p /\ at[q] \in Bools => mine'[q] = mine[q]
    BY <2>2, <2>3
  <2>6. pc' \in [Producer -> Steps] /\ at' \in [Producer -> Measurement] /\ WorksOnItsOwn'
    BY <1>1, <1>2, <2>1, <2>4, <2>5, ProducerMoves
  <2> QED BY <1>1, <1>2, <2>1, <2>3, <2>6 DEF HandTypes, SampleTypes, UnsentIsStored, FlushedIsStored
<1> QED BY <1>11, <1>12, <1>13, <1>14, <1>15, <1>16, <1>17, <1>18, <1>19 DEF Produce

LEMMA ProducerTypesStep ==
  ASSUME TypesInv, NEW p \in Producer, Produce(p) \/ ProducerThrows(p)
  PROVE  TypesInv'
<1>1. /\ TypeOK /\ NumbersInv /\ PopsWhatItTested /\ PoppedInv
      /\ ProducerTypes /\ CatcherTypes /\ DataTypes /\ StorerSteps /\ SampleTypes
      /\ SharedTypes
  BY TypesSplit DEF TypesInv
<1>2. /\ at[p] \in Measurement /\ Skew \in Measurement
      /\ given \in [Measurement -> 0..MaxSample]
      /\ kept \in [Measurement -> 0..MaxSample]
      /\ unsent \in [Measurement -> BOOLEAN]
      /\ mine \in [Producer -> 0..MaxSample]
      /\ 0 \in 0..MaxSample
      /\ WorksOnItsOwn /\ UnsentIsStored /\ FlushedIsStored
      /\ pc[p] \notin {"check", "done"} => at[p] \in owned[p]
  BY <1>1, StorerAssumption DEF ProducerTypes, SampleTypes, NumbersInv, WorksOnItsOwn
<1>3. UNCHANGED catcherVars /\ UNCHANGED storerData
  BY DEF Produce, ProducerGoesOn, ProducerStops, Stores, Hold, Collect, Change, Report,
         ReportThrows, Settle, ReportSignals, ReportClears, ProducerThrows, storerVars
<1>4. CatcherTypes' /\ DataTypes' /\ FlushesNumbers'
  BY <1>1, <1>3 DEF CatcherTypes, DataTypes, catcherVars, storerData, NumbersInv,
                    FlushesNumbers
<1>5. UNCHANGED storer \/ fSignalToStorer
  BY DEF Produce, ProducerGoesOn, ProducerStops, Stores, Hold, Collect, Change, Report,
         ReportThrows, Settle, ReportSignals, ReportClears, ProducerThrows, storerVars
<1>6. /\ lSendQueue' \in [Measurement -> Seq(Numbers)]
      /\ \A n \in Measurement : lSendQueue[n] # <<>> => lSendQueue'[n] # <<>>
  <2>1. CASE Report(p)
    <3>1. PICK q \in Seq(Numbers) : Push(at[p], q)
      BY <1>1, <2>1, ReportPushes
    <3> QED BY <1>1, <1>2, <3>1, PushTypes
  <2>2. CASE ~Report(p)
    <3>1. UNCHANGED lSendQueue
      BY <2>2 DEF Produce, ProducerGoesOn, ProducerStops, Stores, Hold, Collect, Change,
                  ReportThrows, Settle, ReportSignals, ReportClears, ProducerThrows, shared
    <3> QED BY <1>1, <3>1 DEF SharedTypes
  <2> QED BY <2>1, <2>2
<1>7. PopsWhatItTested' /\ PoppedInv' /\ StorerSteps'
  <2>1. UNCHANGED <<sending, popped>>
    BY <1>3 DEF storerData
  <2> QED BY <1>5, <1>6, <2>1, HandKept DEF StorerSteps
<1>8. SharedTypes'
  <2>1. /\ lStopRequested' \in BOOLEAN
        /\ main' \in {"join", "signal", "joinStorer", "done", "terminated"}
    BY <1>1 DEF Produce, ProducerGoesOn, ProducerStops, Stores, Hold, Collect, Change, Report,
                ReportThrows, Settle, ReportSignals, ReportClears, ProducerThrows,
                SharedTypes, shared
  <2> QED BY <1>6, <2>1 DEF SharedTypes
<1>9. given' \in [Measurement -> 0..MaxSample] /\ lastBeat' \in BOOLEAN /\ UNCHANGED owned
  <2>1. CASE Stores(p)
    BY <1>1, <2>1, Room DEF Stores, ProducerTypes
  <2>2. CASE ~Stores(p)
    <3>1. UNCHANGED given
      BY <2>2 DEF Produce, ProducerGoesOn, ProducerStops, Hold, Collect, Change, Report,
                  ReportThrows, Settle, ReportSignals, ReportClears, ProducerThrows,
                  producerVars
    <3>2. lastBeat' \in BOOLEAN /\ UNCHANGED owned
      BY <1>1, <2>2 DEF Produce, ProducerGoesOn, ProducerStops, Hold, Collect, Change, Report,
                  ReportThrows, Settle, ReportSignals, ReportClears, ProducerThrows,
                  producerVars, ProducerTypes
    <3> QED BY <1>2, <3>1, <3>2
  <2> QED BY <2>1, <2>2
<1>20. HandTypes'
  BY ProducerHands
<1>21. ProducerTypes' /\ NumbersInv'
  BY <1>1, <1>4, <1>9, <1>20 DEF ProducerTypes, HandTypes, NumbersInv
<1>22. TypeOK'
  BY <1>4, <1>7, <1>8, <1>20, <1>21, TypesSplitNext DEF HandTypes
<1> QED BY <1>7, <1>21, <1>22 DEF TypesInv

\* Nobody but a producer stores.
LEMMA NumbersKept ==
  ASSUME NumbersInv, UNCHANGED producerVars, UNCHANGED <<kept, unsent, mine>>,
         UNCHANGED <<catcher, flushing>>
  PROVE  NumbersInv'
BY DEF NumbersInv, UnsentIsStored, FlushedIsStored, WorksOnItsOwn, FlushesNumbers,
       producerVars

LEMMA CatcherTypesStep ==
  ASSUME TypesInv, Catch \/ SigTerm
  PROVE  TypesInv'
<1>1. /\ TypeOK /\ NumbersInv /\ PopsWhatItTested /\ PoppedInv
      /\ ProducerTypes /\ CatcherTypes /\ DataTypes /\ StorerSteps /\ SampleTypes
      /\ SharedTypes
  BY TypesSplit DEF TypesInv
<1>2. UNCHANGED producerVars /\ UNCHANGED storerData /\ UNCHANGED kept
  BY DEF Catch, SigTerm, CatcherSeesStop, FlushNothing, FlushTests, FlushPushes, FlushThrows,
         FlushSignals, FlushClears, CatcherDone, storerVars, shared
<1>3. ProducerTypes' /\ DataTypes'
  BY <1>1, <1>2 DEF ProducerTypes, DataTypes, producerVars, storerData
<1>4. UNCHANGED storer \/ fSignalToStorer
  BY DEF Catch, SigTerm, CatcherSeesStop, FlushNothing, FlushTests, FlushPushes, FlushThrows,
         FlushSignals, FlushClears, CatcherDone, storerVars
<1>5. /\ lSendQueue' \in [Measurement -> Seq(Numbers)]
      /\ \A n \in Measurement : lSendQueue[n] # <<>> => lSendQueue'[n] # <<>>
  <2>1. CASE FlushPushes
    <3>1. flushing \in Measurement /\ <<Flushed>> \in Seq(Numbers) /\ Push(flushing, <<Flushed>>)
      BY <1>1, <2>1, FlushPushed
    <3> QED BY <1>1, <3>1, PushTypes
  <2>2. CASE ~FlushPushes
    <3>1. UNCHANGED lSendQueue
      BY <2>2 DEF Catch, SigTerm, CatcherSeesStop, FlushNothing, FlushTests, FlushThrows,
                  FlushSignals, FlushClears, CatcherDone, shared
    <3> QED BY <1>1, <3>1 DEF SharedTypes
  <2> QED BY <2>1, <2>2
<1>6. PopsWhatItTested' /\ PoppedInv' /\ StorerSteps'
  <2>1. UNCHANGED <<sending, popped>>
    BY <1>2 DEF storerData
  <2> QED BY <1>4, <1>5, <2>1, HandKept DEF StorerSteps
<1>7. SharedTypes'
  <2>1. /\ lStopRequested' \in BOOLEAN
        /\ main' \in {"join", "signal", "joinStorer", "done", "terminated"}
    BY <1>1 DEF Catch, SigTerm, CatcherSeesStop, FlushNothing, FlushTests, FlushPushes,
                FlushThrows, FlushSignals, FlushClears, CatcherDone, SharedTypes, shared
  <2> QED BY <1>5, <2>1 DEF SharedTypes
<1>8. CatcherTypes'
  <2>1. CASE FlushPushes
    <3>1. flushing \in Measurement /\ Stream(flushing) = Stream(flushing)
      BY <1>1 DEF CatcherTypes
    <3>2. PICK l \in Nat : l = Len(Stream(flushing)) + 1
      <4>1. lSendQueue[flushing] \in Seq(Numbers) /\ sent[flushing] \in Seq(Numbers)
        BY <1>1, <3>1 DEF SharedTypes, DataTypes
      <4>2. (IF sending = flushing THEN popped ELSE <<>>) \in Seq(Numbers)
        <5>1. <<>> \in Seq(Numbers) /\ \A n \in Numbers : <<n>> \in Seq(Numbers)
          OBVIOUS
        <5> QED BY <1>1, <5>1 DEF DataTypes
      <4>3. PICK a, b, c \in Seq(Numbers) :
              /\ a = sent[flushing] /\ c = lSendQueue[flushing]
              /\ b = (IF sending = flushing THEN popped ELSE <<>>)
        BY <4>1, <4>2
      <4>4. Stream(flushing) = (a \o b) \o c
        BY <4>3 DEF Stream
      <4>5. (a \o b) \o c \in Seq(Numbers)
        BY ConcatProperties
      <4>6. Len((a \o b) \o c) \in Nat
        BY <4>5, LenProperties
      <4> QED BY <4>4, <4>6
    <3>3. late' = [late EXCEPT ![flushing] = l]
      BY <2>1, <3>2 DEF FlushPushes
    <3>4. late' \in [Measurement -> Nat]
      BY <1>1, <3>2, <3>3 DEF CatcherTypes
    <3>5. catcher' \in {"flush", "signal"} /\ UNCHANGED <<unflushed, flushing>>
      BY <2>1 DEF FlushPushes
    <3> QED BY <1>1, <3>4, <3>5 DEF CatcherTypes
  <2>2. CASE ~FlushPushes
    BY <1>1, <2>2 DEF Catch, SigTerm, CatcherSeesStop, FlushNothing, FlushTests, FlushThrows,
                      FlushSignals, FlushClears, CatcherDone, CatcherTypes, catcherVars
  <2> QED BY <2>1, <2>2
<1>9. SampleTypes' /\ NumbersInv'
  <2>1. CASE FlushClears
    <3>1. catcher = "clear" /\ catcher' = "flush" /\ Clear(flushing) /\ flushing \in Measurement
      BY <1>1, <2>1 DEF FlushClears, CatcherTypes
    <3>2. flushing \notin Bools
      BY <1>1, <3>1 DEF NumbersInv, FlushesNumbers
    <3>3. /\ unsent' \in [Measurement -> BOOLEAN]
          /\ mine' \in [Producer -> 0..MaxSample] /\ index' \in 0..MaxSample
          /\ \A n \in Measurement : unsent'[n] => unsent[n]
          /\ \A q \in Producer : at[q] # flushing \/ pc[q] # "push" => mine'[q] = mine[q]
      BY <1>1, <3>1, ClearTypes
    <3>4. \A q \in Producer : at[q] \in Bools => mine'[q] = mine[q]
      BY <3>2, <3>3
    <3> QED BY <1>1, <1>2, <3>1, <3>3, <3>4
            DEF SampleTypes, NumbersInv, UnsentIsStored, FlushedIsStored, WorksOnItsOwn,
                FlushesNumbers, producerVars
  <2>2. CASE FlushTests(flushing') /\ flushing' \in Measurement
    <3>1. /\ unsent[flushing'] /\ UNCHANGED <<unsent, mine>> /\ catcher' = "push"
          /\ index' \in {0, kept[flushing']}
      BY <2>2 DEF FlushTests
    <3>2. kept[flushing'] > 0 /\ kept[flushing'] \in 0..MaxSample /\ 0 \in 0..MaxSample
      BY <1>1, <2>2, <3>1, StorerAssumption DEF NumbersInv, UnsentIsStored, SampleTypes
    <3>3. SampleTypes'
      BY <1>1, <1>2, <3>1, <3>2 DEF SampleTypes
    <3>4. NumbersInv'
      BY <1>1, <1>2, <3>1, <3>2
         DEF NumbersInv, UnsentIsStored, FlushedIsStored, WorksOnItsOwn, FlushesNumbers,
             producerVars
    <3> QED BY <3>3, <3>4
  <2>3. CASE FlushPushes
    <3>1. /\ UNCHANGED mine /\ index' = 0 /\ UNCHANGED flushing
          /\ unsent' = [unsent EXCEPT ![flushing] = @ /\ flushing \notin Bools]
          /\ catcher' = IF flushing \in Bools THEN "flush" ELSE "signal"
      BY <2>3 DEF FlushPushes
    <3>2. /\ unsent' \in [Measurement -> BOOLEAN]
          /\ \A n \in Measurement : unsent'[n] => unsent[n]
      BY <1>1, <3>1 DEF SampleTypes
    <3> QED BY <1>1, <1>2, <3>1, <3>2, StorerAssumption
            DEF SampleTypes, NumbersInv, UnsentIsStored, FlushedIsStored, WorksOnItsOwn,
                FlushesNumbers, producerVars
  <2>4. CASE /\ \A m \in Measurement : ~FlushTests(m)
             /\ ~FlushPushes /\ ~FlushClears
    <3>1. /\ UNCHANGED <<unsent, mine, index>>
          /\ \/ UNCHANGED <<catcher, flushing>>
             \/ catcher' \in {"flush", "done"} 
             \/ catcher = "signal" /\ catcher' = "clear" /\ UNCHANGED flushing
      BY <2>4 DEF Catch, SigTerm, CatcherSeesStop, FlushNothing, FlushThrows, FlushSignals,
                  CatcherDone, shared, catcherVars
    <3> QED BY <1>1, <1>2, <3>1
            DEF SampleTypes, NumbersInv, UnsentIsStored, FlushedIsStored, WorksOnItsOwn,
                FlushesNumbers, producerVars
  <2>5. ASSUME NEW m \in Measurement, FlushTests(m)
        PROVE  FlushTests(flushing') /\ flushing' \in Measurement
    <3>1. flushing' = m
      BY <2>5 DEF FlushTests
    <3>2. PICK n \in Measurement : n = flushing' /\ FlushTests(n)
      BY <2>5, <3>1
    <3> QED BY <2>5, <3>1 DEF FlushTests
  <2> QED BY <2>1, <2>2, <2>3, <2>4, <2>5
<1>10. TypeOK'
  BY <1>3, <1>6, <1>7, <1>8, <1>9, TypesSplitNext
<1> QED BY <1>6, <1>9, <1>10 DEF TypesInv

\* The storer alone pops; nobody else shortens a queue.
LEMMA StorerTypesStep ==
  ASSUME TypesInv, Store \/ SpuriousWakeup
  PROVE  TypesInv'
<1>1. /\ TypeOK /\ NumbersInv /\ PopsWhatItTested /\ PoppedInv
      /\ ProducerTypes /\ CatcherTypes /\ DataTypes /\ StorerSteps /\ SampleTypes
      /\ SharedTypes
  BY TypesSplit DEF TypesInv
<1>2. UNCHANGED producerVars /\ UNCHANGED catcherVars
      /\ UNCHANGED <<kept, unsent, mine, index, lStopRequested, main>>
  BY DEF Store, SpuriousWakeup, StorerStarts, StorerScans, StorerSends, QueueTested,
         ValuePopped, ValueInserted, InsertRefused, StorerWaits, shared
<1>3. ProducerTypes' /\ CatcherTypes' /\ SampleTypes'
  BY <1>1, <1>2 DEF ProducerTypes, CatcherTypes, SampleTypes, producerVars, catcherVars
<1>4. NumbersInv'
  BY <1>1, <1>2, NumbersKept DEF catcherVars
<1>5. /\ DataTypes' /\ StorerSteps' /\ lSendQueue' \in [Measurement -> Seq(Numbers)]
      /\ PopsWhatItTested' /\ PoppedInv'
  <2>1. CASE ValuePopped
    <3>1. /\ storer = "pop" /\ sending \in Measurement
          /\ lSendQueue \in [Measurement -> Seq(Numbers)]
          /\ lSendQueue[sending] \in Seq(Numbers) /\ lSendQueue[sending] # <<>>
      BY <1>1, <2>1 DEF ValuePopped, PopsWhatItTested, DataTypes, SharedTypes
    <3>2. Head(lSendQueue[sending]) \in Numbers /\ Tail(lSendQueue[sending]) \in Seq(Numbers)
      BY <3>1, HeadTailProperties
    <3>3. /\ popped' = <<Head(lSendQueue[sending])>>
          /\ lSendQueue' = [lSendQueue EXCEPT ![sending] = Tail(lSendQueue[sending])]
          /\ storer' = "insert"
          /\ UNCHANGED <<sent, refused, quitNow, unscanned, measurements, sending>>
      BY <2>1 DEF ValuePopped
    <3>4. lSendQueue' \in [Measurement -> Seq(Numbers)]
      BY <3>1, <3>2, <3>3
    <3>5. popped' \in {<<n>> : n \in Numbers} /\ popped' # <<>>
      BY <3>2, <3>3
    <3>6. DataTypes'
      BY <1>1, <3>3, <3>5 DEF DataTypes, Numbers
    <3> QED BY <3>3, <3>4, <3>5, <3>6 DEF StorerSteps, PopsWhatItTested, PoppedInv
  <2>2. CASE ValueInserted \/ InsertRefused
    <3>1. /\ storer = "insert" /\ sending \in Measurement
          /\ sent \in [Measurement -> Seq(Numbers)]
          /\ popped \in Seq(Numbers)
      <4>1. <<>> \in Seq(Numbers) /\ \A n \in Numbers : <<n>> \in Seq(Numbers)
        OBVIOUS
      <4>2. popped \in {<<>>} \cup {<<n>> : n \in Numbers}
        BY <1>1 DEF DataTypes
      <4>3. popped \in Seq(Numbers)
        BY <4>1, <4>2
      <4> QED BY <1>1, <2>2, <4>3 DEF ValueInserted, InsertRefused, DataTypes
    <3>2. sent[sending] \o popped \in Seq(Numbers)
      BY <3>1, ConcatProperties
    <3>3. /\ sent' = [sent EXCEPT ![sending] = sent[sending] \o popped]
          /\ popped' = <<>> /\ storer' = "send"
          /\ UNCHANGED <<quitNow, unscanned, measurements, sending>>
          /\ UNCHANGED lSendQueue
          /\ \/ UNCHANGED refused
             \/ refused' = [refused EXCEPT ![sending] = @ \cup {Len(sent'[sending])}]
      BY <2>2 DEF ValueInserted, InsertRefused, shared
    <3>4. sent' \in [Measurement -> Seq(Numbers)]
      BY <3>1, <3>2, <3>3
    <3>5. Len(sent'[sending]) \in Nat
      <4>1. sent'[sending] \in Seq(Numbers)
        BY <3>1, <3>4
      <4> QED BY <4>1, LenProperties
    <3>6. refused' \in [Measurement -> SUBSET Nat]
      BY <1>1, <3>3, <3>5 DEF DataTypes
    <3> QED BY <1>1, <3>3, <3>4, <3>6
            DEF DataTypes, StorerSteps, SharedTypes, PopsWhatItTested, PoppedInv, Numbers
  <2>3. CASE QueueTested
    BY <1>1, <2>3 DEF QueueTested, DataTypes, StorerSteps, SharedTypes, storerData, shared,
                      PopsWhatItTested, PoppedInv, Numbers
  <2>4. CASE StorerStarts \/ StorerWaits \/ SpuriousWakeup
    BY <1>1, <2>4 DEF StorerStarts, StorerWaits, SpuriousWakeup, DataTypes, StorerSteps,
                      SharedTypes, storerData, shared, PopsWhatItTested, PoppedInv, Numbers
  <2>5. ASSUME NEW m \in Measurement, StorerScans(m) \/ StorerSends(m)
        PROVE  /\ DataTypes' /\ StorerSteps' /\ lSendQueue' \in [Measurement -> Seq(Numbers)]
               /\ PopsWhatItTested' /\ PoppedInv'
    BY <1>1, <2>5 DEF StorerScans, StorerSends, DataTypes, StorerSteps, SharedTypes, shared,
                      PopsWhatItTested, PoppedInv, Numbers
  <2> QED BY <2>1, <2>2, <2>3, <2>4, <2>5 DEF Store
<1>6. SharedTypes'
  BY <1>1, <1>2, <1>5 DEF SharedTypes
<1>7. TypeOK'
  BY <1>3, <1>5, <1>6, TypesSplitNext
<1> QED BY <1>4, <1>5, <1>7 DEF TypesInv

LEMMA JoinTypesStep ==
  ASSUME TypesInv, Join \/ UNCHANGED vars
  PROVE  TypesInv'
<1>1. /\ TypeOK /\ NumbersInv /\ PopsWhatItTested /\ PoppedInv
      /\ ProducerTypes /\ CatcherTypes /\ DataTypes /\ StorerSteps /\ SampleTypes
      /\ SharedTypes
  BY TypesSplit DEF TypesInv
<1>2. /\ UNCHANGED producerVars /\ UNCHANGED catcherVars /\ UNCHANGED storerData
      /\ UNCHANGED <<kept, unsent, mine, index, lSendQueue, lStopRequested>>
  BY DEF Join, ThreadsJoined, MainSignals, StorerJoined, vars, shared, storerVars
<1>3. UNCHANGED storer \/ fSignalToStorer
  BY DEF Join, ThreadsJoined, MainSignals, StorerJoined, vars, storerVars
<1>4. main' \in {"join", "signal", "joinStorer", "done", "terminated"}
  BY <1>1 DEF Join, ThreadsJoined, MainSignals, StorerJoined, vars, shared, SharedTypes
<1>5. ProducerTypes' /\ CatcherTypes' /\ DataTypes' /\ SampleTypes' /\ SharedTypes'
  BY <1>1, <1>2, <1>4 DEF ProducerTypes, CatcherTypes, DataTypes, SampleTypes, SharedTypes,
                          producerVars, catcherVars, storerData
<1>6. PopsWhatItTested' /\ PoppedInv' /\ StorerSteps'
  <2>1. /\ UNCHANGED <<sending, popped>>
        /\ \A n \in Measurement : lSendQueue[n] # <<>> => lSendQueue'[n] # <<>>
    BY <1>2 DEF storerData
  <2> QED BY <1>3, <2>1, HandKept DEF StorerSteps
<1>7. NumbersInv'
  BY <1>1, <1>2, NumbersKept DEF catcherVars
<1>8. TypeOK'
  BY <1>5, <1>6, TypesSplitNext
<1> QED BY <1>6, <1>7, <1>8 DEF TypesInv

LEMMA TypesStep == TypesInv /\ [Next]_vars => TypesInv'
BY ProducerTypesStep, CatcherTypesStep, StorerTypesStep, JoinTypesStep
   DEF Next, Run, Stop, Ended

LEMMA TypesInvariant == Spec => []TypesInv
BY TypesInit, TypesStep, PTL DEF Spec

\* Every variable keeps its type; no measurement runs out of numbers.
THEOREM TypeCorrect == Spec => []TypeOK
<1>1. TypesInv => TypeOK
  BY DEF TypesInv
<1> QED BY <1>1, TypesInvariant, PTL

\* fSendValues tests the queue without its mutex and pops under it, while the producers
\* and the signal catcher push: the value it pops is there (measurement.h:280-286).
THEOREM AlwaysPopsWhatItTested == Spec => []PopsWhatItTested
<1>1. TypesInv => PopsWhatItTested
  BY DEF TypesInv
<1> QED BY <1>1, TypesInvariant, PTL
-----------------------------------------------------------------------------
\* A stream only grows at its end, and only when its measurement reports or is flushed.
\* What a step appends to the stream of m: nothing, or what somebody pushes.
Appends(m, q) ==
  /\ Stream(m)' = Stream(m) \o q
  /\ UNCHANGED sent
  /\ \A n \in Measurement : n # m => Stream(n)' = Stream(n)

LEMMA StreamType ==
  ASSUME TypeOK, NEW m \in Measurement
  PROVE  /\ Stream(m) \in Seq(Numbers)
         /\ (IF sending = m THEN popped ELSE <<>>) \in Seq(Numbers)
         /\ Stream(m) = (sent[m] \o (IF sending = m THEN popped ELSE <<>>)) \o lSendQueue[m]
<1> DEFINE hand == IF sending = m THEN popped ELSE <<>>
<1>1. hand \in Seq(Numbers)
  <2>1. <<>> \in Seq(Numbers) /\ \A n \in Numbers : <<n>> \in Seq(Numbers)
    OBVIOUS
  <2> QED BY <2>1 DEF TypeOK
<1>2. sent[m] \in Seq(Numbers) /\ lSendQueue[m] \in Seq(Numbers)
  BY DEF TypeOK
<1>3. Stream(m) = (sent[m] \o hand) \o lSendQueue[m]
  BY DEF Stream
<1> HIDE DEF hand
<1>4. (sent[m] \o hand) \o lSendQueue[m] \in Seq(Numbers)
  BY <1>1, <1>2, ConcatProperties
<1> QED BY <1>1, <1>3, <1>4 DEF hand

LEMMA PushAppends ==
  ASSUME TypeOK, NEW m \in Measurement, NEW q \in Seq(Numbers), Push(m, q),
         UNCHANGED <<sent, sending, popped>>
  PROVE  Appends(m, q)
<1>1. /\ lSendQueue'[m] = lSendQueue[m] \o q
      /\ \A n \in Measurement : n # m => lSendQueue'[n] = lSendQueue[n]
  BY PushTypes
<1> DEFINE front == sent[m] \o (IF sending = m THEN popped ELSE <<>>)
<1>2. front \in Seq(Numbers) /\ lSendQueue[m] \in Seq(Numbers)
  <2>1. sent[m] \in Seq(Numbers) /\ lSendQueue[m] \in Seq(Numbers)
    BY DEF TypeOK
  <2>2. (IF sending = m THEN popped ELSE <<>>) \in Seq(Numbers)
    BY StreamType
  <2> QED BY <2>1, <2>2, ConcatProperties
<1>3. Stream(m) = front \o lSendQueue[m]
  BY StreamType
<1>4. Stream(m)' = front \o (lSendQueue[m] \o q)
  BY <1>1 DEF Stream
<1>5. front \o (lSendQueue[m] \o q) = (front \o lSendQueue[m]) \o q
  <2>1. \A a, b, c \in Seq(Numbers) : (a \o b) \o c = a \o (b \o c)
    BY ConcatAssociative
  <2> HIDE DEF front
  <2> QED BY <1>2, <2>1, Zenon
<1>6. \A n \in Measurement : n # m => Stream(n)' = Stream(n)
  BY <1>1 DEF Stream
<1> HIDE DEF front
<1> QED BY <1>3, <1>4, <1>5, <1>6 DEF Appends

\* Popping and inserting move a value along its stream.
LEMMA StorerKeepsStreams ==
  ASSUME TypesInv, Store \/ SpuriousWakeup
  PROVE  /\ \A n \in Measurement : Stream(n)' = Stream(n)
         /\ UNCHANGED sent \/ ValueInserted \/ InsertRefused
<1>1. TypeOK /\ PopsWhatItTested /\ PoppedInv
  BY DEF TypesInv
<1>2. CASE ValuePopped
  <2>1. /\ popped = <<>> /\ sending \in Measurement
        /\ lSendQueue[sending] # <<>>
        /\ lSendQueue[sending] \in Seq(Numbers) /\ sent[sending] \in Seq(Numbers)
    BY <1>1, <1>2 DEF ValuePopped, PopsWhatItTested, PoppedInv, TypeOK
  <2>2. /\ popped' = <<Head(lSendQueue[sending])>>
        /\ lSendQueue' = [lSendQueue EXCEPT ![sending] = Tail(lSendQueue[sending])]
        /\ UNCHANGED sent /\ UNCHANGED sending
    BY <1>2 DEF ValuePopped
  <2>3. \A n \in Measurement : n # sending => lSendQueue'[n] = lSendQueue[n]
    BY <1>1, <2>1, <2>2 DEF TypeOK
  <2>4. lSendQueue'[sending] = Tail(lSendQueue[sending])
    BY <1>1, <2>1, <2>2 DEF TypeOK
  <2>5. Stream(sending)' = (sent[sending] \o <<Head(lSendQueue[sending])>>)
                              \o Tail(lSendQueue[sending])
    BY <2>2, <2>4 DEF Stream
  <2>6. Stream(sending) = sent[sending] \o lSendQueue[sending]
    <3>1. Stream(sending) = (sent[sending] \o <<>>) \o lSendQueue[sending]
      BY <2>1 DEF Stream
    <3>2. sent[sending] \o <<>> = sent[sending]
      BY <2>1, ConcatEmptySeq
    <3> QED BY <3>1, <3>2
  <2>7. \A a, b \in Seq(Numbers) : b # <<>> => (a \o <<Head(b)>>) \o Tail(b) = a \o b
    <3> SUFFICES ASSUME NEW a \in Seq(Numbers), NEW b \in Seq(Numbers), b # <<>>
                 PROVE  (a \o <<Head(b)>>) \o Tail(b) = a \o b
      OBVIOUS
    <3>1. Head(b) \in Numbers /\ Tail(b) \in Seq(Numbers)
      BY HeadTailProperties
    <3>2. <<Head(b)>> \in Seq(Numbers)
      BY <3>1
    <3>3. (a \o <<Head(b)>>) \o Tail(b) = a \o (<<Head(b)>> \o Tail(b))
      BY <3>1, <3>2, ConcatAssociative
    <3>4. <<Head(b)>> \o Tail(b) = b
      OBVIOUS
    <3> QED BY <3>3, <3>4
  <2>8. Stream(sending)' = Stream(sending)
    BY <2>1, <2>5, <2>6, <2>7, Zenon
  <2>9. \A n \in Measurement : n # sending => Stream(n)' = Stream(n)
    BY <2>2, <2>3 DEF Stream
  <2> QED BY <2>2, <2>8, <2>9
<1>3. CASE ValueInserted \/ InsertRefused
  <2>1. /\ sending \in Measurement
        /\ sent[sending] \in Seq(Numbers) /\ popped \in Seq(Numbers)
    <3>1. sending \in Measurement /\ sent[sending] \in Seq(Numbers)
      BY <1>1 DEF TypeOK
    <3>2. (IF sending = sending THEN popped ELSE <<>>) \in Seq(Numbers)
      BY <1>1, <3>1, StreamType
    <3> QED BY <3>1, <3>2
  <2>2. /\ sent' = [sent EXCEPT ![sending] = sent[sending] \o popped]
        /\ popped' = <<>> /\ UNCHANGED sending /\ UNCHANGED lSendQueue
    BY <1>3 DEF ValueInserted, InsertRefused, shared
  <2>3. /\ sent'[sending] = sent[sending] \o popped
        /\ \A n \in Measurement : n # sending => sent'[n] = sent[n]
    BY <1>1, <2>1, <2>2 DEF TypeOK
  <2>4. Stream(sending)' = ((sent[sending] \o popped) \o <<>>) \o lSendQueue[sending]
    BY <2>2, <2>3 DEF Stream
  <2>5. (sent[sending] \o popped) \o <<>> = sent[sending] \o popped
    <3>1. sent[sending] \o popped \in Seq(Numbers)
      BY <2>1, ConcatProperties
    <3> QED BY <3>1, ConcatEmptySeq
  <2>6. Stream(sending)' = Stream(sending)
    BY <2>4, <2>5 DEF Stream
  <2>7. \A n \in Measurement : n # sending => Stream(n)' = Stream(n)
    BY <2>2, <2>3 DEF Stream
  <2>8. \A n \in Measurement : Stream(n)' = Stream(n)
    BY <2>2, <2>6, <2>7
  <2> QED BY <1>3, <2>8
<1>4. CASE StorerStarts \/ QueueTested \/ StorerWaits \/ SpuriousWakeup
  BY <1>4 DEF StorerStarts, QueueTested, StorerWaits, SpuriousWakeup, Stream, storerData,
              shared
<1>5. ASSUME NEW m \in Measurement, StorerScans(m) \/ StorerSends(m)
      PROVE  (\A n \in Measurement : Stream(n)' = Stream(n)) /\ UNCHANGED sent
  <2>1. UNCHANGED <<sent, popped, lSendQueue>> /\ (UNCHANGED sending \/ popped = <<>>)
    BY <1>1, <1>5 DEF StorerScans, StorerSends, shared, PoppedInv
  <2> QED BY <2>1 DEF Stream
<1> QED BY <1>2, <1>3, <1>4, <1>5 DEF Store
-----------------------------------------------------------------------------
\* The numbers of a sequence rise, stay within a bound or below it, but for one place.
InOrderBut(s, l) == \A i, j \in DOMAIN s \ {l} : i < j => s[i] < s[j]
AtMostBut(s, l, n) == \A i \in DOMAIN s \ {l} : s[i] <= n
BelowBut(s, l, n) == \A i \in DOMAIN s \ {l} : s[i] < n

\* Somebody is about to report in measurement m, or has and has not marked it yet.
Pushing(m) == \E p \in Producer : pc[p] = "push" /\ at[p] = m
Settling(m) == \E p \in Producer : pc[p] = "settle" /\ at[p] = m

\* A measurement of one thread has queued nothing that is not decided; what a bool holds
\* back is not queued, until its thread reports it.
OrderOf(m) ==
  /\ InOrderBut(Stream(m), late[m])
  /\ AtMostBut(Stream(m), late[m], Decided(m))
  /\ kept[m] = IF m \in Bools /\ (Pushing(m) \/ Settling(m)) THEN given[m] - 1
               ELSE given[m]
  /\ m \in Bools /\ unsent[m] /\ ~Settling(m) => BelowBut(Stream(m), late[m], kept[m])

\* What its thread is about to push is the last sample, or by its index whatever has
\* become of it.
HandsInv ==
  \A p \in Producer :
    pc[p] \in {"push", "settle"} /\ at[p] \in Alone =>
      /\ given[at[p]] > 0
      /\ mine[p] = given[at[p]] \/ (mine[p] = 0 /\ at[p] \notin Bools)

\* The signal catcher flushes each measurement once, and after the request to stop.
FlushInv ==
  /\ catcher = "wait" => unflushed = Measurement
  /\ catcher # "wait" => lStopRequested
  /\ \A m \in unflushed : late[m] = 0
  /\ catcher = "push" => late[flushing] = 0 /\ flushing \notin unflushed

\* The inductive invariant of the order.
OrderInv == (\A m \in Alone : OrderOf(m)) /\ HandsInv /\ FlushInv

LEMMA OrderNext ==
  ASSUME NEW m \in Measurement,
         InOrderBut(Stream(m)', late'[m]),
         AtMostBut(Stream(m)', late'[m], IF Pushing(m)' THEN given'[m] - 1 ELSE given'[m]),
         kept'[m] = IF m \in Bools /\ (Pushing(m)' \/ Settling(m)') THEN given'[m] - 1
                    ELSE given'[m],
         m \in Bools /\ unsent'[m] /\ ~Settling(m)' => BelowBut(Stream(m)', late'[m], kept'[m])
  PROVE  OrderOf(m)'
<1>1. Decided(m)' = IF Pushing(m)' THEN given'[m] - 1 ELSE given'[m]
  BY DEF Decided, Pushing
<1>2. AtMostBut(Stream(m)', late'[m], Decided(m)')
  BY <1>1
<1> QED BY <1>2 DEF OrderOf, InOrderBut, AtMostBut, BelowBut

LEMMA OrderNow ==
  ASSUME NEW m \in Measurement, OrderOf(m)
  PROVE  /\ InOrderBut(Stream(m), late[m])
         /\ AtMostBut(Stream(m), late[m], IF Pushing(m) THEN given[m] - 1 ELSE given[m])
         /\ kept[m] = IF m \in Bools /\ (Pushing(m) \/ Settling(m)) THEN given[m] - 1
                      ELSE given[m]
         /\ m \in Bools /\ unsent[m] /\ ~Settling(m) => BelowBut(Stream(m), late[m], kept[m])
BY DEF OrderOf, Decided, Pushing

\* The stream is one of numbers.
LEMMA NumbersInStream ==
  ASSUME TypeOK, NEW m \in Measurement
  PROVE  \E s \in Seq(Numbers) :
           /\ s = Stream(m) /\ Len(s) \in Nat /\ DOMAIN s = 1..Len(s)
           /\ \A i \in DOMAIN s : s[i] \in Nat /\ s[i] > 0
<1>1. PICK s \in Seq(Numbers) : s = Stream(m)
  BY StreamType
<1>2. Len(s) \in Nat /\ DOMAIN s = 1..Len(s) /\ \A i \in 1..Len(s) : s[i] \in Numbers
  BY ElementOfSeq, LenProperties
<1>3. \A n \in Numbers : n \in Nat /\ n > 0
  BY DEF Numbers
<1> QED BY <1>1, <1>2, <1>3

\* What is appended comes after what is there.
LEMMA AppendInOrder ==
  ASSUME NEW s \in Seq(Numbers), NEW q \in Seq(Numbers), NEW l \in Nat, NEW k \in Nat,
         InOrderBut(s, l), AtMostBut(s, l, k),
         \A i, j \in DOMAIN q : i < j => q[i] < q[j],
         \A j \in DOMAIN q : q[j] <= k,
         \A i \in DOMAIN s \ {l} : \A j \in DOMAIN q : s[i] < q[j]
  PROVE  InOrderBut(s \o q, l) /\ AtMostBut(s \o q, l, k)
<1> DEFINE n == Len(s)
           r == s \o q
<1>1. n \in Nat /\ Len(q) \in Nat /\ DOMAIN s = 1..n /\ DOMAIN q = 1..Len(q)
  BY LenProperties
<1>2. r \in Seq(Numbers) /\ Len(r) = n + Len(q)
  BY ConcatProperties
<1>3. \A i \in 1..n + Len(q) : r[i] = IF i <= n THEN s[i] ELSE q[i - n]
  BY ConcatProperties
<1>4. DOMAIN r = 1..n + Len(q)
  BY <1>2, LenProperties
<1> HIDE DEF r, n
<1>5. ASSUME NEW i \in DOMAIN r
      PROVE  \/ i \in DOMAIN s /\ r[i] = s[i]
             \/ i - n \in DOMAIN q /\ r[i] = q[i - n] /\ i > n
  BY <1>1, <1>3, <1>4
<1>6. ASSUME NEW i \in DOMAIN r \ {l}, NEW j \in DOMAIN r \ {l}, i < j
      PROVE  r[i] < r[j]
  <2>1. CASE j \in DOMAIN s /\ r[j] = s[j]
    <3>1. i \in DOMAIN s /\ r[i] = s[i]
      BY <1>1, <1>4, <1>5, <1>6, <2>1
    <3> QED BY <1>6, <2>1, <3>1 DEF InOrderBut
  <2>2. CASE i \in DOMAIN s /\ r[i] = s[i] /\ j - n \in DOMAIN q /\ r[j] = q[j - n]
    BY <2>2
  <2>3. CASE /\ i - n \in DOMAIN q /\ r[i] = q[i - n]
             /\ j - n \in DOMAIN q /\ r[j] = q[j - n]
    <3>1. i - n < j - n
      BY <1>1, <1>4, <1>6
    <3> QED BY <2>3, <3>1
  <2> QED BY <1>5, <2>1, <2>2, <2>3
<1>7. ASSUME NEW i \in DOMAIN r \ {l} PROVE r[i] <= k
  BY <1>5 DEF AtMostBut
<1> QED BY <1>6, <1>7 DEF InOrderBut, AtMostBut, r

\* What is flushed is the exception.
LEMMA AppendLate ==
  ASSUME NEW s \in Seq(Numbers), NEW x \in Numbers, NEW k, NEW n
  PROVE  /\ InOrderBut(s, 0) => InOrderBut(s \o <<x>>, Len(s) + 1)
         /\ AtMostBut(s, 0, k) => AtMostBut(s \o <<x>>, Len(s) + 1, k)
         /\ BelowBut(s, 0, n) => BelowBut(s \o <<x>>, Len(s) + 1, n)
<1> DEFINE q == <<x>>
           r == s \o q
<1>1. q \in Seq(Numbers) /\ Len(q) = 1
  OBVIOUS
<1>2. Len(s) \in Nat /\ DOMAIN s = 1..Len(s)
  BY LenProperties
<1> HIDE DEF q
<1>3. /\ r \in Seq(Numbers) /\ Len(r) = Len(s) + 1
      /\ \A i \in 1..Len(s) + 1 : r[i] = IF i <= Len(s) THEN s[i] ELSE q[i - Len(s)]
  BY <1>1, ConcatProperties
<1>4. DOMAIN r = 1..Len(s) + 1
  BY <1>3, LenProperties
<1> HIDE DEF r
<1>5. \A i \in DOMAIN r \ {Len(s) + 1} : i \in DOMAIN s \ {0} /\ r[i] = s[i]
  BY <1>2, <1>3, <1>4
<1>6. /\ InOrderBut(s, 0) => InOrderBut(r, Len(s) + 1)
      /\ AtMostBut(s, 0, k) => AtMostBut(r, Len(s) + 1, k)
      /\ BelowBut(s, 0, n) => BelowBut(r, Len(s) + 1, n)
  BY <1>5 DEF InOrderBut, AtMostBut, BelowBut
<1> QED BY <1>6 DEF r, q
-----------------------------------------------------------------------------
\* Only its own thread is at a measurement of one thread.
LEMMA OwnerMoves ==
  ASSUME TypeOK, WorksOnItsOwn, NEW p \in Producer, NEW m \in Alone, m \in owned[p],
         \A q \in Producer : q # p => pc'[q] = pc[q] /\ at'[q] = at[q]
  PROVE  /\ Pushing(m) <=> pc[p] = "push" /\ at[p] = m
         /\ Settling(m) <=> pc[p] = "settle" /\ at[p] = m
         /\ Pushing(m)' <=> pc'[p] = "push" /\ at'[p] = m
         /\ Settling(m)' <=> pc'[p] = "settle" /\ at'[p] = m
<1>1. ASSUME NEW q \in Producer, pc[q] \in {"push", "settle"}, at[q] = m PROVE q = p
  BY <1>1 DEF WorksOnItsOwn, Alone
<1>2. ASSUME NEW q \in Producer, pc'[q] \in {"push", "settle"}, at'[q] = m PROVE q = p
  BY <1>1, <1>2
<1> QED BY <1>1, <1>2 DEF Pushing, Settling

\* A producer that is elsewhere, or between two reports, changes neither.
LEMMA PhasesKept ==
  ASSUME NEW p \in Producer, NEW m \in Measurement,
         \A q \in Producer : q # p => pc'[q] = pc[q] /\ at'[q] = at[q],
         \/ at'[p] = at[p] /\ at[p] # m
         \/ pc[p] \notin {"push", "settle"} /\ pc'[p] \notin {"push", "settle"}
         \/ pc'[p] = pc[p] /\ at'[p] = at[p]
  PROVE  (Pushing(m)' <=> Pushing(m)) /\ (Settling(m)' <=> Settling(m))
<1>1. ASSUME NEW x \in {"push", "settle"}
      PROVE  (\E q \in Producer : pc'[q] = x /\ at'[q] = m)
               <=> (\E q \in Producer : pc[q] = x /\ at[q] = m)
  <2>1. ASSUME NEW q \in Producer
        PROVE  pc'[q] = x /\ at'[q] = m <=> pc[q] = x /\ at[q] = m
    <3>1. CASE q = p
      BY <3>1
    <3>2. CASE q # p
      BY <3>2
    <3> QED BY <3>1, <3>2
  <2> QED BY <2>1
<1>2. Pushing(m)' <=> \E q \in Producer : pc'[q] = "push" /\ at'[q] = m
  BY DEF Pushing
<1>3. Settling(m)' <=> \E q \in Producer : pc'[q] = "settle" /\ at'[q] = m
  BY DEF Settling
<1> QED BY <1>1, <1>2, <1>3 DEF Pushing, Settling

\* A step that leaves a measurement as it was.
LEMMA QuietOrder ==
  ASSUME NEW m \in Measurement, OrderOf(m),
         Stream(m)' = Stream(m), late'[m] = late[m], given'[m] = given[m], kept'[m] = kept[m],
         unsent'[m] => unsent[m],
         Pushing(m)' <=> Pushing(m), Settling(m)' <=> Settling(m)
  PROVE  OrderOf(m)'
<1>1. /\ InOrderBut(Stream(m), late[m])
      /\ AtMostBut(Stream(m), late[m], IF Pushing(m) THEN given[m] - 1 ELSE given[m])
      /\ kept[m] = IF m \in Bools /\ (Pushing(m) \/ Settling(m)) THEN given[m] - 1
                   ELSE given[m]
      /\ m \in Bools /\ unsent[m] /\ ~Settling(m) => BelowBut(Stream(m), late[m], kept[m])
  BY OrderNow
<1>2. /\ InOrderBut(Stream(m)', late'[m])
      /\ AtMostBut(Stream(m)', late'[m], IF Pushing(m)' THEN given'[m] - 1 ELSE given'[m])
      /\ kept'[m] = IF m \in Bools /\ (Pushing(m)' \/ Settling(m)') THEN given'[m] - 1
                    ELSE given'[m]
      /\ m \in Bools /\ unsent'[m] /\ ~Settling(m)' => BelowBut(Stream(m)', late'[m], kept'[m])
  BY <1>1
<1> QED BY <1>2, OrderNext

\* A sample is stored: held back, collected, or a bool that has changed.
LEMMA StoreOrder ==
  ASSUME TypesInv, TypesInv', NEW p \in Producer, NEW m \in Alone, m = at[p], OrderOf(m),
         Hold(p) \/ Collect(p) \/ Change(p)
  PROVE  OrderOf(m)'
<1>1. TypeOK /\ WorksOnItsOwn /\ m \in Measurement
  BY DEF TypesInv, NumbersInv, Alone
<1>2. /\ Stores(p) /\ pc[p] = "store" /\ UNCHANGED at /\ UNCHANGED late
      /\ UNCHANGED <<sent, sending, popped, lSendQueue>>
      /\ pc' = [pc EXCEPT ![p] = IF Hold(p) THEN After(p) ELSE "push"]
  BY DEF Hold, Collect, Change, Stores, catcherVars, storerVars, storerData
<1>3. Stream(m)' = Stream(m)
  BY <1>2 DEF Stream
<1>4. m \in owned[p] /\ pc \in [Producer -> Steps]
  BY <1>1, <1>2 DEF WorksOnItsOwn, TypeOK, Steps
<1>5. PICK n \in Nat : n = given[m] /\ given'[m] = n + 1
  <2>1. given[m] \in Nat /\ This(m) = given[m] + 1
        /\ given' = [given EXCEPT ![m] = This(m)]
    BY <1>1, <1>2, Room
  <2> QED BY <1>1, <2>1 DEF TypeOK
<1>6. /\ \A q \in Producer : q # p => pc'[q] = pc[q] /\ at'[q] = at[q]
      /\ pc'[p] = IF Hold(p) THEN After(p) ELSE "push"
      /\ at'[p] = m
  BY <1>2, <1>4
<1>7. /\ ~Pushing(m) /\ ~Settling(m)
      /\ Pushing(m)' <=> ~Hold(p)
      /\ ~Settling(m)'
  BY <1>1, <1>2, <1>4, <1>6, OwnerMoves DEF After
<1>8. PICK s \in Seq(Numbers) :
        s = Stream(m) /\ DOMAIN s = 1..Len(s) /\ \A i \in DOMAIN s : s[i] \in Nat
  BY <1>1, NumbersInStream
<1>9. PICK l \in Nat : l = late[m] /\ late'[m] = l
  BY <1>1, <1>2 DEF TypeOK
<1>10. /\ InOrderBut(s, l) /\ AtMostBut(s, l, n) /\ kept[m] = n
       /\ m \in Bools /\ unsent[m] => BelowBut(s, l, n)
  BY <1>1, <1>5, <1>7, <1>8, <1>9, OrderNow
<1>11. AtMostBut(s, l, n + 1) /\ BelowBut(s, l, n + 1)
  BY <1>8, <1>10 DEF AtMostBut, BelowBut
<1>12. CASE Hold(p)
  <2>1. kept' = [kept EXCEPT ![m] = This(m)]
    BY <1>12 DEF Hold
  <2>2. kept'[m] = n + 1
    BY <1>1, <1>5, <2>1 DEF TypeOK, This
  <2> QED BY <1>1, <1>3, <1>5, <1>7, <1>8, <1>9, <1>10, <1>11, <1>12, <2>2, OrderNext
<1>13. CASE Collect(p) /\ ~Hold(p)
  <2>1. kept' = [kept EXCEPT ![m] = This(m)] /\ m \notin Bools
    BY <1>13 DEF Collect
  <2>2. kept'[m] = n + 1 /\ n + 1 - 1 = n
    BY <1>1, <1>5, <2>1 DEF TypeOK, This
  <2> QED BY <1>1, <1>3, <1>5, <1>7, <1>8, <1>9, <1>10, <1>13, <2>1, <2>2, OrderNext
<1>14. CASE Change(p) /\ ~Hold(p)
  <2>1. UNCHANGED <<kept, unsent>> /\ m \in Bools
    BY <1>14 DEF Change
  <2>2. kept'[m] = n /\ n + 1 - 1 = n
    BY <1>10, <2>1
  <2>3. m \in Bools /\ unsent'[m] => BelowBut(s, l, kept'[m])
    BY <1>10, <2>1
  <2> QED BY <1>1, <1>3, <1>5, <1>7, <1>8, <1>9, <1>10, <1>14, <2>1, <2>2, <2>3, OrderNext
<1> QED BY <1>12, <1>13, <1>14

\* The report queues it, and before it what a bool had held back.
LEMMA ReportOrder ==
  ASSUME TypesInv, NEW p \in Producer, NEW m \in Alone, m = at[p], OrderOf(m), HandsInv,
         Report(p)
  PROVE  /\ OrderOf(m)'
         /\ \E q \in Seq(Numbers) :
              Appends(m, q) /\ Len(q) > 0 /\ q[Len(q)] = given[m] /\ given[m] \in Numbers
<1>1. TypeOK /\ NumbersInv /\ WorksOnItsOwn /\ m \in Measurement
  BY DEF TypesInv, NumbersInv, Alone
<1>2. /\ pc[p] = "push" /\ UNCHANGED <<at, late, given, kept, unsent>>
      /\ UNCHANGED <<sent, sending, popped>>
      /\ pc' = [pc EXCEPT ![p] = IF m \in Bools THEN "settle" ELSE "signal"]
  BY DEF Report, catcherVars, storerVars, storerData
<1>3. PICK q \in Seq(Numbers) : Push(m, q) /\ q = Reports(p)
  BY <1>1, ReportPushes
<1>4. Appends(m, q)
  BY <1>1, <1>2, <1>3, PushAppends
<1>5. m \in owned[p] /\ pc \in [Producer -> Steps]
  BY <1>1, <1>2 DEF WorksOnItsOwn, TypeOK, Steps
<1>6. /\ \A o \in Producer : o # p => pc'[o] = pc[o] /\ at'[o] = at[o]
      /\ pc'[p] = IF m \in Bools THEN "settle" ELSE "signal"
      /\ at'[p] = m
  BY <1>2, <1>5
<1>7. /\ Pushing(m) /\ ~Settling(m) /\ ~Pushing(m)'
      /\ Settling(m)' <=> m \in Bools
  BY <1>1, <1>2, <1>5, <1>6, OwnerMoves
<1>8. PICK n \in Nat : n = given[m] /\ n > 0 /\ n \in Numbers
  BY <1>1, <1>2 DEF TypeOK, HandsInv, Numbers
<1>9. PICK s \in Seq(Numbers) :
        s = Stream(m) /\ DOMAIN s = 1..Len(s) /\ \A i \in DOMAIN s : s[i] \in Nat
  BY <1>1, NumbersInStream
<1>10. PICK l \in Nat : l = late[m] /\ late'[m] = l
  BY <1>1, <1>2 DEF TypeOK
<1>11. /\ InOrderBut(s, l) /\ AtMostBut(s, l, n - 1)
       /\ kept[m] = IF m \in Bools THEN n - 1 ELSE n
       /\ m \in Bools /\ unsent[m] => BelowBut(s, l, n - 1)
  BY <1>1, <1>7, <1>8, <1>9, <1>10, OrderNow
<1>12. mine[p] = n \/ (mine[p] = 0 /\ m \notin Bools)
  BY <1>2, <1>8 DEF HandsInv
<1>13. q = IF m \in Bools /\ unsent[m] THEN <<n - 1, n>> ELSE <<n>>
  <2>1. CASE m \in Bools /\ unsent[m]
    BY <1>3, <1>11, <1>12, <2>1 DEF Reports
  <2>2. CASE ~(m \in Bools /\ unsent[m])
    BY <1>3, <1>8, <1>11, <1>12, <2>2 DEF Reports
  <2> QED BY <2>1, <2>2
<1>14. /\ Len(q) > 0 /\ q[Len(q)] = n
       /\ \A i, j \in DOMAIN q : i < j => q[i] < q[j]
       /\ \A j \in DOMAIN q : q[j] <= n
       /\ \A i \in DOMAIN s \ {l} : \A j \in DOMAIN q : s[i] < q[j]
  <2>1. \A i \in DOMAIN s \ {l} : s[i] \in Nat /\ s[i] <= n - 1 /\ s[i] < n
    BY <1>8, <1>9, <1>11 DEF AtMostBut
  <2>2. CASE m \in Bools /\ unsent[m]
    <3>1. DOMAIN q = 1..2 /\ q[1] = n - 1 /\ q[2] = n /\ Len(q) = 2
      BY <1>13, <2>2
    <3>2. \A j \in DOMAIN q : j = 1 \/ j = 2
      BY <3>1
    <3>3. \A i \in DOMAIN s \ {l} : s[i] < n - 1
      BY <1>11, <2>2 DEF BelowBut
    <3> QED BY <1>8, <2>1, <3>1, <3>2, <3>3
  <2>3. CASE ~(m \in Bools /\ unsent[m])
    <3>1. DOMAIN q = 1..1 /\ q[1] = n /\ Len(q) = 1
      BY <1>13, <2>3
    <3>2. \A j \in DOMAIN q : j = 1
      BY <3>1
    <3> QED BY <1>8, <2>1, <3>1, <3>2
  <2> QED BY <2>2, <2>3
<1>15. AtMostBut(s, l, n)
  BY <1>8, <1>9, <1>11 DEF AtMostBut
<1>16. InOrderBut(s \o q, l) /\ AtMostBut(s \o q, l, n)
  BY <1>11, <1>14, <1>15, AppendInOrder
<1>17. Stream(m)' = s \o q
  BY <1>4, <1>9 DEF Appends
<1>18. kept'[m] = IF m \in Bools THEN n - 1 ELSE n
  BY <1>2, <1>11
<1>19. given'[m] = n
  BY <1>2, <1>8
<1>20. OrderOf(m)'
  BY <1>1, <1>7, <1>10, <1>16, <1>17, <1>18, <1>19, OrderNext
<1> QED BY <1>4, <1>8, <1>14, <1>20

\* A bool marks the change as sent.
LEMMA SettleOrder ==
  ASSUME TypesInv, NEW p \in Producer, NEW m \in Alone, m = at[p], OrderOf(m), HandsInv,
         Settle(p)
  PROVE  OrderOf(m)'
<1>1. TypeOK /\ WorksOnItsOwn /\ m \in Measurement
  BY DEF TypesInv, NumbersInv, Alone
<1>2. /\ pc[p] = "settle" /\ UNCHANGED <<at, late, given>>
      /\ UNCHANGED <<sent, sending, popped, lSendQueue>>
      /\ pc' = [pc EXCEPT ![p] = "signal"]
      /\ kept' = [kept EXCEPT ![m] = mine[p]] /\ unsent' = [unsent EXCEPT ![m] = FALSE]
  BY DEF Settle, catcherVars, storerVars, storerData
<1>3. Stream(m)' = Stream(m)
  BY <1>2 DEF Stream
<1>4. m \in owned[p] /\ pc \in [Producer -> Steps] /\ m \in Bools
  BY <1>1, <1>2 DEF WorksOnItsOwn, TypeOK, Steps
<1>5. /\ \A o \in Producer : o # p => pc'[o] = pc[o] /\ at'[o] = at[o]
      /\ pc'[p] = "signal" /\ at'[p] = m
  BY <1>2, <1>4
<1>6. ~Pushing(m) /\ Settling(m) /\ ~Pushing(m)' /\ ~Settling(m)'
  BY <1>1, <1>2, <1>4, <1>5, OwnerMoves
<1>7. kept'[m] = given[m] /\ ~unsent'[m]
  BY <1>1, <1>2, <1>4 DEF HandsInv, TypeOK
<1>8. InOrderBut(Stream(m), late[m]) /\ AtMostBut(Stream(m), late[m], given[m])
  BY <1>1, <1>6, OrderNow
<1> QED BY <1>1, <1>2, <1>3, <1>6, <1>7, <1>8, OrderNext

\* The flush of a measurement.
LEMMA FlushOrder ==
  ASSUME TypesInv, NEW m \in Alone, m = flushing, OrderOf(m), late[m] = 0, FlushPushes
  PROVE  OrderOf(m)'
<1>1. TypeOK /\ NumbersInv /\ m \in Measurement
  BY DEF TypesInv, Alone
<1>2. /\ UNCHANGED <<pc, at, given, kept>> /\ UNCHANGED <<sent, sending, popped>>
      /\ late' = [late EXCEPT ![m] = Len(Stream(m)) + 1]
      /\ unsent' = [unsent EXCEPT ![m] = @ /\ m \notin Bools]
  BY DEF FlushPushes, producerVars, storerVars, storerData
<1>3. PICK x \in Numbers : x = Flushed
  BY <1>1, FlushPushed
<1>4. Push(m, <<x>>) /\ <<x>> \in Seq(Numbers)
  BY <1>1, <1>3, FlushPushed
<1>5. Appends(m, <<x>>)
  BY <1>1, <1>2, <1>4, PushAppends
<1>6. PICK s \in Seq(Numbers) : s = Stream(m)
  BY <1>1, NumbersInStream
<1>7. Stream(m)' = s \o <<x>> /\ late'[m] = Len(s) + 1
  BY <1>1, <1>2, <1>5, <1>6 DEF Appends, TypeOK
<1>8. (Pushing(m)' <=> Pushing(m)) /\ (Settling(m)' <=> Settling(m))
  BY <1>2 DEF Pushing, Settling
<1>9. PICK k : k = IF Pushing(m) THEN given[m] - 1 ELSE given[m]
  OBVIOUS
<1>10. PICK n : n = kept[m]
  OBVIOUS
<1>11. /\ InOrderBut(s, 0) /\ AtMostBut(s, 0, k)
       /\ m \in Bools /\ unsent[m] /\ ~Settling(m) => BelowBut(s, 0, n)
       /\ n = IF m \in Bools /\ (Pushing(m) \/ Settling(m)) THEN given[m] - 1 ELSE given[m]
  BY <1>1, <1>6, <1>9, <1>10, OrderNow
<1>12. /\ InOrderBut(s \o <<x>>, Len(s) + 1) /\ AtMostBut(s \o <<x>>, Len(s) + 1, k)
       /\ m \in Bools /\ unsent[m] /\ ~Settling(m) => BelowBut(s \o <<x>>, Len(s) + 1, n)
  BY <1>11, AppendLate
<1>13. unsent'[m] => unsent[m]
  BY <1>1, <1>2 DEF TypeOK
<1>14. k = IF Pushing(m)' THEN given'[m] - 1 ELSE given'[m]
  BY <1>2, <1>8, <1>9
<1>15. kept'[m] = n
       /\ n = IF m \in Bools /\ (Pushing(m)' \/ Settling(m)') THEN given'[m] - 1 ELSE given'[m]
  BY <1>2, <1>8, <1>10, <1>11
<1>16. AtMostBut(Stream(m)', late'[m], IF Pushing(m)' THEN given'[m] - 1 ELSE given'[m])
  BY <1>7, <1>12, <1>14
<1>17. m \in Bools /\ unsent'[m] /\ ~Settling(m)' => BelowBut(Stream(m)', late'[m], kept'[m])
  BY <1>7, <1>8, <1>12, <1>13, <1>15
<1> QED BY <1>1, <1>7, <1>12, <1>15, <1>16, <1>17, OrderNext
-----------------------------------------------------------------------------
LEMMA OrderInit == Init => OrderInv
<1> SUFFICES ASSUME Init PROVE OrderInv
  OBVIOUS
<1>1. ASSUME NEW m \in Alone PROVE OrderOf(m)
  <2>1. m \in Measurement
    BY DEF Alone
  <2>2. Stream(m) = <<>> /\ kept[m] = 0 /\ given[m] = 0 /\ ~unsent[m]
    BY <2>1 DEF Init, Stream
  <2>3. ~Pushing(m) /\ ~Settling(m)
    BY DEF Init, Pushing, Settling
  <2>4. DOMAIN <<>> = {}
    OBVIOUS
  <2>5. InOrderBut(<<>>, late[m]) /\ AtMostBut(<<>>, late[m], Decided(m))
    BY <2>4 DEF InOrderBut, AtMostBut
  <2> QED BY <2>2, <2>3, <2>5 DEF OrderOf
<1>2. HandsInv
  BY DEF Init, HandsInv
<1>3. FlushInv
  BY DEF Init, FlushInv
<1> QED BY <1>1, <1>2, <1>3 DEF OrderInv

\* What the steps of a producer have in common.
LEMMA ProducerSteps ==
  ASSUME TypesInv, NEW p \in Producer, Produce(p) \/ ProducerThrows(p)
  PROVE  /\ UNCHANGED <<owned, late, sent, refused, sending, popped>>
         /\ UNCHANGED <<catcher, unflushed, flushing>>
         /\ lStopRequested => lStopRequested'
         /\ \A q \in Producer : q # p => pc'[q] = pc[q] /\ at'[q] = at[q]
         /\ \A n \in Measurement :
              n # at[p] => given'[n] = given[n] /\ kept'[n] = kept[n] /\ unsent'[n] = unsent[n]
         /\ \A q \in Producer : q # p => mine'[q] = mine[q] \/ (mine'[q] = 0 /\ at[q] \notin Bools)
<1>1. /\ pc \in [Producer -> Steps] /\ at \in [Producer -> Measurement]
      /\ given \in [Measurement -> 0..MaxSample] /\ kept \in [Measurement -> 0..MaxSample]
      /\ unsent \in [Measurement -> BOOLEAN] /\ mine \in [Producer -> 0..MaxSample]
      /\ TypeOK /\ WorksOnItsOwn
  BY DEF TypesInv, NumbersInv, TypeOK, Steps
<1>2. /\ UNCHANGED <<owned, late, sent, refused, sending, popped>>
      /\ UNCHANGED <<catcher, unflushed, flushing>>
      /\ lStopRequested => lStopRequested'
  BY DEF Produce, ProducerGoesOn, ProducerStops, Stores, Hold, Collect, Change, Report,
         ReportThrows, Settle, ReportSignals, ReportClears, ProducerThrows, producerVars,
         catcherVars, storerVars, storerData, shared
<1>3. \A q \in Producer : q # p => pc'[q] = pc[q] /\ at'[q] = at[q]
  BY <1>1 DEF Produce, ProducerGoesOn, ProducerStops, Stores, Hold, Collect, Change, Report,
         ReportThrows, Settle, ReportSignals, ReportClears, ProducerThrows, producerVars
<1>4. \A n \in Measurement : n # at[p] => given'[n] = given[n]
  BY <1>1 DEF Produce, ProducerGoesOn, ProducerStops, Stores, Hold, Collect, Change, Report,
         ReportThrows, Settle, ReportSignals, ReportClears, ProducerThrows, producerVars
<1>5. \A n \in Measurement : n # at[p] => kept'[n] = kept[n]
  BY <1>1 DEF Produce, ProducerGoesOn, ProducerStops, Hold, Collect, Change, Report,
         ReportThrows, Settle, ReportSignals, ReportClears, ProducerThrows, shared
<1>6. \A n \in Measurement : n # at[p] => unsent'[n] = unsent[n]
  BY <1>1 DEF Produce, ProducerGoesOn, ProducerStops, Hold, Collect, Change, Report,
         ReportThrows, Settle, ReportSignals, ReportClears, Clear, ProducerThrows, shared
<1>7. ASSUME NEW q \in Producer, q # p
      PROVE  mine'[q] = mine[q] \/ (mine'[q] = 0 /\ at[q] \notin Bools)
  <2>1. CASE ReportClears(p)
    <3>1. at[p] \notin Bools
      BY <1>1, <2>1 DEF ReportClears, WorksOnItsOwn
    <3> QED BY <2>1, <3>1 DEF ReportClears, Clear
  <2>2. CASE ~ReportClears(p)
    BY <1>1, <1>7, <2>2 DEF Produce, ProducerGoesOn, ProducerStops, Hold, Collect, Change,
         Report, ReportThrows, Settle, ReportSignals, ProducerThrows, shared
  <2> QED BY <2>1, <2>2
<1> QED BY <1>2, <1>3, <1>4, <1>5, <1>6, <1>7

\* The steps that neither store nor queue.
OtherSteps(p) ==
  ProducerGoesOn(p) \/ ProducerStops(p) \/ ReportThrows(p) \/ ReportSignals(p)
    \/ ReportClears(p) \/ ProducerThrows(p)
LEMMA OtherStepsQuiet ==
  ASSUME TypesInv, NEW p \in Producer, OtherSteps(p)
  PROVE  /\ UNCHANGED <<given, kept, lSendQueue>>
         /\ \A n \in Measurement : unsent'[n] => unsent[n]
         /\ pc'[p] \notin {"push", "settle"} \/ (pc' = pc /\ at' = at /\ mine' = mine)
         /\ \/ pc[p] \notin {"push", "settle"} /\ pc'[p] \notin {"push", "settle"}
            \/ pc'[p] = pc[p] /\ at'[p] = at[p]
<1>1. /\ pc \in [Producer -> Steps] /\ at \in [Producer -> Measurement]
      /\ unsent \in [Measurement -> BOOLEAN]
  BY DEF TypesInv, TypeOK, Steps
<1>2. After(p) \in {"check", "done"}
  BY DEF After
<1>3. CASE ReportClears(p)
  BY <1>1, <1>2, <1>3 DEF ReportClears, Clear
<1>4. CASE OtherSteps(p) /\ ~ReportClears(p)
  BY <1>1, <1>2, <1>4 DEF OtherSteps, ProducerGoesOn, ProducerStops, ReportThrows,
                          ReportSignals, ProducerThrows, producerVars, shared
<1> QED BY <1>3, <1>4

LEMMA ProducerOrder ==
  ASSUME TypesInv, TypesInv', OrderInv, NEW p \in Producer, Produce(p) \/ ProducerThrows(p)
  PROVE  OrderInv'
<1>1. /\ TypeOK /\ WorksOnItsOwn /\ HandsInv /\ FlushInv
      /\ pc \in [Producer -> Steps] /\ at \in [Producer -> Measurement]
      /\ mine \in [Producer -> 0..MaxSample]
  BY DEF TypesInv, NumbersInv, TypeOK, Steps, OrderInv
<1>2. /\ UNCHANGED <<owned, late, sent, refused, sending, popped>>
      /\ UNCHANGED <<catcher, unflushed, flushing>>
      /\ lStopRequested => lStopRequested'
      /\ \A q \in Producer : q # p => pc'[q] = pc[q] /\ at'[q] = at[q]
      /\ \A n \in Measurement :
           n # at[p] => given'[n] = given[n] /\ kept'[n] = kept[n] /\ unsent'[n] = unsent[n]
      /\ \A q \in Producer : q # p => mine'[q] = mine[q] \/ (mine'[q] = 0 /\ at[q] \notin Bools)
  BY ProducerSteps
<1>3. PICK h \in Measurement : h = at[p]
  BY <1>1
<1>4. Alone' = Alone /\ \A n \in Alone : n \in Measurement /\ OrderOf(n)
  BY <1>2 DEF Alone, OrderInv
<1>5. \/ Hold(p) \/ Collect(p) \/ Change(p)
      \/ Report(p)
      \/ Settle(p)
      \/ OtherSteps(p)
  BY DEF Produce, OtherSteps
<1>6. \A n \in Measurement : n # h \/ ~Report(p) => Stream(n)' = Stream(n)
  <2>1. CASE Report(p)
    <3>1. PICK q \in Seq(Numbers) : Push(h, q)
      BY <1>1, <1>3, <2>1, ReportPushes DEF TypesInv
    <3>2. Appends(h, q)
      BY <1>1, <1>2, <3>1, PushAppends
    <3> QED BY <2>1, <3>2 DEF Appends
  <2>2. CASE ~Report(p)
    <3>1. UNCHANGED lSendQueue
      BY <2>2 DEF Produce, ProducerGoesOn, ProducerStops, Stores, Hold, Collect, Change,
                  ReportThrows, Settle, ReportSignals, ReportClears, ProducerThrows, shared
    <3> QED BY <1>2, <3>1 DEF Stream
  <2> QED BY <2>1, <2>2
<1>7. FlushInv'
  BY <1>1, <1>2 DEF FlushInv
<1>8. CASE OtherSteps(p)
  <2>1. /\ UNCHANGED <<given, kept, lSendQueue>>
        /\ \A n \in Measurement : unsent'[n] => unsent[n]
        /\ pc'[p] \notin {"push", "settle"} \/ (pc' = pc /\ at' = at /\ mine' = mine)
        /\ \/ pc[p] \notin {"push", "settle"} /\ pc'[p] \notin {"push", "settle"}
           \/ pc'[p] = pc[p] /\ at'[p] = at[p]
    BY <1>8, OtherStepsQuiet
  <2>2. ASSUME NEW n \in Alone PROVE OrderOf(n)'
    <3>1. (Pushing(n)' <=> Pushing(n)) /\ (Settling(n)' <=> Settling(n))
      BY <1>2, <1>4, <2>1, PhasesKept
    <3>2. Stream(n)' = Stream(n)
      BY <1>2, <2>1 DEF Stream
    <3> QED BY <1>2, <1>4, <2>1, <3>1, <3>2, QuietOrder
  <2>3. HandsInv'
    <3>1. ASSUME NEW q \in Producer, pc'[q] \in {"push", "settle"}, at'[q] \in Alone
          PROVE  /\ given'[at'[q]] > 0
                 /\ mine'[q] = given'[at'[q]] \/ (mine'[q] = 0 /\ at'[q] \notin Bools)
      <4>1. pc'[q] = pc[q] /\ at'[q] = at[q]
        BY <1>2, <2>1, <3>1
      <4>2. mine'[q] = mine[q] \/ (mine'[q] = 0 /\ at[q] \notin Bools)
        BY <1>2, <2>1, <3>1
      <4> QED BY <1>1, <2>1, <3>1, <4>1, <4>2 DEF HandsInv
    <3> QED BY <1>4, <3>1 DEF HandsInv
  <2> QED BY <1>4, <1>7, <2>2, <2>3 DEF OrderInv
<1>9. CASE Hold(p) \/ Collect(p) \/ Change(p) \/ Report(p) \/ Settle(p)
  <2>1. UNCHANGED at /\ pc[p] \in {"store", "push", "settle"}
    BY <1>9 DEF Hold, Collect, Change, Stores, Report, Settle
  <2>2. h \in owned[p]
    BY <1>1, <1>3, <2>1 DEF WorksOnItsOwn
  <2>3. ASSUME NEW n \in Alone, n # h PROVE OrderOf(n)'
    <3>1. at'[p] = at[p] /\ at[p] # n
      BY <1>3, <2>1, <2>3
    <3>2. (Pushing(n)' <=> Pushing(n)) /\ (Settling(n)' <=> Settling(n))
      BY <1>2, <1>4, <3>1, PhasesKept
    <3> QED BY <1>2, <1>3, <1>4, <1>6, <2>3, <3>2, QuietOrder
  <2>4. h \in Alone => OrderOf(h)'
    <3> SUFFICES ASSUME h \in Alone PROVE OrderOf(h)'
      OBVIOUS
    <3>1. CASE Hold(p) \/ Collect(p) \/ Change(p)
      BY <1>3, <1>4, <3>1, StoreOrder
    <3>2. CASE Report(p)
      BY <1>1, <1>3, <1>4, <3>2, ReportOrder
    <3>3. CASE Settle(p)
      BY <1>1, <1>3, <1>4, <3>3, SettleOrder
    <3> QED BY <1>9, <3>1, <3>2, <3>3
  <2>5. HandsInv'
    <3>1. ASSUME NEW q \in Producer, pc'[q] \in {"push", "settle"}, at'[q] \in Alone
          PROVE  /\ given'[at'[q]] > 0
                 /\ mine'[q] = given'[at'[q]] \/ (mine'[q] = 0 /\ at'[q] \notin Bools)
      <4>1. CASE q # p
        <5>1. pc'[q] = pc[q] /\ at'[q] = at[q]
          BY <1>2, <4>1
        <5>2. at[q] \in owned[q] /\ at[q] \in Alone /\ at[q] \in Measurement
          BY <1>1, <3>1, <5>1 DEF WorksOnItsOwn
        <5>3. at[q] # at[p]
          BY <1>3, <2>2, <4>1, <5>2 DEF Alone
        <5>4. given'[at[q]] = given[at[q]]
          BY <1>2, <5>2, <5>3
        <5>5. mine'[q] = mine[q] \/ (mine'[q] = 0 /\ at[q] \notin Bools)
          BY <1>2, <4>1
        <5> QED BY <1>1, <3>1, <5>1, <5>4, <5>5 DEF HandsInv
      <4>2. CASE q = p /\ (Collect(p) \/ Change(p))
        <5>1. Stores(p) /\ mine' = [mine EXCEPT ![p] = This(h)]
          BY <1>3, <4>2 DEF Collect, Change
        <5>2. PICK n \in Nat : n = given[h] /\ given' = [given EXCEPT ![h] = n + 1]
                                /\ This(h) = n + 1
          BY <1>1, <1>3, <5>1, Room
        <5>3. given'[h] = n + 1 /\ mine'[p] = n + 1
          BY <1>1, <5>1, <5>2 DEF TypeOK
        <5> QED BY <1>3, <2>1, <4>2, <5>2, <5>3
      <4>3. CASE q = p /\ Report(p)
        <5>1. /\ UNCHANGED given /\ pc[p] = "push"
              /\ mine' = [mine EXCEPT ![p] = IF h \in Bools THEN @ ELSE 0]
          BY <1>3, <4>3 DEF Report
        <5>2. mine'[p] = mine[p] \/ (mine'[p] = 0 /\ h \notin Bools)
          BY <1>1, <5>1
        <5> QED BY <1>1, <1>3, <2>1, <3>1, <4>3, <5>1, <5>2 DEF HandsInv
      <4>4. CASE q = p /\ (Hold(p) \/ Settle(p))
        <5>1. pc'[p] \in {"check", "done", "signal"}
          BY <1>1, <4>4 DEF Hold, Settle, After
        <5> QED BY <3>1, <4>4, <5>1
      <4> QED BY <1>9, <4>1, <4>2, <4>3, <4>4
    <3> QED BY <1>4, <3>1 DEF HandsInv
  <2> QED BY <1>4, <1>7, <2>3, <2>4, <2>5 DEF OrderInv
<1> QED BY <1>5, <1>8, <1>9

LEMMA CatcherOrder ==
  ASSUME TypesInv, OrderInv, Catch \/ SigTerm
  PROVE  OrderInv'
<1>1. /\ TypeOK /\ NumbersInv /\ HandsInv /\ FlushInv /\ flushing \in Measurement
      /\ unsent \in [Measurement -> BOOLEAN] /\ late \in [Measurement -> Nat]
      /\ unflushed \subseteq Measurement
  BY DEF TypesInv, OrderInv, TypeOK
<1>2. /\ UNCHANGED <<given, pc, at, owned, kept, sent, sending, popped>>
      /\ lStopRequested => lStopRequested'
  BY DEF Catch, SigTerm, CatcherSeesStop, FlushNothing, FlushTests, FlushPushes, FlushThrows,
         FlushSignals, FlushClears, CatcherDone, producerVars, storerVars, storerData, shared
<1>3. Alone' = Alone /\ \A n \in Alone : n \in Measurement /\ OrderOf(n)
  BY <1>2 DEF Alone, OrderInv
<1>4. \A n \in Measurement : unsent'[n] => unsent[n]
  BY <1>1 DEF Catch, SigTerm, CatcherSeesStop, FlushNothing, FlushTests, FlushPushes,
              FlushThrows, FlushSignals, FlushClears, Clear, CatcherDone, shared
<1>5. \A n \in Measurement : (Pushing(n)' <=> Pushing(n)) /\ (Settling(n)' <=> Settling(n))
  BY <1>2 DEF Pushing, Settling
<1>6. \A q \in Producer : mine'[q] = mine[q] \/ (mine'[q] = 0 /\ at[q] \notin Bools)
  <2>1. CASE FlushClears
    <3>1. flushing \notin Bools
      BY <1>1, <2>1 DEF FlushClears, NumbersInv, FlushesNumbers
    <3> QED BY <2>1, <3>1 DEF FlushClears, Clear
  <2>2. CASE ~FlushClears
    BY <2>2 DEF Catch, SigTerm, CatcherSeesStop, FlushNothing, FlushTests, FlushPushes,
                FlushThrows, FlushSignals, CatcherDone, shared
  <2> QED BY <2>1, <2>2
<1>7. HandsInv'
  BY <1>1, <1>2, <1>3, <1>6 DEF HandsInv
<1>8. CASE FlushPushes
  <2>1. /\ late' = [late EXCEPT ![flushing] = Len(Stream(flushing)) + 1]
        /\ catcher = "push" /\ catcher' \in {"flush", "signal"}
        /\ UNCHANGED <<unflushed, lStopRequested>>
    BY <1>8 DEF FlushPushes
  <2>2. PICK x \in Numbers : x = Flushed
    BY <1>1, <1>8, FlushPushed
  <2>3. Appends(flushing, <<x>>)
    BY <1>1, <1>2, <1>8, <2>2, FlushPushed, PushAppends
  <2>4. ASSUME NEW n \in Alone PROVE OrderOf(n)'
    <3>1. CASE n = flushing
      BY <1>1, <1>3, <1>8, <2>1, <3>1, FlushOrder DEF FlushInv
    <3>2. CASE n # flushing
      <4>1. Stream(n)' = Stream(n) /\ late'[n] = late[n]
        BY <1>1, <1>3, <2>1, <2>3, <3>2 DEF Appends
      <4> QED BY <1>2, <1>3, <1>4, <1>5, <4>1, QuietOrder
    <3> QED BY <3>1, <3>2
  <2>5. FlushInv'
    <3>1. \A m \in unflushed : m # flushing /\ late'[m] = late[m]
      BY <1>1, <2>1 DEF FlushInv
    <3> QED BY <1>1, <2>1, <3>1 DEF FlushInv
  <2> QED BY <1>3, <1>7, <2>4, <2>5 DEF OrderInv
<1>9. CASE ~FlushPushes
  <2>1. UNCHANGED <<lSendQueue, late>>
    BY <1>9 DEF Catch, SigTerm, CatcherSeesStop, FlushNothing, FlushTests, FlushThrows,
                FlushSignals, FlushClears, CatcherDone, catcherVars, shared
  <2>2. ASSUME NEW n \in Alone PROVE OrderOf(n)'
    <3>1. Stream(n)' = Stream(n)
      BY <1>2, <2>1 DEF Stream
    <3> QED BY <1>2, <1>3, <1>4, <1>5, <2>1, <3>1, QuietOrder
  <2>3. FlushInv'
    <3>1. CASE \E m \in Measurement : FlushTests(m)
      <4>1. PICK m \in Measurement : FlushTests(m)
        BY <3>1
      <4>2. /\ catcher = "flush" /\ catcher' = "push" /\ m \in unflushed
            /\ unflushed' = unflushed \ {m} /\ flushing' = m /\ UNCHANGED lStopRequested
        BY <4>1 DEF FlushTests
      <4> QED BY <1>1, <2>1, <4>2 DEF FlushInv
    <3>2. CASE ~\E m \in Measurement : FlushTests(m)
      <4>1. /\ unflushed' \subseteq unflushed
            /\ catcher' = "wait" => catcher = "wait" /\ unflushed' = unflushed
            /\ catcher' # "wait" => lStopRequested'
            /\ catcher' = "push" => catcher = "push" /\ UNCHANGED <<flushing, unflushed>>
        BY <1>1, <1>9, <3>2
           DEF Catch, SigTerm, CatcherSeesStop, FlushNothing, FlushThrows, FlushSignals,
               FlushClears, CatcherDone, catcherVars, shared, FlushInv
      <4> QED BY <1>1, <2>1, <4>1 DEF FlushInv
    <3> QED BY <3>1, <3>2
  <2> QED BY <1>3, <1>7, <2>2, <2>3 DEF OrderInv
<1> QED BY <1>8, <1>9

\* The storer and the main thread.
LEMMA RestOrder ==
  ASSUME TypesInv, OrderInv, Store \/ SpuriousWakeup \/ Join \/ UNCHANGED vars
  PROVE  /\ OrderInv'
         /\ \A n \in Measurement : Stream(n)' = Stream(n)
         /\ UNCHANGED sent \/ ValueInserted \/ InsertRefused
         /\ UNCHANGED <<given, pc, at, owned>>
<1>1. /\ UNCHANGED <<given, pc, at, owned, late, catcher, unflushed, flushing>>
      /\ UNCHANGED <<kept, unsent, mine, lStopRequested>>
  BY DEF Store, SpuriousWakeup, StorerStarts, StorerScans, StorerSends, QueueTested,
         ValuePopped, ValueInserted, InsertRefused, StorerWaits, Join, ThreadsJoined,
         MainSignals, StorerJoined, vars, shared, producerVars, catcherVars
<1>2. /\ \A n \in Measurement : Stream(n)' = Stream(n)
      /\ UNCHANGED sent \/ ValueInserted \/ InsertRefused
  <2>1. CASE Store \/ SpuriousWakeup
    BY <2>1, StorerKeepsStreams
  <2>2. CASE Join \/ UNCHANGED vars
    BY <2>2 DEF Join, ThreadsJoined, MainSignals, StorerJoined, vars, storerVars, storerData,
                shared, Stream
  <2> QED BY <2>1, <2>2
<1>3. Alone' = Alone /\ \A n \in Alone : n \in Measurement /\ OrderOf(n)
  BY <1>1 DEF Alone, OrderInv
<1>4. \A n \in Measurement : (Pushing(n)' <=> Pushing(n)) /\ (Settling(n)' <=> Settling(n))
  BY <1>1 DEF Pushing, Settling
<1>5. ASSUME NEW n \in Alone PROVE OrderOf(n)'
  BY <1>1, <1>2, <1>3, <1>4, QuietOrder
<1>6. HandsInv' /\ FlushInv'
  BY <1>1, <1>3 DEF OrderInv, HandsInv, FlushInv
<1>7. OrderInv'
  BY <1>3, <1>5, <1>6 DEF OrderInv
<1> QED BY <1>1, <1>2, <1>7

LEMMA OrderStep == TypesInv /\ TypesInv' /\ OrderInv /\ [Next]_vars => OrderInv'
BY ProducerOrder, CatcherOrder, RestOrder DEF Next, Run, Stop, Ended

\* The values that a measurement of one thread has queued never go back in time and never
\* repeat, with the producers, the storer and the signal catcher interleaved as they like,
\* but for the value the signal catcher flushes, once and after the request to stop
\* (measurement.h:220-242, 279-290, 337-362).
THEOREM StreamAlwaysInOrder == Spec => []StreamInOrder
<1>1. TypesInv /\ TypesInv' /\ OrderInv /\ [Next]_vars => OrderInv'
  BY OrderStep
<1>2. TypesInv /\ OrderInv => StreamInOrder
  <2> SUFFICES ASSUME TypesInv, OrderInv PROVE StreamInOrder
    OBVIOUS
  <2>1. \A m \in Alone : InOrderBut(Stream(m), late[m])
    BY DEF OrderInv, OrderOf
  <2>2. ~lStopRequested => \A m \in Measurement : late[m] = 0
    BY DEF OrderInv, FlushInv
  <2> QED BY <2>1, <2>2 DEF StreamInOrder, InOrderBut
<1> QED BY <1>1, <1>2, OrderInit, TypesInvariant, PTL DEF Spec
-----------------------------------------------------------------------------
\* What a report appends, in the words of ValueStream.
LEMMA AppendedReport ==
  ASSUME NEW s \in Seq(Numbers), NEW q \in Seq(Numbers), Len(q) > 0
  PROVE  /\ Len(s \o q) > Len(s)
         /\ SubSeq(s \o q, 1, Len(s)) = s
         /\ (s \o q)[Len(s \o q)] = q[Len(q)]
<1>1. Len(s) \in Nat /\ Len(q) \in Nat
  BY LenProperties
<1>2. /\ Len(s \o q) = Len(s) + Len(q)
      /\ \A i \in 1..(Len(s) + Len(q)) :
           (s \o q)[i] = IF i <= Len(s) THEN s[i] ELSE q[i - Len(s)]
  BY ConcatProperties
<1>3. SubSeq(s \o q, 1, Len(s)) = s
  BY SubSeqOfConcat1, SubSeqFull, <1>1, <1>2
<1>4. (s \o q)[Len(s) + Len(q)] = q[Len(q)]
  <2>1. Len(s) + Len(q) \in 1..(Len(s) + Len(q)) /\ ~(Len(s) + Len(q) <= Len(s))
        /\ Len(s) + Len(q) - Len(s) = Len(q)
    BY <1>1
  <2> QED BY <1>2, <2>1
<1> QED BY <1>1, <1>2, <1>3, <1>4

\* An insert is a delivery.
LEMMA InsertDelivers ==
  ASSUME TypesInv, ValueInserted \/ InsertRefused, NEW m \in Measurement,
         Stream(m)' = Stream(m), Decided(m)' = Decided(m)
  PROVE  Promised(m)!Next \/ UNCHANGED Promised(m)!vars
<1>1. /\ TypeOK /\ PoppedInv /\ sending \in Measurement
      /\ sent \in [Measurement -> Seq(Numbers)]
  BY DEF TypesInv, TypeOK
<1>2. /\ sent' = [sent EXCEPT ![sending] = @ \o popped] /\ storer = "insert"
  BY DEF ValueInserted, InsertRefused
<1>3. Decided(m)' = Decided(m) /\ Stream(m)' = Stream(m)
  OBVIOUS
<1>4. CASE m = sending
  <2>1. popped \in Seq(Numbers)
    <3>1. (IF sending = m THEN popped ELSE <<>>) \in Seq(Numbers)
      BY <1>1, StreamType
    <3> QED BY <1>4, <3>1
  <2>2. Len(popped) = 1
    BY <1>1, <1>2 DEF PoppedInv, TypeOK
  <2>3. sent[m] \in Seq(Numbers) /\ lSendQueue[m] \in Seq(Numbers)
    BY <1>1 DEF TypeOK
  <2>4. sent'[m] = sent[m] \o popped
    BY <1>1, <1>2, <1>4
  <2>5. Stream(m) = (sent[m] \o popped) \o lSendQueue[m]
    BY <1>4 DEF Stream
  <2>6. /\ Len(sent[m] \o popped) = Len(sent[m]) + Len(popped)
        /\ sent[m] \o popped \in Seq(Numbers)
    BY <2>1, <2>3, ConcatProperties
  <2>7. Len(Stream(m)) = Len(sent[m] \o popped) + Len(lSendQueue[m])
    BY <2>3, <2>5, <2>6, ConcatProperties
  <2>8. Len(sent[m]) \in Nat /\ Len(lSendQueue[m]) \in Nat
    BY <2>3, LenProperties
  <2>9. Len(sent[m]) < Len(Stream(m)) /\ Len(sent'[m]) = Len(sent[m]) + 1
    <3>1. PICK a, b \in Nat : a = Len(sent[m]) /\ b = Len(lSendQueue[m])
      BY <2>8
    <3>2. Len(sent[m] \o popped) = a + 1
      BY <2>2, <2>6, <3>1
    <3>3. Len(Stream(m)) = a + 1 + b
      BY <2>7, <3>1, <3>2
    <3>4. Len(sent'[m]) = a + 1
      BY <2>4, <3>2
    <3>5. \A x, y \in Nat : x < x + 1 + y
      OBVIOUS
    <3> QED BY <3>1, <3>3, <3>4, <3>5, Zenon
  <2>10. Promised(m)!Deliver
    BY <1>3, <2>9 DEF Promised!Deliver
  <2> QED BY <2>10 DEF Promised!Next
<1>5. CASE m # sending
  <2>1. sent'[m] = sent[m]
    BY <1>1, <1>2, <1>5
  <2> QED BY <1>3, <2>1 DEF Promised!vars
<1> QED BY <1>4, <1>5

\* What has been decided, before and after a step.
LEMMA DecidedIs ==
  ASSUME NEW m \in Measurement
  PROVE  /\ Decided(m) = IF Pushing(m) THEN given[m] - 1 ELSE given[m]
         /\ Decided(m)' = IF Pushing(m)' THEN given'[m] - 1 ELSE given'[m]
BY DEF Decided, Pushing

\* Nothing that has been decided later is in the stream, before a stop.
LEMMA FreshNumber ==
  ASSUME TypesInv, OrderInv, ~lStopRequested, NEW m \in Alone, NEW n \in Nat, Decided(m) = n
  PROVE  \A i \in 1..Len(Stream(m)) : Stream(m)[i] # n + 1
<1>1. TypeOK /\ m \in Measurement /\ OrderOf(m) /\ late[m] = 0
  BY DEF TypesInv, Alone, OrderInv, FlushInv
<1>2. PICK s \in Seq(Numbers) : /\ s = Stream(m) /\ DOMAIN s = 1..Len(s)
                                /\ \A i \in DOMAIN s : s[i] \in Nat
  BY <1>1, NumbersInStream
<1>3. AtMostBut(s, 0, n)
  BY <1>1, <1>2 DEF OrderOf
<1>4. \A i \in 1..Len(s) : i # 0
  OBVIOUS
<1>5. \A i \in 1..Len(s) : s[i] <= n /\ s[i] \in Nat
  BY <1>2, <1>3, <1>4 DEF AtMostBut
<1>6. \A x \in Nat : x <= n => x # n + 1
  OBVIOUS
<1> QED BY <1>2, <1>5, <1>6

\* Holding back, collecting and noticing a change decide what the thread has given before.
LEMMA StoreImplements ==
  ASSUME TypesInv, TypesInv', OrderInv, NEW p \in Producer, NEW m \in Alone, m = at[p],
         Hold(p) \/ Collect(p) \/ Change(p), ~lStopRequested
  PROVE  Promised(m)!Next \/ UNCHANGED Promised(m)!vars
<1>1. TypeOK /\ WorksOnItsOwn /\ m \in Measurement /\ OrderOf(m)
  BY DEF TypesInv, NumbersInv, Alone, OrderInv
<1>2. /\ Stores(p) /\ pc[p] = "store" /\ UNCHANGED at
      /\ UNCHANGED <<sent, sending, popped, lSendQueue>>
      /\ pc' = [pc EXCEPT ![p] = IF Hold(p) THEN After(p) ELSE "push"]
  BY DEF Hold, Collect, Change, Stores, catcherVars, storerVars, storerData
<1>3. Stream(m)' = Stream(m)
  BY <1>2 DEF Stream
<1>4. m \in owned[p] /\ pc \in [Producer -> Steps]
  BY <1>1, <1>2 DEF WorksOnItsOwn, TypeOK, Steps
<1>5. PICK n \in Nat : n = given[m] /\ given'[m] = n + 1 /\ n + 1 \in Numbers
  <2>1. given[m] \in Nat /\ This(m) = given[m] + 1 /\ This(m) \in Numbers
        /\ given' = [given EXCEPT ![m] = This(m)]
    BY <1>1, <1>2, Room
  <2> QED BY <1>1, <2>1 DEF TypeOK
<1>6. /\ \A q \in Producer : q # p => pc'[q] = pc[q] /\ at'[q] = at[q]
      /\ pc'[p] = IF Hold(p) THEN After(p) ELSE "push"
      /\ at'[p] = m
  BY <1>2, <1>4
<1>7. ~Pushing(m) /\ (Pushing(m)' <=> ~Hold(p))
  BY <1>1, <1>2, <1>4, <1>6, OwnerMoves DEF After
<1>8. Decided(m) = n /\ Decided(m)' = IF Hold(p) THEN n + 1 ELSE n
  <2>1. n + 1 - 1 = n
    OBVIOUS
  <2> QED BY <1>1, <1>5, <1>7, <2>1, DecidedIs
<1>9. CASE ~Hold(p)
  <2>1. Decided(m)' = Decided(m)
    BY <1>8, <1>9
  <2> QED BY <1>2, <1>3, <2>1 DEF Promised!vars
<1>10. CASE Hold(p)
  <2>1. ~Settling(m)
    BY <1>1, <1>2, <1>4, <1>6, OwnerMoves
  <2>2. n # 0
    <3>1. kept[m] # 0
      BY <1>10 DEF Hold
    <3> QED BY <1>1, <1>5, <1>7, <2>1, <3>1, OrderNow
  <2>3. \A i \in 1..Len(Stream(m)) : Stream(m)[i] # n + 1
    BY <1>8, FreshNumber
  <2>4. PICK k \in Numbers : k = n + 1 /\ k # n
    BY <1>5
  <2>5. Promised(m)!Fresh(k)
    BY <1>8, <2>3, <2>4 DEF Promised!Fresh
  <2>6. Promised(m)!Hold(k)
    BY <1>2, <1>3, <1>8, <1>10, <2>2, <2>4, <2>5 DEF Promised!Hold
  <2> QED BY <2>6 DEF Promised!Next
<1> QED BY <1>9, <1>10

\* A report is a report of the stream.
LEMMA ReportImplements ==
  ASSUME TypesInv, OrderInv, NEW p \in Producer, NEW m \in Alone, m = at[p], Report(p),
         ~lStopRequested
  PROVE  Promised(m)!Next
<1>1. /\ TypeOK /\ WorksOnItsOwn /\ m \in Measurement /\ OrderOf(m) /\ HandsInv
      /\ pc \in [Producer -> Steps]
  BY DEF TypesInv, NumbersInv, Alone, OrderInv, TypeOK, Steps
<1>2. /\ pc[p] = "push" /\ UNCHANGED <<at, given, sent>>
      /\ pc' = [pc EXCEPT ![p] = IF m \in Bools THEN "settle" ELSE "signal"]
  BY DEF Report, storerVars, storerData
<1>3. PICK q \in Seq(Numbers) :
        Appends(m, q) /\ Len(q) > 0 /\ q[Len(q)] = given[m] /\ given[m] \in Numbers
  BY <1>1, ReportOrder
<1>4. PICK k \in Numbers : k = given[m] /\ k \in Nat /\ k - 1 \in Nat /\ k - 1 + 1 = k
  BY <1>3 DEF Numbers
<1>5. /\ m \in owned[p]
      /\ \A o \in Producer : o # p => pc'[o] = pc[o] /\ at'[o] = at[o]
      /\ pc'[p] # "push"
  BY <1>1, <1>2 DEF WorksOnItsOwn
<1>6. Pushing(m) /\ ~Pushing(m)'
  BY <1>1, <1>2, <1>5, OwnerMoves
<1>7. Decided(m) = k - 1 /\ Decided(m)' = k
  BY <1>1, <1>2, <1>4, <1>6, DecidedIs
<1>8. PICK s \in Seq(Numbers) : s = Stream(m)
  BY <1>1, StreamType
<1>9. /\ Stream(m)' = s \o q
      /\ Len(s \o q) > Len(s) /\ SubSeq(s \o q, 1, Len(s)) = s
      /\ (s \o q)[Len(s \o q)] = k
  BY <1>3, <1>4, <1>8, AppendedReport DEF Appends
<1>10. \A i \in 1..Len(s) : s[i] # k
  <2>1. PICK n \in Nat : n = k - 1 /\ n + 1 = k
    BY <1>4
  <2> QED BY <1>7, <1>8, <2>1, FreshNumber
<1>11. k # k - 1
  BY <1>4
<1>12. Promised(m)!Fresh(k)
  BY <1>7, <1>8, <1>10, <1>11 DEF Promised!Fresh
<1>13. Promised(m)!Report
  BY <1>7, <1>8, <1>9 DEF Promised!Report
<1>14. Promised(m)!StoreAndReport(k)
  BY <1>2, <1>7, <1>12, <1>13 DEF Promised!StoreAndReport
<1> QED BY <1>14 DEF Promised!Next

LEMMA StreamStep ==
  ASSUME TypesInv, TypesInv', OrderInv, OrderInv', [Next]_vars, NEW m \in Alone,
         ~lStopRequested'
  PROVE  Promised(m)!Next \/ UNCHANGED Promised(m)!vars
<1>1. TypeOK /\ WorksOnItsOwn /\ m \in Measurement /\ pc \in [Producer -> Steps]
  BY DEF TypesInv, NumbersInv, Alone, TypeOK, Steps
<1>2. CASE \E p \in Producer : Produce(p) \/ ProducerThrows(p)
  <2>1. PICK p \in Producer : Produce(p) \/ ProducerThrows(p)
    BY <1>2
  <2>2. /\ ~lStopRequested
        /\ UNCHANGED <<owned, late, sent, refused, sending, popped>>
        /\ \A q \in Producer : q # p => pc'[q] = pc[q] /\ at'[q] = at[q]
        /\ \A n \in Measurement : n # at[p] => given'[n] = given[n]
    BY <2>1, ProducerSteps
  <2>3. CASE m = at[p] /\ (Hold(p) \/ Collect(p) \/ Change(p))
    BY <2>2, <2>3, StoreImplements
  <2>4. CASE m = at[p] /\ Report(p)
    BY <2>2, <2>4, ReportImplements
  <2>5. CASE m # at[p] \/ OtherSteps(p) \/ Settle(p)
    <3>1. Stream(m)' = Stream(m)
      <4>1. CASE Report(p) /\ m # at[p]
        <5>1. PICK h \in Measurement : h = at[p]
          BY <1>1 DEF TypeOK
        <5>2. PICK q \in Seq(Numbers) : Push(h, q)
          BY <1>1, <4>1, <5>1, ReportPushes DEF TypesInv
        <5>3. Appends(h, q)
          BY <1>1, <2>2, <5>2, PushAppends
        <5> QED BY <1>1, <4>1, <5>1, <5>3 DEF Appends
      <4>2. CASE ~Report(p) \/ OtherSteps(p) \/ Settle(p)
        <5>1. UNCHANGED lSendQueue
          BY <2>1, <4>2 DEF Produce, OtherSteps, ProducerGoesOn, ProducerStops, Stores, Hold,
                 Collect, Change, ReportThrows, Settle, ReportSignals, ReportClears,
                 ProducerThrows, shared
        <5> QED BY <2>2, <5>1 DEF Stream
      <4> QED BY <2>5, <4>1, <4>2
    <3>2. given'[m] = given[m]
      <4>1. CASE OtherSteps(p)
        BY <4>1, OtherStepsQuiet
      <4>2. CASE Settle(p)
        BY <4>2 DEF Settle
      <4> QED BY <1>1, <2>2, <2>5, <4>1, <4>2
    <3>3. Pushing(m)' <=> Pushing(m)
      <4>1. CASE OtherSteps(p)
        <5>1. \/ pc[p] \notin {"push", "settle"} /\ pc'[p] \notin {"push", "settle"}
              \/ pc'[p] = pc[p] /\ at'[p] = at[p]
          BY <4>1, OtherStepsQuiet
        <5> QED BY <1>1, <2>2, <5>1, PhasesKept
      <4>2. CASE Settle(p)
        <5>1. pc[p] = "settle" /\ pc'[p] = "signal"
          BY <1>1, <4>2 DEF Settle
        <5> QED BY <2>2, <5>1 DEF Pushing
      <4>3. CASE m # at[p] /\ ~OtherSteps(p)
        <5>1. UNCHANGED at
          BY <2>1, <4>3 DEF Produce, OtherSteps, Hold, Collect, Change, Stores, Report, Settle
        <5> QED BY <1>1, <2>2, <4>3, <5>1, PhasesKept
      <4> QED BY <2>5, <4>1, <4>2, <4>3
    <3>4. Decided(m)' = Decided(m)
      BY <1>1, <3>2, <3>3, DecidedIs
    <3> QED BY <2>2, <3>1, <3>4 DEF Promised!vars
  <2> QED BY <2>1, <2>3, <2>4, <2>5 DEF Produce, OtherSteps
<1>3. CASE Catch \/ SigTerm
  <2>1. lStopRequested' \/ lStopRequested
    <3>1. FlushInv
      BY DEF OrderInv
    <3> QED BY <1>3, <3>1 DEF SigTerm, Catch, CatcherSeesStop, FlushNothing, FlushTests,
               FlushPushes, FlushThrows, FlushSignals, FlushClears, CatcherDone, FlushInv
  <2>2. lStopRequested => lStopRequested'
    BY <1>3 DEF Catch, SigTerm, CatcherSeesStop, FlushNothing, FlushTests, FlushPushes,
               FlushThrows, FlushSignals, FlushClears, CatcherDone, shared
  <2> QED BY <2>1, <2>2
<1>4. CASE Store \/ SpuriousWakeup \/ Join \/ UNCHANGED vars
  <2>1. /\ Stream(m)' = Stream(m)
        /\ UNCHANGED sent \/ ValueInserted \/ InsertRefused
        /\ UNCHANGED <<given, pc, at, owned>>
    BY <1>1, <1>4, RestOrder
  <2>2. Decided(m)' = Decided(m)
    BY <2>1 DEF Decided
  <2>3. CASE UNCHANGED sent
    BY <2>1, <2>2, <2>3 DEF Promised!vars
  <2>4. CASE ValueInserted \/ InsertRefused
    BY <1>1, <2>1, <2>2, <2>4, InsertDelivers
  <2> QED BY <2>1, <2>3, <2>4
<1> QED BY <1>2, <1>3, <1>4 DEF Next, Run, Stop, Ended

\* Until somebody asks the daemon to stop, every measurement that one thread stores in
\* implements the stream it promises: what is queued only grows at its end, ends in the
\* newest sample with each report, and is handed to the database in order and once, by a
\* storer that runs beside its thread (measurement.h:220-242, 279-290, 349-362).  Which
\* threads share the other measurements does not matter.
THEOREM StorerImplementsStreams == Spec => ImplementsValueStreams
<1>1. Init => \A m \in Alone : Promised(m)!Init
  BY DEF Init, Stream, Promised!Init, Decided, Alone
<1>2. TypesInv /\ TypesInv' /\ OrderInv /\ [Next]_vars => OrderInv'
  BY OrderStep
<1>3. TypesInv /\ TypesInv' /\ OrderInv /\ OrderInv' /\ [Next]_vars =>
        [\A m \in Alone : \/ lStopRequested'
                          \/ Promised(m)!Next
                          \/ UNCHANGED Promised(m)!vars]_vars
  BY StreamStep
<1> QED BY <1>1, <1>2, <1>3, OrderInit, TypesInvariant, PTL DEF Spec, ImplementsValueStreams
=============================================================================
