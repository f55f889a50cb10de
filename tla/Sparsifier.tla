----------------------------- MODULE Sparsifier -----------------------------
(***************************************************************************)
(* measurement<T> (base/include/measurement.h): the deadband compression   *)
(* of the values of one measurement.  fStore collects samples in lValues   *)
(* while they stay inside the deadband; fFlush moves the extremes and the  *)
(* last sample of the collection to the send queue, from where fSendValues *)
(* inserts them in the database.  Calls are sequential here: the threads   *)
(* that make them are in module Storer.                                    *)
(*                                                                         *)
(* Values are integers (the integral instantiations of T; NaN is out).     *)
(* Indices count from 0 as in the code, so sample i of values is           *)
(* values[i + 1].                                                          *)
(***************************************************************************)
EXTENDS Integers, Sequences

CONSTANTS Values,     \* the readings a sensor can deliver
          DeadBands,  \* what the config option "DeadBand" can be set to
          MaxTime     \* bound: the number of calls of fStore

ASSUME ConstantsAssumption ==
         /\ Values \subseteq Int
         /\ DeadBands \subseteq Nat
         /\ MaxTime \in Nat

VARIABLES lValues,         \* the samples since the last report, and that report's last one
          lMinValueIndex,
          lMaxValueIndex,
          lSendQueue,
          lDeadBand,
          table,           \* the rows fSendValue has issued INSERTs for, oldest first
          clock,           \* the time of the last fStore
          since            \* history: every sample stored since the last report, and
                           \* the last one of that report

vars == <<lValues, lMinValueIndex, lMaxValueIndex, lSendQueue, lDeadBand, table,
          clock, since>>

timedValue == [lTime : 1..MaxTime, lValue : Values]
Last(values) == values[Len(values)]
-----------------------------------------------------------------------------
Init == /\ lValues = <<>>
        /\ lMinValueIndex = 0
        /\ lMaxValueIndex = 0
        /\ lSendQueue = <<>>
        /\ lDeadBand \in DeadBands
        /\ table = <<>>
        /\ clock = 0
        /\ since = {}

\* A third equal value in a row only moves the time of the last sample.
Recorded(s) ==
  LET n == Len(lValues)
  IN  IF n > 2 /\ lValues[n].lValue = s.lValue /\ lValues[n - 1].lValue = s.lValue
        THEN [lValues EXCEPT ![n] = s]
        ELSE Append(lValues, s)

MinIndex(values, v) ==
  IF v < values[lMinValueIndex + 1].lValue THEN Len(values) - 1 ELSE lMinValueIndex

MaxIndexLatest(values, v) ==
  IF v >= values[lMaxValueIndex + 1].lValue THEN Len(values) - 1 ELSE lMaxValueIndex
MaxIndex(values, v) ==
  IF v > values[lMaxValueIndex + 1].lValue THEN Len(values) - 1 ELSE lMaxValueIndex

LeavesOnlyUpwards(values, lo, hi, v) ==
  v >= values[lo + 1].lValue + lDeadBand \/ Len(values) = 1
LeavesDeadBand(values, lo, hi, v) ==
  \/ v >= values[lo + 1].lValue + lDeadBand
  \/ v <= values[hi + 1].lValue - lDeadBand
  \/ Len(values) = 1

\* The samples fFlush sends: the two extremes, unless they are the sample at
\* index 0, which the previous flush has sent, and the last sample; in the order
\* of their indices, none twice (indicesToSend is a std::set).
PickedWithFirst(values, lo, hi) ==
  LET least == IF lo < hi THEN lo ELSE hi
      most  == IF lo < hi THEN hi ELSE lo
      early == IF least < most THEN <<values[least + 1]>> ELSE <<>>
      both  == IF most + 1 < Len(values) THEN Append(early, values[most + 1]) ELSE early
  IN  Append(both, Last(values))
PickedLastOnly(values, lo, hi) == <<Last(values)>>
Picked(values, lo, hi) ==
  LET least == IF lo < hi THEN lo ELSE hi
      most  == IF lo < hi THEN hi ELSE lo
      early == IF 0 < least /\ least < most THEN <<values[least + 1]>> ELSE <<>>
      both  == IF 0 < most /\ most + 1 < Len(values)
                 THEN Append(early, values[most + 1]) ELSE early
  IN  Append(both, Last(values))

ReportKeepsIndices(values, lo, hi) ==
  /\ lSendQueue' = lSendQueue \o Picked(values, lo, hi)
  /\ lValues' = <<Last(values)>>
  /\ lMinValueIndex' = lo
  /\ lMaxValueIndex' = hi
  /\ since' = {Last(values)}
Report(values, lo, hi) ==
  /\ lSendQueue' = lSendQueue \o Picked(values, lo, hi)
  /\ lValues' = <<Last(values)>>
  /\ lMinValueIndex' = 0
  /\ lMaxValueIndex' = 0
  /\ since' = {Last(values)}

\* measurement<T>::fStore.  aTime grows from call to call.
fStore(v) ==
  LET s      == [lTime |-> clock + 1, lValue |-> v]
      values == Recorded(s)
      lo     == MinIndex(values, v)
      hi     == MaxIndex(values, v)
  IN  /\ clock < MaxTime
      /\ clock' = clock + 1
      /\ \/ /\ LeavesDeadBand(values, lo, hi, v)
            /\ Report(values, lo, hi)
         \/ /\ ~LeavesDeadBand(values, lo, hi, v)
            /\ lValues' = values
            /\ lMinValueIndex' = lo
            /\ lMaxValueIndex' = hi
            /\ since' = since \cup {s}
            /\ UNCHANGED lSendQueue
      /\ UNCHANGED <<lDeadBand, table>>

\* measurement<T>::fFlush as fFlushAllValues calls it (aFlushSingleValue is
\* false): a single collected value has already been sent.
FlushEvenSingle == /\ Len(lValues) > 0
                   /\ Report(lValues, lMinValueIndex, lMaxValueIndex)
                   /\ UNCHANGED <<lDeadBand, table, clock>>
fFlush == /\ Len(lValues) > 1
          /\ Report(lValues, lMinValueIndex, lMaxValueIndex)
          /\ UNCHANGED <<lDeadBand, table, clock>>

\* One round of the loop in fSendValues: pop the front, insert it.  (An INSERT that the
\* database refuses loses the sample; that is in Storer.)
fSendValues ==
  /\ lSendQueue # <<>>
  /\ table' = Append(table, Head(lSendQueue))
  /\ lSendQueue' = Tail(lSendQueue)
  /\ UNCHANGED <<lValues, lMinValueIndex, lMaxValueIndex, lDeadBand, clock, since>>

\* measurementBase::fConfigure reads the options again; the deadband is one.
fConfigure(band) ==
  /\ lDeadBand' = band
  /\ UNCHANGED <<lValues, lMinValueIndex, lMaxValueIndex, lSendQueue, table, clock,
                 since>>

Next == \/ \E v \in Values : fStore(v)
        \/ fFlush
        \/ fSendValues
        \/ \E band \in DeadBands : fConfigure(band)

Spec == Init /\ [][Next]_vars
-----------------------------------------------------------------------------
\* Everything that has ever been queued, in order.
Queued == table \o lSendQueue

IndexInto(values) == 0..(IF values = <<>> THEN 0 ELSE Len(values) - 1)

\* The types of the state; the two indices can be passed to lValues.at().
TypeOK ==
  /\ lValues \in Seq(timedValue)
  /\ lMinValueIndex \in IndexInto(lValues)
  /\ lMaxValueIndex \in IndexInto(lValues)
  /\ lSendQueue \in Seq(timedValue)
  /\ table \in Seq(timedValue)
  /\ lDeadBand \in DeadBands
  /\ clock \in 0..MaxTime
  /\ since \subseteq timedValue

IsFirstMin(values, i) ==
  /\ i + 1 \in DOMAIN values
  /\ \A j \in DOMAIN values : values[i + 1].lValue <= values[j].lValue
  /\ \A j \in 1..i : values[i + 1].lValue < values[j].lValue

IsFirstMax(values, i) ==
  /\ i + 1 \in DOMAIN values
  /\ \A j \in DOMAIN values : values[j].lValue <= values[i + 1].lValue
  /\ \A j \in 1..i : values[j].lValue < values[i + 1].lValue

\* The indices that fStore maintains incrementally always point to the first
\* occurrence of the smallest and the largest collected value, so lValues.at()
\* is never called out of range and fFlush reports the time of an extreme's
\* first occurrence (measurement.h:261-266).
ExtremesTracked ==
  IF lValues = <<>> THEN lMinValueIndex = 0 /\ lMaxValueIndex = 0
  ELSE IsFirstMin(lValues, lMinValueIndex) /\ IsFirstMax(lValues, lMaxValueIndex)

\* No sample is reported twice or out of order: the times in the stream of
\* reports grow strictly, and the collection continues the stream at its last
\* report (the latest_measurements tables keep whatever was inserted last).
StreamInOrder ==
  /\ \A i, j \in DOMAIN Queued : i < j => Queued[i].lTime < Queued[j].lTime
  /\ \A i, j \in DOMAIN lValues : i < j => lValues[i].lTime < lValues[j].lTime
  /\ lValues # <<>> => Queued # <<>> /\ lValues[1] = Last(Queued)

\* Whenever fStore returns, the value it stored differs from the last reported
\* one by less than the deadband in force, however the values wandered since and
\* whenever the deadband was reconfigured.
DeadBandHonoured ==
  [][clock' # clock =>
       LET reported == Last(Queued').lValue
           stored   == Last(lValues').lValue
       IN  \/ stored = reported
           \/ stored - reported < lDeadBand' /\ reported - stored < lDeadBand']_vars

\* A flush reports the envelope of what it replaces: every sample stored since
\* the last flush, those collapsed into a repetition included, lies between two
\* samples of the stream that are not older than that flush.
EnvelopeReported ==
  [][Len(Queued') > Len(Queued) /\ Queued # <<>> =>
       LET visible == {Queued'[i].lValue : i \in Len(Queued)..Len(Queued')}
       IN  \A s \in since \cup since' :
             \E low, high \in visible : low <= s.lValue /\ s.lValue <= high]_vars

\* The compression implements the stream every measurement promises.
NoSample == [lTime |-> 0, lValue |-> 0]
Stream == INSTANCE ValueStream WITH
            Sample    <- timedValue,
            None      <- NoSample,
            newest    <- IF lValues = <<>> THEN NoSample ELSE Last(lValues),
            queued    <- Queued,
            delivered <- Len(table)
ImplementsValueStream == Stream!Spec
=============================================================================
