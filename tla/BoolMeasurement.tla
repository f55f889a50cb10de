--------------------------- MODULE BoolMeasurement ---------------------------
(***************************************************************************)
(* measurement<bool> (base/include/measurement.h): a contact, switch or    *)
(* motion sensor.  Only changes are inserted in the database; before a     *)
(* change the row of the last unchanged sample is added, and another one a *)
(* microsecond before the change, so that a graph has steps.  lOldValue    *)
(* and lOldTime are read by the first fStore without having been set.      *)
(* Calls are sequential here: the threads are in module Storer.            *)
(***************************************************************************)
EXTENDS Naturals, Sequences

CONSTANTS Gaps,    \* the microseconds between two samples
          MaxTime  \* bound: the clock

BoolAssumption == Gaps \subseteq Nat \ {0} /\ MaxTime \in Nat

VARIABLES lOldValue, lOldTime, lNoValueYet, lOldValueUnsent, lSendQueue,
          table,    \* the rows fSendValue has issued INSERTs for, oldest first
          clock,    \* the time of the last fStore
          samples   \* history: everything given to fStore

vars == <<lOldValue, lOldTime, lNoValueYet, lOldValueUnsent, lSendQueue, table, clock,
          samples>>

timedValue == [lTime : 0..MaxTime, lValue : BOOLEAN]
Timed(t, v) == [lTime |-> t, lValue |-> v]
-----------------------------------------------------------------------------
\* The constructor leaves lOldValue as it is in memory; a default time_point is the epoch.
Init == /\ lOldValue \in BOOLEAN
        /\ lOldTime = 0
        /\ lNoValueYet = TRUE
        /\ lOldValueUnsent = TRUE
        /\ lSendQueue = <<>>
        /\ table = <<>>
        /\ clock = 0
        /\ samples = {}

\* The old value, where it was last seen and just before the change.
OldRowsOmitted(aTime) == <<>>
OldRows(aTime) ==
  IF lOldValueUnsent THEN <<Timed(lOldTime, lOldValue), Timed(aTime - 1, lOldValue)>>
  ELSE <<>>

fStore(aValue, aTime) ==
  /\ aTime <= MaxTime
  /\ \/ /\ lNoValueYet \/ aValue # lOldValue
        /\ lSendQueue' = Append(lSendQueue \o OldRows(aTime), Timed(aTime, aValue))
        /\ lNoValueYet' = FALSE
        /\ lOldValue' = aValue
        /\ lOldValueUnsent' = FALSE
     \/ /\ ~lNoValueYet
        /\ aValue = lOldValue
        /\ lOldValueUnsent' = TRUE
        /\ UNCHANGED <<lSendQueue, lNoValueYet, lOldValue>>
  /\ lOldTime' = aTime
  /\ clock' = aTime
  /\ samples' = samples \cup {Timed(aTime, aValue)}
  /\ UNCHANGED table

FlushUnseenValue ==
  /\ lOldValueUnsent
  /\ lSendQueue' = Append(lSendQueue, Timed(lOldTime, lOldValue))
  /\ lOldValueUnsent' = FALSE
  /\ UNCHANGED <<lOldValue, lOldTime, lNoValueYet, table, clock, samples>>
fFlush ==
  /\ lOldValueUnsent
  /\ ~lNoValueYet
  /\ lSendQueue' = Append(lSendQueue, Timed(lOldTime, lOldValue))
  /\ lOldValueUnsent' = FALSE
  /\ UNCHANGED <<lOldValue, lOldTime, lNoValueYet, table, clock, samples>>

NothingToFlush ==
  /\ ~lOldValueUnsent \/ lNoValueYet
  /\ UNCHANGED vars

\* One round of the loop in fSendValues.
fSendValues ==
  /\ lSendQueue # <<>>
  /\ table' = Append(table, Head(lSendQueue))
  /\ lSendQueue' = Tail(lSendQueue)
  /\ UNCHANGED <<lOldValue, lOldTime, lNoValueYet, lOldValueUnsent, clock, samples>>

Next == \/ \E v \in BOOLEAN, gap \in Gaps : fStore(v, clock + gap)
        \/ fFlush \/ NothingToFlush
        \/ fSendValues

Spec == Init /\ [][Next]_vars
-----------------------------------------------------------------------------
\* Everything that has ever been queued, in order.
Queued == table \o lSendQueue

\* The types of the state; nothing is queued before the first sample.
TypeOK ==
  /\ lOldValue \in BOOLEAN
  /\ lOldTime \in 0..MaxTime
  /\ lNoValueYet \in BOOLEAN
  /\ lOldValueUnsent \in BOOLEAN
  /\ lSendQueue \in Seq(timedValue)
  /\ table \in Seq(timedValue)
  /\ clock \in 0..MaxTime
  /\ samples \subseteq timedValue
  /\ lNoValueYet <=> Queued = <<>>

\* v is what the sensor showed at time t: the newest sample that is not younger says so.
Showed(t, v) == \E s \in samples :
                  /\ s.lTime <= t
                  /\ s.lValue = v
                  /\ \A q \in samples : q.lTime <= t => q.lTime <= s.lTime

\* No row tells a wrong value, also none of those written for times at which there was
\* no sample, and the rows are in order.  The first two are an exception: they are
\* made of what happened to be in lOldValue (measurement.h:352-356).
RowsAreTrue ==
  /\ \A i, j \in DOMAIN Queued : i < j => Queued[i].lTime <= Queued[j].lTime
  /\ \A i \in DOMAIN Queued : i > 2 => Showed(Queued[i].lTime, Queued[i].lValue)

\* Nothing is lost by leaving out samples: at the time of each of them, up to the last
\* row, the row before and the row after have its value, so both a step graph and a
\* line graph of the table show it.
SamplesAreShown ==
  \A s \in samples :
    LET before == {i \in DOMAIN Queued : Queued[i].lTime <= s.lTime}
        after  == {i \in DOMAIN Queued : Queued[i].lTime >= s.lTime}
    IN  /\ \E i \in before : /\ Queued[i].lValue = s.lValue
                            /\ \A j \in before : j <= i
        /\ after # {} => \E i \in after : /\ Queued[i].lValue = s.lValue
                                         /\ \A j \in after : i <= j

\* What a reader sees who draws the rows: nothing false and nothing left out, with holds,
\* changes and flushes in any order.
GraphIsTrue == RowsAreTrue /\ SamplesAreShown

\* measurement<bool> implements the stream every measurement promises.
NoSample == Timed(0, FALSE)
Stream == INSTANCE ValueStream WITH
            Sample    <- timedValue,
            None      <- NoSample,
            newest    <- IF lNoValueYet THEN NoSample ELSE Timed(lOldTime, lOldValue),
            queued    <- Queued,
            delivered <- Len(table)
ImplementsValueStream == Stream!Spec
=============================================================================
