---------------------------- MODULE ValueStream ----------------------------
(***************************************************************************)
(* What one measurement promises to the readers of its database table: a   *)
(* stream of samples that only grows at its end, is delivered in order and *)
(* once, and whose last element is the newest sample whenever the          *)
(* measurement chose to report.  The interface is measurementBase (fFlush, *)
(* fSendValues, fValuesToSend) together with the fStore of its             *)
(* descendants; Sparsifier, BoolMeasurement and Storer are shown to        *)
(* implement it.  Delivered means handed over in an INSERT: one that the   *)
(* database refuses loses its sample (RoundDelivers of Storer).            *)
(***************************************************************************)
EXTENDS Naturals, Sequences

CONSTANTS Sample,  \* the samples that can be stored
          None     \* the value of newest before the first sample, none of them

VARIABLES newest,     \* the last sample given to fStore
          queued,     \* everything ever put in the send queue, oldest first
          delivered   \* how many of these have been handed to the database

vars == <<newest, queued, delivered>>
-----------------------------------------------------------------------------
\* The newest sample still waits for a report.
Unsent == newest # None /\ (queued = <<>> \/ queued[Len(queued)] # newest)

\* A report appends to the stream and ends in the newest sample.
Report == /\ Len(queued') > Len(queued)
          /\ SubSeq(queued', 1, Len(queued)) = queued
          /\ queued'[Len(queued')] = newest'

Fresh(s) == s # newest /\ \A i \in 1..Len(queued) : queued[i] # s

Init == newest = None /\ queued = <<>> /\ delivered = 0

\* A later sample may be held back; the first one never is.
Hold(s) == newest # None /\ Fresh(s) /\ newest' = s /\ UNCHANGED <<queued, delivered>>

StoreAndReport(s) == Fresh(s) /\ newest' = s /\ Report /\ UNCHANGED delivered

Flush == Unsent /\ Report /\ UNCHANGED <<newest, delivered>>

Deliver == /\ delivered < Len(queued)
           /\ delivered' = delivered + 1
           /\ UNCHANGED <<newest, queued>>

Next == \/ \E s \in Sample : Hold(s) \/ StoreAndReport(s)
        \/ Flush
        \/ Deliver

Spec == Init /\ [][Next]_vars
=============================================================================
