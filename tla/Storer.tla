------------------------------- MODULE Storer -------------------------------
(***************************************************************************)
(* How the values of a daemon's measurements reach the database            *)
(* (base/slowcontrolDaemon.cpp, base/include/measurement.h): the reader    *)
(* and poller threads store samples, the storer thread empties the send    *)
(* queues and sleeps on lStorerCondition in between, the signal catcher    *)
(* thread flushes every measurement when the daemon stops, and the main    *)
(* thread joins them all.                                                  *)
(*                                                                         *)
(* Which samples a flush picks is the subject of module Sparsifier; here a *)
(* measurement either holds its newest sample back or reports it.  The     *)
(* samples of a measurement are numbered in the order of their fStore, 0   *)
(* is "none yet".                                                          *)
(***************************************************************************)
EXTENDS Naturals, Sequences, FiniteSets

CONSTANTS Measurement,   \* the registered measurements (lMeasurements)
          Bools,         \* those of type measurement<bool>
          Skew,          \* lHeartBeatSkew, stored by fBeatHeart
          Producer,      \* the threads that call fStore
          Reader,        \* the reader thread, one of them
          Sharing,       \* the ways the threads can share out the measurements
          MaxSample,     \* bound: the number of samples stored in a measurement
          MaxShared,     \* bound: in one of several threads
          MaxBeat,       \* bound: in the skew, the last for the last heart beat
          MaxRefused     \* bound: the INSERTs the database refuses

ASSUME StorerAssumption ==
         /\ Bools \subseteq Measurement
         /\ Reader \in Producer
         /\ Skew \in Measurement \ Bools
         /\ Sharing \subseteq [Producer -> SUBSET Measurement]
         /\ \A o \in Sharing, p \in Producer : Skew \in o[p] <=> p = Reader
         /\ MaxSample \in Nat /\ MaxShared \in 1..MaxSample /\ MaxBeat \in 2..MaxSample
         /\ MaxRefused \in Nat

VARIABLES given,           \* per measurement, how many samples fStore was called with
          kept,            \* per measurement, the sample in lOldTime and lOldValue, or the
                           \* last of lValues
          unsent,          \* per measurement, what fFlush tests: lValues.size() > 1, or
                           \* lOldValueUnsent && !lNoValueYet for a bool
          lSendQueue,      \* per measurement
          sent,            \* per measurement, the samples fSendValue has issued INSERTs for
          refused,         \* per measurement, the places in sent of those that failed
          lStopRequested,
          pc,              \* what each producer does next
          at,              \* the measurement each producer is storing
          mine,            \* the sample each producer is about to push, at the index it
                           \* has in hand; 0 if lValues was cleared since
          lastBeat,        \* the reader beats the heart a last time
          owned,           \* the measurements each producer stores; never changed
          catcher,         \* what the signal catcher thread does next
          unflushed,       \* the measurements fFlushAllValues has not reached
          flushing,        \* the one it is at
          index,           \* the sample at the index fFlush has in hand there, 0 like mine
          late,            \* history: per measurement, the place in its stream of what the
                           \* signal catcher has flushed, 0 if nothing
          storer,          \* what the storer thread does next
          quitNow,
          unscanned,       \* the measurements its loop has not asked for values
          measurements,    \* those that had values to send
          sending,         \* the one in fSendValues
          popped,          \* the value it has popped and not yet inserted
          main             \* where fWaitForThreads is, or that the process was terminated

producerVars == <<given, pc, at, lastBeat, owned>>
catcherVars  == <<catcher, unflushed, flushing, late>>
storerData   == <<sent, refused, quitNow, unscanned, measurements, sending, popped>>
storerVars   == <<storer, storerData>>
shared       == <<kept, unsent, lSendQueue, lStopRequested, mine, index, main>>
vars == <<producerVars, catcherVars, storerVars, shared>>

Push(m, samples) == lSendQueue' = [lSendQueue EXCEPT ![m] = @ \o samples]

\* Everything measurement m has ever queued, in order: inserted, popped, waiting.
Stream(m) == sent[m] \o (IF sending = m THEN popped ELSE <<>>) \o lSendQueue[m]
-----------------------------------------------------------------------------
Init == /\ given = [m \in Measurement |-> 0]
        /\ kept = [m \in Measurement |-> 0]
        /\ unsent = [m \in Measurement |-> FALSE]
        /\ lSendQueue = [m \in Measurement |-> <<>>]
        /\ sent = [m \in Measurement |-> <<>>]
        /\ refused = [m \in Measurement |-> {}]
        /\ lStopRequested = FALSE
        /\ pc = [p \in Producer |-> IF p = Reader THEN "store" ELSE "check"]
        /\ at = [p \in Producer |-> Skew]
        /\ mine = [p \in Producer |-> 0]
        /\ lastBeat = FALSE
        /\ owned \in Sharing
        /\ catcher = "wait"
        /\ unflushed = Measurement
        /\ flushing = Skew
        /\ index = 0
        /\ late = [m \in Measurement |-> 0]
        /\ storer = "top"
        /\ quitNow = FALSE
        /\ unscanned = Measurement
        /\ measurements = {}
        /\ sending = Skew
        /\ popped = <<>>
        /\ main = "join"

\* An exception that nobody catches ends the process with all its threads.
Running == main # "terminated"

\* daemon::fSignalToStorer: notify_all, without the mutex and without a flag.
\* A storer that is not waiting right now misses it.
fSignalToStorer == storer' = IF storer = "waiting" THEN "top" ELSE storer
-----------------------------------------------------------------------------
\* The producers: fReaderThread, which begins with a heart beat, fPollerThread, and the
\* threads whose write requests store the new value.

\* The measurements only one thread stores in.
Alone == { m \in Measurement :
             \A p, q \in Producer : m \in owned[p] /\ m \in owned[q] => p = q }

Bound(m) == CASE m = Skew -> MaxBeat
              [] m \in Alone \ {Skew} -> MaxSample
              [] OTHER -> MaxShared

\* Once round the loop.  The bound leaves a number for the last heart beat.
ProducerGoesOn(p) ==
  /\ pc[p] = "check"
  /\ ~lStopRequested
  /\ \E m \in owned[p] : /\ given[m] < (IF m = Skew THEN MaxBeat - 1 ELSE Bound(m))
                         /\ at' = [at EXCEPT ![p] = m]
  /\ pc' = [pc EXCEPT ![p] = "store"]
  /\ UNCHANGED <<given, lastBeat, owned, catcherVars, storerVars, shared>>

\* A stopping thread returns; a stopping reader beats the heart a last time, which
\* stores the skew between the clocks.
ProducerStops(p) ==
  /\ pc[p] = "check"
  /\ lStopRequested
  /\ pc' = [pc EXCEPT ![p] = IF p = Reader THEN "store" ELSE "done"]
  /\ at' = [at EXCEPT ![p] = Skew]
  /\ lastBeat' = (lastBeat \/ p = Reader)
  /\ UNCHANGED <<given, owned, catcherVars, storerVars, shared>>

\* What follows a store: the next round, or the end after the last heart beat.
After(p) == IF p = Reader /\ lastBeat THEN "done" ELSE "check"

This(m) == given[m] + 1
Stores(p) == /\ pc[p] = "store"
             /\ given[at[p]] < Bound(at[p])
             /\ given' = [given EXCEPT ![at[p]] = This(at[p])]
             /\ UNCHANGED <<at, lastBeat, owned, catcherVars, storerVars, lSendQueue,
                            lStopRequested, index, main>>

\* fStore of an unchanged bool, or of a number inside the deadband.
Hold(p) ==
  LET m == at[p] IN
  /\ Stores(p)
  /\ kept[m] # 0
  /\ kept' = [kept EXCEPT ![m] = This(m)]
  /\ unsent' = [unsent EXCEPT ![m] = TRUE]
  /\ pc' = [pc EXCEPT ![p] = After(p)]
  /\ UNCHANGED mine

\* A number that leaves the deadband, or the first one: it joins lValues, and fFlush
\* takes down the indices it will send, before it has the mutex.
Collect(p) ==
  LET m == at[p] IN
  /\ Stores(p)
  /\ m \notin Bools
  /\ kept' = [kept EXCEPT ![m] = This(m)]
  /\ unsent' = [unsent EXCEPT ![m] = kept[m] # 0]
  /\ mine' = [mine EXCEPT ![p] = This(m)]
  /\ pc' = [pc EXCEPT ![p] = "push"]

\* A bool that changes.  Nothing is assigned before the mutex is taken.
Change(p) ==
  LET m == at[p] IN
  /\ Stores(p)
  /\ m \in Bools
  /\ mine' = [mine EXCEPT ![p] = This(m)]
  /\ pc' = [pc EXCEPT ![p] = "push"]
  /\ UNCHANGED <<kept, unsent>>

\* Under lSendQueueMutex.  A bool reports the old value first if that was held back (its
\* repetition a microsecond before the change has no number here, see BoolMeasurement).
\* Of a number whose index is from before somebody else cleared lValues, whatever is at
\* that index now, if anything is.
ReportsOldAlways(p) ==
  LET m == at[p] IN IF m \in Bools THEN <<kept[m], mine[p]>> ELSE <<mine[p]>>
ReportsNewestFirst(p) ==
  LET m == at[p] IN
  IF m \in Bools /\ unsent[m] THEN <<mine[p], kept[m]>> ELSE <<mine[p]>>
Reports(p) ==
  LET m == at[p] IN
  CASE m \in Bools /\ unsent[m] -> <<kept[m], mine[p]>>
    [] m \notin Bools /\ mine[p] = 0 -> <<kept[m]>>
    [] OTHER -> <<mine[p]>>
Report(p) ==
  LET m == at[p] IN
  /\ pc[p] = "push"
  /\ mine[p] = 0 => unsent[m]
  /\ Push(m, Reports(p))
  /\ mine' = [mine EXCEPT ![p] = IF m \in Bools THEN @ ELSE 0]
  /\ pc' = [pc EXCEPT ![p] = IF m \in Bools THEN "settle" ELSE "signal"]
  /\ UNCHANGED <<given, at, lastBeat, owned, catcherVars, storerVars, kept, unsent,
                 lStopRequested, index, main>>

\* lValues.at(index) throws a std::out_of_range, for which fExecuteGuarded has no catch.
ReportThrows(p) ==
  /\ pc[p] = "push"
  /\ mine[p] = 0
  /\ main' = "terminated"
  /\ UNCHANGED <<producerVars, catcherVars, storerVars, kept, unsent, lSendQueue,
                 lStopRequested, mine, index>>

\* A bool takes over the new value after it has released the mutex.
Settle(p) ==
  LET m == at[p] IN
  /\ pc[p] = "settle"
  /\ kept' = [kept EXCEPT ![m] = mine[p]]
  /\ unsent' = [unsent EXCEPT ![m] = FALSE]
  /\ mine' = [mine EXCEPT ![p] = 0]
  /\ pc' = [pc EXCEPT ![p] = "signal"]
  /\ UNCHANGED <<given, at, lastBeat, owned, catcherVars, storerVars, lSendQueue,
                 lStopRequested, index, main>>

ReportSignals(p) ==
  /\ pc[p] = "signal"
  /\ fSignalToStorer
  /\ pc' = [pc EXCEPT ![p] = IF at[p] \in Bools THEN After(p) ELSE "clear"]
  /\ UNCHANGED <<given, at, lastBeat, owned, catcherVars, storerData, shared>>

\* lValues keeps its last sample alone.  An index that another thread has in hand, but
\* that of the first sample, which is 0, is void.
Clear(m) ==
  /\ unsent' = [unsent EXCEPT ![m] = FALSE]
  /\ mine' = [q \in Producer |->
                IF pc[q] = "push" /\ at[q] = m /\ mine[q] # 1 THEN 0 ELSE mine[q]]
  /\ index' = IF catcher = "push" /\ flushing = m THEN 0 ELSE index

ReportClears(p) ==
  /\ pc[p] = "clear"
  /\ Clear(at[p])
  /\ pc' = [pc EXCEPT ![p] = After(p)]
  /\ UNCHANGED <<given, at, lastBeat, owned, catcherVars, storerVars, kept, lSendQueue,
                 lStopRequested, main>>

\* fReadCurrentValue, fProcessData or fProcess throws an exception of slowcontrol:
\* fExecuteGuarded calls fRequestStop.  The heart beat is not guarded.
ProducerThrows(p) ==
  /\ Running
  /\ pc[p] = "store"
  /\ at[p] # Skew
  /\ lStopRequested' = TRUE
  /\ pc' = [pc EXCEPT ![p] = "check"]
  /\ UNCHANGED <<given, at, lastBeat, owned, catcherVars, storerVars, kept, unsent, lSendQueue,
                 mine, index, main>>

Produce(p) == /\ Running
              /\ \/ ProducerGoesOn(p) \/ ProducerStops(p)
                 \/ Hold(p) \/ Collect(p) \/ Change(p)
                 \/ Report(p) \/ ReportThrows(p) \/ Settle(p)
                 \/ ReportSignals(p) \/ ReportClears(p)
-----------------------------------------------------------------------------
\* fSignalCatcherThread and fFlushAllValues.

SigTerm ==
  /\ Running
  /\ catcher = "wait"
  /\ lStopRequested' = TRUE
  /\ catcher' = "flush"
  /\ UNCHANGED <<producerVars, unflushed, flushing, late, storerVars, kept, unsent,
                 lSendQueue, mine, index, main>>

\* sigtimedwait returns every second, so a stop requested elsewhere is seen too.
CatcherSeesStop ==
  /\ catcher = "wait"
  /\ lStopRequested
  /\ catcher' = "flush"
  /\ UNCHANGED <<producerVars, unflushed, flushing, late, storerVars, shared>>

FlushNothing(m) ==
  /\ catcher = "flush"
  /\ m \in unflushed
  /\ ~unsent[m]
  /\ unflushed' = unflushed \ {m}
  /\ UNCHANGED <<producerVars, catcher, flushing, late, storerVars, shared>>

\* The test, and the indices of a number, without a lock.
FlushTests(m) ==
  /\ catcher = "flush"
  /\ m \in unflushed
  /\ unsent[m]
  /\ unflushed' = unflushed \ {m}
  /\ flushing' = m
  /\ index' = IF m \in Bools THEN 0 ELSE kept[m]
  /\ catcher' = "push"
  /\ UNCHANGED <<producerVars, late, storerVars, kept, unsent, lSendQueue,
                 lStopRequested, mine, main>>

\* Under lSendQueueMutex.  measurement<bool>::fFlush pushes what it finds by then, marks
\* it as sent at once and signals nobody.  (While a thread is assigning them, it can find
\* the time of one sample with the value of the next; such a row counts as either.)
FlushPushes ==
  LET m == flushing IN
  /\ catcher = "push"
  /\ m \notin Bools /\ index = 0 => unsent[m]
  /\ Push(m, <<IF index = 0 THEN kept[m] ELSE index>>)
  /\ late' = [late EXCEPT ![m] = Len(Stream(m)) + 1]
  /\ catcher' = IF m \in Bools THEN "flush" ELSE "signal"
  /\ unsent' = [unsent EXCEPT ![m] = @ /\ m \notin Bools]
  /\ index' = 0
  /\ UNCHANGED <<producerVars, unflushed, flushing, storerVars, kept, lStopRequested,
                 mine, main>>

FlushThrows ==
  /\ catcher = "push"
  /\ flushing \notin Bools /\ index = 0
  /\ main' = "terminated"
  /\ UNCHANGED <<producerVars, catcherVars, storerVars, kept, unsent, lSendQueue,
                 lStopRequested, mine, index>>

FlushSignals ==
  /\ catcher = "signal"
  /\ fSignalToStorer
  /\ catcher' = "clear"
  /\ UNCHANGED <<producerVars, unflushed, flushing, late, storerData, shared>>

FlushClears ==
  /\ catcher = "clear"
  /\ Clear(flushing)
  /\ catcher' = "flush"
  /\ UNCHANGED <<producerVars, unflushed, flushing, late, storerVars, kept, lSendQueue,
                 lStopRequested, main>>

CatcherDone ==
  /\ catcher = "flush"
  /\ unflushed = {}
  /\ catcher' = "done"
  /\ UNCHANGED <<producerVars, unflushed, flushing, late, storerVars, shared>>

Catch == /\ Running
         /\ \/ CatcherSeesStop
            \/ \E m \in Measurement : FlushNothing(m) \/ FlushTests(m)
            \/ FlushPushes \/ FlushThrows \/ FlushSignals \/ FlushClears \/ CatcherDone
-----------------------------------------------------------------------------
\* fStorerThread.

StorerStarts ==
  /\ storer = "top"
  /\ quitNow' = lStopRequested
  /\ unscanned' = Measurement
  /\ storer' = "scan"
  /\ UNCHANGED <<producerVars, catcherVars, sent, refused, measurements, sending, popped,
                 shared>>

\* fValuesToSend of one measurement after the other.
StorerScans(m) ==
  /\ storer = "scan"
  /\ m \in unscanned
  /\ unscanned' = unscanned \ {m}
  /\ measurements' = IF lSendQueue[m] = <<>> THEN measurements
                     ELSE measurements \cup {m}
  /\ storer' = IF unscanned' = {} THEN "choose" ELSE "scan"
  /\ UNCHANGED <<producerVars, catcherVars, sent, refused, quitNow, sending, popped, shared>>

StorerSends(m) ==
  /\ storer = "choose"
  /\ m \in measurements
  /\ measurements' = measurements \ {m}
  /\ sending' = m
  /\ storer' = "send"
  /\ UNCHANGED <<producerVars, catcherVars, sent, refused, quitNow, unscanned, popped, shared>>

\* fSendValues: test, lock and pop, insert.  The test does not hold lSendQueueMutex.
QueueNotTested ==
  /\ storer = "send"
  /\ storer' = "pop"
  /\ UNCHANGED <<producerVars, catcherVars, storerData, shared>>
QueueTested ==
  /\ storer = "send"
  /\ storer' = IF lSendQueue[sending] = <<>> THEN "choose" ELSE "pop"
  /\ UNCHANGED <<producerVars, catcherVars, storerData, shared>>

ValueLeftInQueue ==
  /\ storer = "pop"
  /\ popped' = <<Head(lSendQueue[sending])>>
  /\ storer' = "insert"
  /\ UNCHANGED <<producerVars, catcherVars, sent, refused, quitNow, unscanned, measurements,
                 sending, shared>>
ValuePopped ==
  /\ storer = "pop"
  /\ popped' = <<Head(lSendQueue[sending])>>
  /\ lSendQueue' = [lSendQueue EXCEPT ![sending] = Tail(@)]
  /\ storer' = "insert"
  /\ UNCHANGED <<producerVars, catcherVars, sent, refused, quitNow, unscanned, measurements,
                 sending, kept, unsent, lStopRequested, mine, index, main>>

OneValueInserted ==
  /\ storer = "insert"
  /\ sent' = [sent EXCEPT ![sending] = @ \o popped]
  /\ popped' = <<>>
  /\ storer' = "choose"
  /\ UNCHANGED <<producerVars, catcherVars, refused, quitNow, unscanned, measurements,
                 sending, shared>>
ValueInserted ==
  /\ storer = "insert"
  /\ sent' = [sent EXCEPT ![sending] = @ \o popped]
  /\ popped' = <<>>
  /\ storer' = "send"
  /\ UNCHANGED <<producerVars, catcherVars, refused, quitNow, unscanned, measurements,
                 sending, shared>>

\* The database refuses an INSERT: pgsql::request warns and returns, the value is lost.
Refusals == UNION { {m} \X refused[m] : m \in Measurement }
InsertRefused ==
  /\ storer = "insert"
  /\ Cardinality(Refusals) < MaxRefused
  /\ sent' = [sent EXCEPT ![sending] = @ \o popped]
  /\ refused' = [refused EXCEPT ![sending] = @ \cup {Len(sent'[sending])}]
  /\ popped' = <<>>
  /\ storer' = "send"
  /\ UNCHANGED <<producerVars, catcherVars, quitNow, unscanned, measurements, sending,
                 shared>>

\* The thread ends if it had seen the request to stop before it looked at the queues.
\* Otherwise it waits, with no predicate: whatever was queued and signalled since the
\* scan is not noticed.
StorerNeverQuits ==
  /\ storer = "choose"
  /\ measurements = {}
  /\ storer' = "waiting"
  /\ UNCHANGED <<producerVars, catcherVars, storerData, shared>>
StorerWaits ==
  /\ storer = "choose"
  /\ measurements = {}
  /\ storer' = IF quitNow THEN "done" ELSE "waiting"
  /\ UNCHANGED <<producerVars, catcherVars, storerData, shared>>

\* The C++ standard allows a wait to end without a notification.
SpuriousWakeup ==
  /\ Running
  /\ storer = "waiting"
  /\ storer' = "top"
  /\ UNCHANGED <<producerVars, catcherVars, storerData, shared>>

Store == /\ Running
         /\ \/ StorerStarts
            \/ \E m \in Measurement : StorerScans(m) \/ StorerSends(m)
            \/ QueueTested \/ ValuePopped \/ ValueInserted \/ InsertRefused
            \/ StorerWaits
-----------------------------------------------------------------------------
\* fWaitForThreads: join the threads, signal the storer once, join it.

ThreadsJoined ==
  /\ main = "join"
  /\ catcher = "done"
  /\ \A p \in Producer : pc[p] = "done"
  /\ main' = "signal"
  /\ UNCHANGED <<producerVars, catcherVars, storerVars, kept, unsent,
                 lSendQueue, lStopRequested, mine, index>>

MainSignals ==
  /\ main = "signal"
  /\ fSignalToStorer
  /\ main' = "joinStorer"
  /\ UNCHANGED <<producerVars, catcherVars, storerData, kept, unsent,
                 lSendQueue, lStopRequested, mine, index>>

StorerJoined ==
  /\ main = "joinStorer"
  /\ storer = "done"
  /\ main' = "done"
  /\ UNCHANGED <<producerVars, catcherVars, storerVars, kept, unsent,
                 lSendQueue, lStopRequested, mine, index>>

Join == ThreadsJoined \/ MainSignals \/ StorerJoined
-----------------------------------------------------------------------------
Run == \/ \E p \in Producer : Produce(p)
       \/ Store
       \/ SpuriousWakeup
Stop == \/ \E p \in Producer : ProducerThrows(p)
        \/ SigTerm
        \/ Catch
        \/ Join
Ended == main \in {"done", "terminated"} /\ UNCHANGED vars
Next == Run \/ Stop \/ Ended

Spec == Init /\ [][Next]_vars

\* Every thread is scheduled; nothing forces a signal, an exception or a spurious
\* wakeup to happen.
FairSpec == /\ Spec
            /\ \A p \in Producer : WF_vars(Produce(p))
            /\ WF_vars(Catch)
            /\ WF_vars(Store)
            /\ WF_vars(Join)

\* The daemon before anything asks it to stop.
FairSteadySpec == /\ Init /\ [][Run]_vars
                  /\ \A p \in Producer : WF_vars(Produce(p))
                  /\ WF_vars(Store)
-----------------------------------------------------------------------------
Numbers == 1..MaxSample

\* The types of the state.
TypeOK ==
  /\ given \in [Measurement -> 0..MaxSample]
  /\ kept \in [Measurement -> 0..MaxSample]
  /\ unsent \in [Measurement -> BOOLEAN]
  /\ lSendQueue \in [Measurement -> Seq(Numbers)]
  /\ sent \in [Measurement -> Seq(Numbers)]
  /\ refused \in [Measurement -> SUBSET Nat]
  /\ lStopRequested \in BOOLEAN
  /\ pc \in [Producer -> {"check", "store", "push", "settle", "signal", "clear", "done"}]
  /\ at \in [Producer -> Measurement]
  /\ mine \in [Producer -> 0..MaxSample]
  /\ lastBeat \in BOOLEAN
  /\ owned \in Sharing
  /\ catcher \in {"wait", "flush", "push", "signal", "clear", "done"}
  /\ unflushed \subseteq Measurement
  /\ flushing \in Measurement
  /\ index \in 0..MaxSample
  /\ late \in [Measurement -> Nat]
  /\ storer \in {"top", "scan", "choose", "send", "pop", "insert", "waiting", "done"}
  /\ quitNow \in BOOLEAN
  /\ unscanned \subseteq Measurement
  /\ measurements \subseteq Measurement
  /\ sending \in Measurement
  /\ popped \in {<<>>} \cup {<<n>> : n \in Numbers}
  /\ main \in {"join", "signal", "joinStorer", "done", "terminated"}

\* fSendValues tests the queue without its mutex and pops under it: nobody takes the
\* value in between, so front() and pop_front() never see an empty deque
\* (measurement.h:280-286).
PopsWhatItTested == storer = "pop" => lSendQueue[sending] # <<>>

\* The values a measurement of one thread has queued are its samples in their order,
\* none twice, whenever the storer takes them.  The one exception is the value that the
\* signal catcher flushes, between whose test and push the thread may have queued others
\* (measurement.h:337-340, 222-234): it can be late or a repetition, once per measurement
\* and after the request to stop only.
StreamInOrder ==
  /\ \A m \in Alone :
       \A i, j \in DOMAIN Stream(m) \ {late[m]} : i < j => Stream(m)[i] < Stream(m)[j]
  /\ ~lStopRequested => \A m \in Measurement : late[m] = 0

\* The last sample whose fate is decided: not the one that is about to be queued.
Decided(m) == IF \E p \in Producer : pc[p] = "push" /\ at[p] = m THEN given[m] - 1
              ELSE given[m]

\* What measurement m promises.
Promised(m) == INSTANCE ValueStream WITH
                 Sample <- Numbers, None <- 0, newest <- Decided(m),
                 queued <- Stream(m), delivered <- Len(sent[m])

\* Until somebody asks the daemon to stop, each measurement of one thread implements the
\* stream it promises, with the storer and the producers interleaved as they like
\* (measurement.h:220-242, 279-290, 349-362).
ImplementsValueStreams ==
  /\ \A m \in Alone : Promised(m)!Init
  /\ [][\A m \in Alone : \/ lStopRequested'
                         \/ Promised(m)!Next
                         \/ UNCHANGED Promised(m)!vars]_vars

\* The values in the table of a measurement, and those whose INSERT failed.
Rows(m) == { sent[m][i] : i \in DOMAIN sent[m] \ refused[m] }
Lost(m) == { sent[m][i] : i \in DOMAIN sent[m] \cap refused[m] }

\* A value that is queued when the storer begins a round reaches the table, whatever the
\* other threads do, also in the round begun after the request to stop: unless the
\* database refuses its INSERT, which the code only warns about (pgsqlWrapper.cpp:54-58),
\* or an exception ends the process.
RoundDelivers ==
  \A m \in Measurement, n \in Numbers :
    (storer = "top" /\ \E i \in DOMAIN lSendQueue[m] : lSendQueue[m][i] = n)
      ~> (n \in Rows(m) \cup Lost(m) \/ ~Running)

\* A storer that begins a round after the request to stop lets the daemon end, as far as
\* it depends on the threads that store, the storer and the signal catcher.
LateRoundEnds == (storer = "top" /\ lStopRequested) ~> (main = "done" \/ ~Running)

\* Every queued value is inserted (measurement.h:52, fSendValues: "send values in send
\* queue to database").  The code does not guarantee it: a signal between the storer's
\* scan and its wait is lost.
QueuedIsSent ==
  \A m \in Measurement, n \in Numbers :
    (\E i \in DOMAIN lSendQueue[m] : lSendQueue[m][i] = n)
      ~> (\E i \in DOMAIN sent[m] : sent[m][i] = n)

\* When the daemon has ended, what fFlush queued is in the database (measurement.h:51,
\* fFlush: "write current value into database").  The code does not guarantee it: the
\* storer may have quit while the signal catcher is still flushing.
FlushedAtExit == main = "done" => \A m \in Measurement : lSendQueue[m] = <<>>
=============================================================================
