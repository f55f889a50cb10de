---------------------------- MODULE WriteRequests ----------------------------
(***************************************************************************)
(* Requests to set a value: rows of the table setvalue_requests, served by *)
(* the daemon that owns the uid (base/slowcontrolDaemon.cpp).  The main    *)
(* thread clears and serves what it finds when it starts; then the config  *)
(* change listener, woken by NOTIFY, serves new rows; rows with a time in  *)
(* the future go through gScheduledWriteRequests to the scheduled writer   *)
(* thread.  The daemon can die and be restarted at any moment; the table   *)
(* survives, the rest does not.  The database may refuse a statement,      *)
(* about which pgsql::request only warns.                                  *)
(*                                                                         *)
(* Main thread and listener never overlap and are one process here, the    *)
(* handler.  Each SQL statement is one step.  Time is counted in ticks     *)
(* longer than the millisecond of tolerance in fProcessPendingRequests.    *)
(***************************************************************************)
EXTENDS Naturals, FiniteSets

CONSTANTS Request,      \* the rows that clients insert
          Writeable,    \* those whose uid is in lWriteableMeasurements
          WellFormed,   \* those fParseForRequest accepts
          NoRequest,    \* nothing in hand
          NotYet,       \* the request_time of a row not inserted yet
          MaxTime,      \* bound: the clock
          MaxCrashes,   \* bound: how often the daemon dies
          MaxRefused    \* bound: the UPDATEs of one row that the database refuses

ASSUME RequestAssumption ==
         /\ Writeable \subseteq Request
         /\ WellFormed \subseteq Request
         /\ NoRequest \notin Request
         /\ NotYet \notin Nat
         /\ MaxTime \in Nat
         /\ MaxCrashes \in Nat
         /\ MaxRefused \in Nat

VARIABLES now,
          crashes,
          request_time,   \* per row; NotYet before it is inserted
          response,       \* per row; "null" as long as response_time is NULL
          result,         \* per row
          refused,        \* history: per row, how many UPDATEs of it were refused
          lStopRequested,
          executed,       \* history: how often fProcess has run for the row
          handler,        \* what the handler does next
          listening,      \* LISTEN setvalue_request_<id> has been executed
          notified,       \* rows whose notification poll will see
          absorbed,       \* rows whose notification libpq has read without poll
          batch,          \* rows of the SELECT not yet looked at
          row,            \* the one being looked at
          outcome,        \* what its fProcess returned
          gScheduledWriteRequests,
          writer,         \* what the scheduled writer does next
          req,            \* the request it waits for or has taken from the map
          writerOutcome,
          unheard,        \* history: inserted with nobody listening, or passed over by a
                          \* SELECT that failed, and not selected since
          dropped,        \* history: found their time taken in the map
          orphaned        \* history: were only in the memory of a daemon that died

client  == <<now, crashes, request_time, unheard>>
table   == <<response, result, refused>>
ears    == <<listening, notified, absorbed>>
handlerVars == <<handler, ears, batch, row, outcome>>
scheduled   == <<gScheduledWriteRequests, dropped>>
writerVars  == <<writer, req, writerOutcome>>
vars == <<client, table, executed, lStopRequested, handlerVars, scheduled, writerVars,
          orphaned>>

Outcome == {"true", "false"}
Inserted == {r \in Request : request_time[r] # NotYet}
Pending == {r \in Inserted : response[r] = "null"}

\* UPDATE setvalue_requests SET response_time=now(), response=..., result=... WHERE id=r
Refuse(S) == /\ \A r \in S : refused[r] < MaxRefused
             /\ refused' = [r \in Request |-> IF r \in S THEN refused[r] + 1 ELSE refused[r]]
             /\ UNCHANGED <<response, result>>
Answer(r, text, res) ==
  \/ /\ response' = [response EXCEPT ![r] = text]
     /\ result' = [result EXCEPT ![r] = res]
     /\ UNCHANGED refused
  \/ Refuse({r})

Init == /\ now = 0
        /\ crashes = 0
        /\ request_time = [r \in Request |-> NotYet]
        /\ response = [r \in Request |-> "null"]
        /\ result = [r \in Request |-> "null"]
        /\ refused = [r \in Request |-> 0]
        /\ executed = [r \in Request |-> 0]
        /\ lStopRequested = FALSE
        /\ handler = "clear"
        /\ listening = FALSE
        /\ notified = {}
        /\ absorbed = {}
        /\ batch = {}
        /\ row = NoRequest
        /\ outcome = "false"
        /\ gScheduledWriteRequests = {}
        /\ writer = "off"
        /\ req = NoRequest
        /\ writerOutcome = "false"
        /\ unheard = {}
        /\ dropped = {}
        /\ orphaned = {}
-----------------------------------------------------------------------------
\* The world: time passes, clients insert rows and change options, something asks the
\* daemon to stop, the daemon dies and is restarted.

Tick ==
  /\ now < MaxTime
  /\ now' = now + 1
  /\ UNCHANGED <<crashes, request_time, unheard, table, executed, lStopRequested, handlerVars,
                 scheduled, writerVars, orphaned>>

\* INSERT INTO setvalue_requests, for now or for later; the rule
\* setvalue_request_specific notifies the daemon if it listens.
Insert(r, when) ==
  /\ request_time[r] = NotYet
  /\ when >= now
  /\ request_time' = [request_time EXCEPT ![r] = when]
  /\ notified' = IF listening THEN notified \cup {r} ELSE notified
  /\ unheard' = IF listening THEN unheard ELSE unheard \cup {r}
  /\ UNCHANGED <<now, crashes, table, executed, lStopRequested, handler, listening, absorbed,
                 batch, row, outcome, scheduled, writerVars, orphaned>>

\* A notification of uid_configs wakes poll as well, and the loop reads all there are.
ConfigNotified ==
  /\ handler = "poll"
  /\ absorbed # {}
  /\ notified' = notified \cup absorbed
  /\ absorbed' = {}
  /\ UNCHANGED <<client, table, executed, lStopRequested, handler, listening, batch, row,
                 outcome, scheduled, writerVars, orphaned>>

\* A signal, or an exception in another thread.
StopRequested ==
  /\ ~lStopRequested
  /\ lStopRequested' = TRUE
  /\ UNCHANGED <<client, table, executed, handlerVars, scheduled, writerVars, orphaned>>

\* Memory and connection are gone.  Coming up again takes at least a tick.
CrashAndRestart ==
  /\ crashes < MaxCrashes
  /\ now < MaxTime
  /\ crashes' = crashes + 1
  /\ now' = now + 1
  /\ lStopRequested' = FALSE
  /\ handler' = "clear"
  /\ listening' = FALSE
  /\ notified' = {}
  /\ absorbed' = {}
  /\ batch' = {}
  /\ row' = NoRequest
  /\ outcome' = "false"
  /\ gScheduledWriteRequests' = {}
  /\ writer' = "off"
  /\ req' = NoRequest
  /\ writerOutcome' = "false"
  /\ orphaned' = orphaned \cup {r \in Inserted : result[r] = "null"}
  /\ unheard' = {}
  /\ dropped' = {}
  /\ UNCHANGED <<request_time, table, executed>>
-----------------------------------------------------------------------------
\* The handler: fClearOldPendingRequests, fProcessPendingRequests,
\* fConfigChangeListener.

NothingCleared ==
  /\ handler = "clear"
  /\ handler' = "select"
  /\ UNCHANGED <<client, table, executed, lStopRequested, ears, batch, row, outcome,
                 scheduled, writerVars, orphaned>>
AllOldMissed ==
  LET Old == {r \in Inserted : request_time[r] < now} IN
  /\ handler = "clear"
  /\ response' = [r \in Request |-> IF r \in Old THEN "missed" ELSE response[r]]
  /\ result' = [r \in Request |-> IF r \in Old THEN "false" ELSE result[r]]
  /\ handler' = "select"
  /\ UNCHANGED <<client, refused, executed, lStopRequested, ears, batch, row, outcome,
                 scheduled, writerVars, orphaned>>
fClearOldPendingRequests ==
  LET Old == {r \in Pending : request_time[r] < now} IN
  /\ handler = "clear"
  /\ \/ /\ response' = [r \in Request |-> IF r \in Old THEN "missed" ELSE response[r]]
        /\ result' = [r \in Request |-> IF r \in Old THEN "false" ELSE result[r]]
        /\ UNCHANGED refused
     \/ Refuse(Old)
  /\ handler' = "select"
  /\ UNCHANGED <<client, executed, lStopRequested, ears, batch, row, outcome, scheduled,
                 writerVars, orphaned>>

\* The SELECT returns every pending row of the daemon, whatever row the notification
\* was for, or nothing if it fails.
SelectPending ==
  /\ handler = "select"
  /\ \/ batch' = Pending /\ unheard' = unheard \ Pending
     \/ batch' = {} /\ unheard' = unheard \cup Pending
  /\ handler' = "rows"
  /\ UNCHANGED <<now, crashes, request_time, table, executed, lStopRequested, ears, row,
                 outcome, scheduled, writerVars, orphaned>>

\* The next row in the order of request_time.
IsNext(r) == /\ handler = "rows"
             /\ r \in batch
             /\ \A q \in batch : request_time[r] <= request_time[q]
Taken(r) == batch' = batch \ {r}

RowRefused(r) ==
  /\ IsNext(r)
  /\ r \notin Writeable \/ r \notin WellFormed
  /\ Taken(r)
  /\ Answer(r, IF r \notin Writeable THEN "not writeable" ELSE "malformed", "false")
  /\ UNCHANGED <<client, executed, lStopRequested, handler, ears, row, outcome, scheduled,
                 writerVars, orphaned>>

\* After emplace, notify_all wakes the writer, unless its wait has timed out already.
WriterNotified ==
  \/ writer = "wait" /\ writer' = "idle" /\ req' = NoRequest
  \/ writer = "wait" /\ request_time[req] <= now /\ UNCHANGED <<writer, req>>
  \/ writer # "wait" /\ UNCHANGED <<writer, req>>

\* std::map::emplace does nothing if another request is scheduled for the same time.
Emplaced(r) ==
  IF \E q \in gScheduledWriteRequests : request_time[q] = request_time[r]
    THEN gScheduledWriteRequests
    ELSE gScheduledWriteRequests \cup {r}

RowDroppedUnlessIdle(r) ==
  /\ IsNext(r)
  /\ r \in Writeable \cap WellFormed
  /\ request_time[r] > now
  /\ Taken(r)
  /\ gScheduledWriteRequests' = IF gScheduledWriteRequests = {} THEN {r}
                                ELSE gScheduledWriteRequests
  /\ dropped' = IF r \in Emplaced(r) THEN dropped \ {r} ELSE dropped \cup {r}
  /\ row' = r
  /\ handler' = "record scheduled"
  /\ WriterNotified
  /\ UNCHANGED <<client, table, executed, lStopRequested, ears, outcome, writerOutcome,
                 orphaned>>
RowScheduled(r) ==
  /\ IsNext(r)
  /\ r \in Writeable \cap WellFormed
  /\ request_time[r] > now
  /\ Taken(r)
  /\ gScheduledWriteRequests' = Emplaced(r)
  /\ dropped' = IF r \in Emplaced(r) THEN dropped \ {r} ELSE dropped \cup {r}
  /\ row' = r
  /\ handler' = "record scheduled"
  /\ WriterNotified
  /\ UNCHANGED <<client, table, executed, lStopRequested, ears, outcome, writerOutcome,
                 orphaned>>

\* response='scheduled' leaves the result alone: NULL, unless the scheduled writer has
\* been faster.
ScheduledWithResult ==
  /\ handler = "record scheduled"
  /\ Answer(row, "scheduled", "null")
  /\ row' = NoRequest
  /\ handler' = "rows"
  /\ UNCHANGED <<client, executed, lStopRequested, ears, batch, outcome, scheduled,
                 writerVars, orphaned>>
ScheduledRecorded ==
  /\ handler = "record scheduled"
  /\ Answer(row, "scheduled", result[row])
  /\ row' = NoRequest
  /\ handler' = "rows"
  /\ UNCHANGED <<client, executed, lStopRequested, ears, batch, outcome, scheduled,
                 writerVars, orphaned>>

\* fProcess at once; a throw counts as "false", and asks the daemon to stop
\* (fExecuteGuarded).
RowExecuted(r) ==
  /\ IsNext(r)
  /\ r \in Writeable \cap WellFormed
  /\ request_time[r] <= now
  /\ Taken(r)
  /\ executed' = [executed EXCEPT ![r] = @ + 1]
  /\ \/ outcome' \in Outcome /\ UNCHANGED lStopRequested
     \/ outcome' = "false" /\ lStopRequested' = TRUE
  /\ row' = r
  /\ handler' = "record outcome"
  /\ UNCHANGED <<client, table, ears, scheduled, writerVars, orphaned>>

OutcomeRecorded ==
  /\ handler = "record outcome"
  /\ Answer(row, "done", outcome)
  /\ row' = NoRequest
  /\ outcome' = "false"
  /\ handler' = "rows"
  /\ UNCHANGED <<client, executed, lStopRequested, ears, batch, scheduled, writerVars,
                 orphaned>>

\* After the rows found at the start, the two threads are created.
RowsDone ==
  /\ handler = "rows"
  /\ batch = {}
  /\ handler' = IF listening THEN "poll" ELSE "listen"
  /\ writer' = IF writer = "off" THEN "idle" ELSE writer
  /\ UNCHANGED <<client, table, executed, lStopRequested, ears, batch, row, outcome,
                 scheduled, req, writerOutcome, orphaned>>

\* LISTEN, which the database can refuse like any statement.
Listen ==
  /\ handler = "listen"
  /\ listening' \in BOOLEAN
  /\ handler' = "listened"
  /\ UNCHANGED <<client, table, executed, lStopRequested, notified, absorbed, batch, row,
                 outcome, scheduled, writerVars, orphaned>>

\* PQexec reads what has come with the result; poll will not return for that.
ListenReturns ==
  /\ handler = "listened"
  /\ \E read \in SUBSET notified : absorbed' = absorbed \cup read /\ notified' = notified \ read
  /\ handler' = "poll"
  /\ UNCHANGED <<client, table, executed, lStopRequested, listening, batch, row, outcome,
                 scheduled, writerVars, orphaned>>

\* poll returns after 100 ms with nothing to read.
PollTimesOut ==
  /\ handler = "poll"
  /\ notified = {}
  /\ handler' = IF lStopRequested THEN "ended" ELSE "poll"
  /\ UNCHANGED <<client, table, executed, lStopRequested, ears, batch, row, outcome,
                 scheduled, writerVars, orphaned>>

\* A notification for a uid that cannot be written is dropped.  The loop goes on until
\* libpq has none left.
NotificationIgnored(r) ==
  /\ handler = "poll"
  /\ r \in notified
  /\ notified' = (notified \cup absorbed) \ {r}
  /\ absorbed' = {}
  /\ UNCHANGED <<client, table, executed, lStopRequested, handler, listening, batch, row,
                 outcome, scheduled, writerVars, orphaned>>
NotificationRead(r) ==
  /\ handler = "poll"
  /\ r \in notified
  /\ notified' = (notified \cup absorbed) \ {r}
  /\ absorbed' = {}
  /\ handler' = IF r \in Writeable THEN "select" ELSE "poll"
  /\ UNCHANGED <<client, table, executed, lStopRequested, listening, batch, row, outcome,
                 scheduled, writerVars, orphaned>>

Handle == \/ fClearOldPendingRequests \/ SelectPending
          \/ \E r \in Request : \/ RowRefused(r) \/ RowScheduled(r) \/ RowExecuted(r)
                                \/ NotificationRead(r)
          \/ ScheduledRecorded \/ OutcomeRecorded \/ RowsDone
          \/ Listen \/ ListenReturns \/ PollTimesOut
-----------------------------------------------------------------------------
\* fScheduledWriterThread: look for a request to stop, wait for the time of the first
\* entry, take it from the map when the wait times out, process it, record the outcome.

WriterLooks ==
  /\ writer = "idle"
  /\ writer' = IF lStopRequested THEN "ended" ELSE "look"
  /\ UNCHANGED <<client, table, executed, lStopRequested, handlerVars, scheduled, req,
                 writerOutcome, orphaned>>

\* A second later.
NothingScheduled ==
  /\ writer = "look"
  /\ gScheduledWriteRequests = {}
  /\ writer' = "idle"
  /\ UNCHANGED <<client, table, executed, lStopRequested, handlerVars, scheduled, req,
                 writerOutcome, orphaned>>

WriterWaits(r) ==
  /\ writer = "look"
  /\ r \in gScheduledWriteRequests
  /\ \A q \in gScheduledWriteRequests : request_time[r] <= request_time[q]
  /\ req' = r
  /\ writer' = "wait"
  /\ UNCHANGED <<client, table, executed, lStopRequested, handlerVars, scheduled,
                 writerOutcome, orphaned>>

WriterTakes ==
  /\ writer = "wait"
  /\ request_time[req] <= now
  /\ gScheduledWriteRequests' = gScheduledWriteRequests \ {req}
  /\ writer' = "process"
  /\ UNCHANGED <<client, table, executed, lStopRequested, handlerVars, dropped, req,
                 writerOutcome, orphaned>>

WriterProcesses ==
  /\ writer = "process"
  /\ executed' = [executed EXCEPT ![req] = @ + 1]
  /\ \/ writerOutcome' \in Outcome /\ UNCHANGED lStopRequested
     \/ writerOutcome' = "false" /\ lStopRequested' = TRUE
  /\ writer' = "record"
  /\ UNCHANGED <<client, table, handlerVars, scheduled, req, orphaned>>

RecordedKeepsRequest ==
  /\ writer = "record"
  /\ Answer(req, "done", writerOutcome)
  /\ writerOutcome' = "false"
  /\ writer' = "idle"
  /\ UNCHANGED <<client, executed, lStopRequested, handlerVars, scheduled, req, orphaned>>
WriterRecords ==
  /\ writer = "record"
  /\ Answer(req, "done", writerOutcome)
  /\ req' = NoRequest
  /\ writerOutcome' = "false"
  /\ writer' = "idle"
  /\ UNCHANGED <<client, executed, lStopRequested, handlerVars, scheduled, orphaned>>

Write == \/ WriterLooks \/ NothingScheduled
         \/ \E r \in Request : WriterWaits(r)
         \/ WriterTakes \/ WriterProcesses \/ WriterRecords
-----------------------------------------------------------------------------
World == \/ Tick
         \/ \E r \in Request, when \in 0..MaxTime : Insert(r, when)
         \/ ConfigNotified \/ StopRequested \/ CrashAndRestart
Next == World \/ Handle \/ Write

Spec == Init /\ [][Next]_vars

\* The threads are scheduled and time goes on.
FairSpec == Spec /\ WF_vars(Handle) /\ WF_vars(Write) /\ WF_vars(Tick)
-----------------------------------------------------------------------------
\* The types of the state; a row is in hand exactly while it is being worked on.
TypeOK ==
  /\ now \in 0..MaxTime
  /\ crashes \in 0..MaxCrashes
  /\ request_time \in [Request -> 0..MaxTime \cup {NotYet}]
  /\ response \in [Request -> {"null", "missed", "not writeable", "malformed",
                               "scheduled", "done"}]
  /\ result \in [Request -> {"null"} \cup Outcome]
  /\ refused \in [Request -> 0..MaxRefused]
  /\ executed \in [Request -> Nat]
  /\ lStopRequested \in BOOLEAN
  /\ handler \in {"clear", "select", "rows", "record scheduled", "record outcome",
                  "listen", "listened", "poll", "ended"}
  /\ listening \in BOOLEAN
  /\ notified \subseteq Request
  /\ absorbed \subseteq Request
  /\ batch \subseteq Request
  /\ row \in Request \cup {NoRequest}
  /\ outcome \in Outcome
  /\ gScheduledWriteRequests \subseteq Request
  /\ writer \in {"off", "idle", "look", "wait", "process", "record", "ended"}
  /\ req \in Request \cup {NoRequest}
  /\ writerOutcome \in Outcome
  /\ unheard \subseteq Request
  /\ dropped \subseteq Request
  /\ orphaned \subseteq Request
  /\ row # NoRequest <=> handler \in {"record scheduled", "record outcome"}
  /\ req # NoRequest <=> writer \in {"wait", "process", "record"}

\* A request is carried out once, and again at most once for every UPDATE about it that
\* the database has refused (such a row is found unanswered and carried out again,
\* slowcontrolDaemon.cpp:390, 397, 454): whichever of the threads gets it, however often
\* its row is selected and wherever the daemon dies.  fClearOldPendingRequests keeps a
\* restarted daemon from repeating what an earlier one did without recording it.
RepeatedOnlyIfRefused == \A r \in Request : executed[r] <= 1 + refused[r]

\* What the table says is true: "done" means carried out, a refused request never is,
\* and a missed one only if the daemon died between doing and recording it.
AnswersAreTrue ==
  \A r \in Request :
    /\ response[r] = "done" => executed[r] > 0
    /\ response[r] = "scheduled" /\ result[r] # "null" => executed[r] > 0
    /\ response[r] \in {"not writeable", "malformed"} => executed[r] = 0
    /\ response[r] = "missed" /\ executed[r] > 0 => r \in orphaned

\* Nobody takes an answer back: a result, once recorded, stays, although the row can
\* still be overwritten by the handler's late "scheduled".  Only a request that an
\* UPDATE was refused for can get a second result.
ResultIsFinal ==
  [][\A r \in Request :
       result[r] # "null" /\ refused[r] = 0 => result'[r] = result[r]]_vars

InHand(r) == r \in batch \/ r = row \/ r = req \/ r \in gScheduledWriteRequests

\* While the daemon listens, a writeable row without a result is in somebody's hands or
\* announced, or it is lost for one of the known reasons: it came before LISTEN or a
\* SELECT failed, it found its time taken in the map, its daemon died, an UPDATE of it
\* was refused, or its notification came with the answer to LISTEN (the next one
\* finds it).
LostOnlyForKnownReasons ==
  listening =>
    \A r \in Writeable \cap Inserted :
      result[r] = "null" =>
        \/ InHand(r)
        \/ r \in notified \cup absorbed
        \/ handler = "select" /\ response[r] = "null"
        \/ response[r] = "null" /\ r \in unheard
        \/ response[r] = "scheduled" /\ r \in dropped \cup orphaned
        \/ refused[r] > 0

\* A request whose notification poll sees is answered, unless it is lost like that or the
\* daemon is asked to stop, by a signal or by an exception in a request
\* (slowcontrolDaemon.h:103-107): then the listener ends, and the scheduled writer with
\* requests in its map.
NotifiedIsAnswered ==
  \A r \in Writeable :
    r \in notified ~> \/ result[r] # "null"
                      \/ r \in absorbed \cup unheard \cup dropped \cup orphaned
                      \/ refused[r] > 0
                      \/ lStopRequested

\* The start leaves no unprocessed row whose time is over: "mark all unprocessed
\* requests for this daemon as missed and failed" (slowcontrolDaemon.cpp:396).  The
\* code leaves the rows that a daemon which died had marked as scheduled.
UnprocessedAreMissed ==
  [][handler = "clear" /\ handler' = "select" =>
       \A r \in Inserted :
         request_time[r] < now /\ executed[r] = 0 => result'[r] # "null"]_vars

\* A request recorded as scheduled is carried out later ("do it delayed",
\* slowcontrolDaemon.cpp:431) unless the daemon dies or stops.  The code drops the
\* second of two requests for the same time.
ScheduledIsExecuted ==
  \A r \in Request :
    response[r] = "scheduled" ~> (executed[r] > 0 \/ r \in orphaned \/ lStopRequested)
=============================================================================
