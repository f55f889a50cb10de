------------------------- MODULE WriteRequestsProofs -------------------------
(* Theorems about WriteRequests, for every set of requests, every clock, any *)
(* number of crashes and of refused statements: how often a request can be   *)
(* carried out, that the table tells the truth about it, when a result can   *)
(* be taken back, and why a row without one is not forgotten.                *)
EXTENDS WriteRequests, TLAPS

\* What fProcess is run for.
Good == Writeable \cap WellFormed

\* The scheduled writer has the row, in its map or in hand.
WithWriter(r) == r \in gScheduledWriteRequests \/ r = req

\* The rows that the two threads have in hand, and how far they are with them.  A row
\* still in the batch can have got its answer from the scheduled writer meanwhile.
HandsInv ==
  /\ handler = "clear" => gScheduledWriteRequests = {} /\ writer = "off"
  /\ batch # {} => handler \in {"rows", "record scheduled", "record outcome"}
  /\ \A r \in batch : r \in Inserted /\ r # row /\ response[r] \in {"null", "done"}
  /\ \A r \in Request :
       WithWriter(r) => /\ r \in Inserted /\ r \in Good
                        /\ response[r] \in {"null", "scheduled", "done"}
  /\ row # NoRequest => row \in Inserted /\ row \in Good /\ response[row] \in {"null", "done"}
  /\ handler = "record outcome" => executed[row] > 0
  /\ writer = "record" => executed[req] > 0
  /\ writer = "wait" => req \in gScheduledWriteRequests
  /\ writer \in {"process", "record"} => /\ req \notin gScheduledWriteRequests
                                         /\ request_time[req] <= now

\* What has been carried out was a good request, whose time has come; if its row is found
\* open by a daemon that comes up, an earlier one has died.
ExecutedInv ==
  \A r \in Request :
    executed[r] > 0 => /\ r \in Inserted /\ request_time[r] <= now /\ r \in Good
                       /\ handler = "clear" /\ response[r] = "null" => r \in orphaned

\* What the responses say.
TableInv ==
  \A r \in Request :
    /\ response[r] = "null" => result[r] = "null"
    /\ response[r] \in {"not writeable", "malformed"} => r \notin Good
    /\ response[r] = "done" => executed[r] > 0
    /\ response[r] = "scheduled" /\ result[r] # "null" => executed[r] > 0
    /\ response[r] = "missed" /\ executed[r] > 0 => r \in orphaned

\* As long as no UPDATE of a row is refused, one thread at a time has it.
FirstTimeInv ==
  \A r \in Request :
    refused[r] = 0 =>
      /\ r \in batch => response[r] = "null" /\ ~WithWriter(r)
      /\ WithWriter(r) => /\ result[r] = "null"
                          /\ \/ response[r] = "scheduled"
                             \/ response[r] = "null" /\ r = row /\ handler = "record scheduled"
      /\ r = row /\ handler = "record outcome" => response[r] = "null" /\ ~WithWriter(r)

\* The inductive invariant about who has a row and what the table says of it.
ServiceInv == HandsInv /\ ExecutedInv /\ TableInv /\ FirstTimeInv

-----------------------------------------------------------------------------
LEMMA TypeInit == Init => TypeOK
<1> SUFFICES ASSUME Init PROVE TypeOK
  OBVIOUS
<1>1. now \in 0..MaxTime /\ crashes \in 0..MaxCrashes /\ 0 \in 0..MaxRefused
  BY RequestAssumption DEF Init
<1>2. executed \in [Request -> Nat] /\ refused \in [Request -> 0..MaxRefused]
  BY <1>1 DEF Init
<1> QED BY <1>1, <1>2, RequestAssumption DEF Init, TypeOK, Outcome

\* A refused UPDATE is counted for the rows it was about.
LEMMA RefusedTypes ==
  ASSUME TypeOK, NEW S, Refuse(S)
  PROVE  refused' \in [Request -> 0..MaxRefused] /\ UNCHANGED <<response, result>>
<1>1. ASSUME NEW r \in Request PROVE refused'[r] \in 0..MaxRefused
  <2>1. PICK f \in 0..MaxRefused : f = refused[r]
    BY DEF TypeOK
  <2>2. CASE r \in S
    <3>1. refused'[r] = f + 1 /\ f < MaxRefused
      BY <2>1, <2>2 DEF Refuse
    <3> QED BY <3>1, RequestAssumption
  <2>3. CASE r \notin S
    BY <2>1, <2>3 DEF Refuse
  <2> QED BY <2>2, <2>3
<1> QED BY <1>1 DEF Refuse

\* What an UPDATE of a row does: it is carried out, or it is refused.
LEMMA Answered ==
  ASSUME TypeOK, NEW r \in Request, NEW text, NEW res, Answer(r, text, res)
  PROVE  /\ \A q \in Request : q # r => /\ response'[q] = response[q]
                                        /\ result'[q] = result[q]
                                        /\ refused'[q] = refused[q]
         /\ \/ response'[r] = text /\ result'[r] = res /\ refused'[r] = refused[r]
            \/ /\ response'[r] = response[r] /\ result'[r] = result[r]
               /\ refused'[r] = refused[r] + 1
BY DEF Answer, Refuse, TypeOK

LEMMA AnsweredTypes ==
  ASSUME TypeOK, NEW r \in Request,
         NEW text \in {"not writeable", "malformed", "scheduled", "done"},
         NEW res \in {"null"} \cup Outcome, Answer(r, text, res)
  PROVE  /\ response' \in [Request -> {"null", "missed", "not writeable", "malformed",
                                       "scheduled", "done"}]
         /\ result' \in [Request -> {"null"} \cup Outcome]
         /\ refused' \in [Request -> 0..MaxRefused]
<1>1. CASE Refuse({r})
  BY <1>1, RefusedTypes DEF TypeOK
<1>2. CASE ~Refuse({r})
  BY <1>2 DEF Answer, TypeOK
<1> QED BY <1>1, <1>2

\* What the UPDATE of the start does.
LEMMA Cleared ==
  ASSUME TypeOK, fClearOldPendingRequests
  PROVE  \/ /\ \A r \in Request :
                 \/ /\ r \in Inserted /\ response[r] = "null" /\ request_time[r] < now
                    /\ response'[r] = "missed" /\ result'[r] = "false"
                 \/ /\ r \in Inserted /\ response[r] = "null" => ~(request_time[r] < now)
                    /\ response'[r] = response[r] /\ result'[r] = result[r]
            /\ refused' = refused
         \/ /\ response' = response /\ result' = result
            /\ \A r \in Request :
                 \/ refused'[r] = refused[r] + 1
                 \/ /\ r \in Inserted /\ response[r] = "null" => ~(request_time[r] < now)
                    /\ refused'[r] = refused[r]
BY DEF fClearOldPendingRequests, Refuse, Pending, Inserted

LEMMA TypeStep == TypeOK /\ [Next]_vars => TypeOK'
<1> SUFFICES ASSUME TypeOK, [Next]_vars PROVE TypeOK'
  OBVIOUS
<1> USE DEF client, table, ears, handlerVars, scheduled, writerVars
<1>1. CASE Tick
  <2>1. now' \in 0..MaxTime
    <3>1. now \in 0..MaxTime /\ now < MaxTime /\ now' = now + 1
      BY <1>1 DEF Tick, TypeOK
    <3> QED BY <3>1, RequestAssumption
  <2> QED BY <1>1, <2>1 DEF Tick, TypeOK
<1>2. ASSUME NEW r \in Request, NEW when \in 0..MaxTime, Insert(r, when) PROVE TypeOK'
  BY <1>2 DEF Insert, TypeOK
<1>3. CASE CrashAndRestart
  <2>1. now' \in 0..MaxTime /\ crashes' \in 0..MaxCrashes
    <3>1. /\ now \in 0..MaxTime /\ now < MaxTime /\ now' = now + 1
          /\ crashes \in 0..MaxCrashes /\ crashes < MaxCrashes
          /\ crashes' = crashes + 1
      BY <1>3 DEF CrashAndRestart, TypeOK
    <3> QED BY <3>1, RequestAssumption
  <2> QED BY <1>3, <2>1 DEF CrashAndRestart, TypeOK, Outcome, Inserted
<1>4. CASE fClearOldPendingRequests
  <2>1. /\ response' \in [Request -> {"null", "missed", "not writeable", "malformed",
                                      "scheduled", "done"}]
        /\ result' \in [Request -> {"null"} \cup Outcome]
        /\ refused' \in [Request -> 0..MaxRefused]
    <3> DEFINE Old == {r \in Pending : request_time[r] < now}
    <3>1. CASE Refuse(Old)
      BY <3>1, RefusedTypes DEF TypeOK
    <3>2. CASE ~Refuse(Old)
      BY <1>4, <3>2 DEF fClearOldPendingRequests, TypeOK, Outcome
    <3> QED BY <3>1, <3>2
  <2>2. handler = "clear" /\ handler' = "select"
        /\ UNCHANGED <<client, executed, lStopRequested, ears, batch, row, outcome, scheduled,
                       writerVars, orphaned>>
    BY <1>4 DEF fClearOldPendingRequests
  <2> QED BY <2>1, <2>2 DEF TypeOK
<1>5. CASE SelectPending
  BY <1>5 DEF SelectPending, TypeOK, Pending, Inserted
<1>6. ASSUME NEW r \in Request, RowRefused(r) PROVE TypeOK'
  <2>1. PICK text \in {"not writeable", "malformed"} : Answer(r, text, "false")
    BY <1>6 DEF RowRefused
  <2>2. /\ response' \in [Request -> {"null", "missed", "not writeable", "malformed",
                                      "scheduled", "done"}]
        /\ result' \in [Request -> {"null"} \cup Outcome]
        /\ refused' \in [Request -> 0..MaxRefused]
    BY <2>1, AnsweredTypes DEF Outcome
  <2> QED BY <1>6, <2>2 DEF RowRefused, IsNext, Taken, TypeOK
<1>7. ASSUME NEW r \in Request, RowScheduled(r) PROVE TypeOK'
  <2>1. gScheduledWriteRequests' \subseteq Request /\ dropped' \subseteq Request
    BY <1>7 DEF RowScheduled, Emplaced, TypeOK
  <2>2. /\ writer' \in {"off", "idle", "look", "wait", "process", "record", "ended"}
        /\ req' \in Request \cup {NoRequest}
        /\ req' # NoRequest <=> writer' \in {"wait", "process", "record"}
    BY <1>7 DEF RowScheduled, WriterNotified, TypeOK
  <2> QED BY <1>7, <2>1, <2>2, RequestAssumption
          DEF RowScheduled, IsNext, Taken, TypeOK
<1>8. ASSUME NEW r \in Request, RowExecuted(r) PROVE TypeOK'
  <2>1. executed' \in [Request -> Nat]
    <3>1. executed \in [Request -> Nat]
      BY DEF TypeOK
    <3>2. executed' = [executed EXCEPT ![r] = executed[r] + 1]
      BY <1>8 DEF RowExecuted
    <3>3. executed[r] + 1 \in Nat
      BY <3>1
    <3> QED BY <3>1, <3>2, <3>3
  <2>2. outcome' \in Outcome /\ lStopRequested' \in BOOLEAN
    BY <1>8 DEF RowExecuted, TypeOK, Outcome
  <2>3. /\ batch' \subseteq Request /\ row' = r /\ handler' = "record outcome"
        /\ UNCHANGED <<client, table, ears, scheduled, writerVars, orphaned>>
    BY <1>8 DEF RowExecuted, IsNext, Taken, TypeOK
  <2> QED BY <2>1, <2>2, <2>3, RequestAssumption DEF TypeOK
<1>9. ASSUME NEW r \in Request, NotificationRead(r) PROVE TypeOK'
  BY <1>9 DEF NotificationRead, TypeOK
<1>10. CASE ScheduledRecorded
  <2>1. row \in Request /\ result[row] \in {"null"} \cup Outcome
    BY <1>10, RequestAssumption DEF ScheduledRecorded, TypeOK
  <2>2. /\ response' \in [Request -> {"null", "missed", "not writeable", "malformed",
                                      "scheduled", "done"}]
        /\ result' \in [Request -> {"null"} \cup Outcome]
        /\ refused' \in [Request -> 0..MaxRefused]
    BY <1>10, <2>1, AnsweredTypes DEF ScheduledRecorded
  <2> QED BY <1>10, <2>2 DEF ScheduledRecorded, TypeOK
<1>11. CASE OutcomeRecorded
  <2>1. row \in Request /\ outcome \in {"null"} \cup Outcome
    BY <1>11, RequestAssumption DEF OutcomeRecorded, TypeOK
  <2>2. /\ response' \in [Request -> {"null", "missed", "not writeable", "malformed",
                                      "scheduled", "done"}]
        /\ result' \in [Request -> {"null"} \cup Outcome]
        /\ refused' \in [Request -> 0..MaxRefused]
    BY <1>11, <2>1, AnsweredTypes DEF OutcomeRecorded
  <2> QED BY <1>11, <2>2 DEF OutcomeRecorded, TypeOK, Outcome
<1>12. CASE RowsDone
  BY <1>12 DEF RowsDone, TypeOK
<1>13. CASE Listen \/ ListenReturns
  BY <1>13 DEF Listen, ListenReturns, TypeOK
<1>14. ASSUME NEW r \in Request, WriterWaits(r) PROVE TypeOK'
  BY <1>14, RequestAssumption DEF WriterWaits, TypeOK
<1>15. CASE WriterTakes
  BY <1>15 DEF WriterTakes, TypeOK
<1>16. CASE WriterProcesses
  <2>1. executed' \in [Request -> Nat]
    <3>1. req \in Request
      BY <1>16 DEF WriterProcesses, TypeOK
    <3>2. executed \in [Request -> Nat]
      BY DEF TypeOK
    <3>3. executed' = [executed EXCEPT ![req] = executed[req] + 1]
      BY <1>16 DEF WriterProcesses
    <3>4. executed[req] + 1 \in Nat
      BY <3>1, <3>2
    <3> QED BY <3>1, <3>2, <3>3, <3>4
  <2>2. writerOutcome' \in Outcome /\ lStopRequested' \in BOOLEAN
    BY <1>16 DEF WriterProcesses, TypeOK, Outcome
  <2>3. /\ writer = "process" /\ writer' = "record"
        /\ UNCHANGED <<client, table, handlerVars, scheduled, req, orphaned>>
    BY <1>16 DEF WriterProcesses
  <2> QED BY <2>1, <2>2, <2>3 DEF TypeOK
<1>17. CASE WriterRecords
  <2>1. req \in Request /\ writerOutcome \in {"null"} \cup Outcome
    BY <1>17, RequestAssumption DEF WriterRecords, TypeOK
  <2>2. /\ response' \in [Request -> {"null", "missed", "not writeable", "malformed",
                                      "scheduled", "done"}]
        /\ result' \in [Request -> {"null"} \cup Outcome]
        /\ refused' \in [Request -> 0..MaxRefused]
    BY <1>17, <2>1, AnsweredTypes DEF WriterRecords
  <2> QED BY <1>17, <2>2 DEF WriterRecords, TypeOK, Outcome
<1>18. CASE PollTimesOut \/ WriterLooks \/ NothingScheduled
  BY <1>18 DEF PollTimesOut, WriterLooks, NothingScheduled, TypeOK
<1>19. CASE ConfigNotified \/ StopRequested \/ UNCHANGED vars
  BY <1>19 DEF ConfigNotified, StopRequested, vars, TypeOK
<1> QED BY <1>1, <1>2, <1>3, <1>4, <1>5, <1>6, <1>7, <1>8, <1>9, <1>10, <1>11, <1>12,
           <1>13, <1>14, <1>15, <1>16, <1>17, <1>18, <1>19
        DEF Next, World, Handle, Write

\* Every variable keeps its type; a row is in hand exactly while it is worked on.
THEOREM TypeCorrect == Spec => []TypeOK
BY TypeInit, TypeStep, PTL DEF Spec

-----------------------------------------------------------------------------
\* The sorts of the state that the arithmetic of the steps rests on.
LEMMA Sorts ==
  ASSUME TypeOK
  PROVE  /\ now \in Nat
         /\ executed \in [Request -> Nat]
         /\ refused \in [Request -> Nat]
         /\ \A r \in Inserted : request_time[r] \in Nat
<1>1. now \in Nat /\ executed \in [Request -> Nat]
  <2>1. now \in 0..MaxTime /\ executed \in [Request -> Nat]
    BY DEF TypeOK
  <2> QED BY <2>1, RequestAssumption
<1>2. refused \in [Request -> Nat]
  <2>1. \A f \in 0..MaxRefused : f \in Nat
    BY RequestAssumption
  <2> QED BY <2>1 DEF TypeOK
<1>3. ASSUME NEW r \in Inserted PROVE request_time[r] \in Nat
  <2>1. r \in Request /\ request_time[r] # NotYet
    BY DEF Inserted
  <2>2. request_time[r] \in 0..MaxTime \cup {NotYet}
    BY <2>1 DEF TypeOK
  <2>3. request_time[r] \in 0..MaxTime
    BY <2>1, <2>2
  <2> QED BY <2>3, RequestAssumption
<1> QED BY <1>1, <1>2, <1>3

\* When time goes on, what was over is still over, and what was due is over.
LEMMA TimePasses ==
  ASSUME TypeOK, now' = now + 1, UNCHANGED request_time
  PROVE  /\ Inserted' = Inserted
         /\ \A r \in Inserted : request_time[r] <= now => request_time'[r] < now'
         /\ \A r \in Inserted : request_time[r] < now => request_time'[r] < now'
         /\ \A r \in Inserted : request_time[r] <= now => request_time'[r] <= now'
<1>1. Inserted' = Inserted
  BY DEF Inserted
<1>2. now \in Nat /\ \A r \in Inserted : request_time[r] \in Nat
  BY Sorts
<1>3. \A r \in Inserted : request_time'[r] = request_time[r]
  OBVIOUS
<1> QED BY <1>1, <1>2, <1>3

\* fProcess is run for one row.
LEMMA Executes ==
  ASSUME TypeOK, NEW r \in Request, executed' = [executed EXCEPT ![r] = @ + 1]
  PROVE  /\ executed'[r] = executed[r] + 1
         /\ executed'[r] > 0
         /\ \A q \in Request : q # r => executed'[q] = executed[q]
<1>1. executed \in [Request -> Nat]
  BY Sorts
<1>2. executed'[r] = executed[r] + 1 /\ executed[r] \in Nat
  BY <1>1
<1> QED BY <1>1, <1>2

\* Every step keeps what the table says true, and the rows in the hands of the threads.
LEMMA ServiceStep ==
  ASSUME TypeOK, ServiceInv, [Next]_vars PROVE ServiceInv'
<1> USE DEF ServiceInv, WithWriter, Inserted, client, table, ears, handlerVars, scheduled,
            writerVars
<1>1. CASE Tick
  <2>1. now' = now + 1 /\ UNCHANGED request_time
    BY <1>1 DEF Tick
  <2>2. ExecutedInv'
    <3>1. ASSUME NEW r \in Request, executed[r] > 0
          PROVE  r \in Inserted /\ request_time'[r] <= now'
      BY <2>1, <3>1, TimePasses DEF ExecutedInv
    <3> QED BY <1>1, <3>1 DEF Tick, ExecutedInv
  <2>3. HandsInv'
    <3>1. ASSUME writer \in {"process", "record"} PROVE request_time'[req] <= now'
      <4>1. req \in Request /\ req \in Inserted
        BY <3>1, RequestAssumption DEF TypeOK, HandsInv
      <4>2. request_time[req] <= now
        BY <3>1 DEF HandsInv
      <4> QED BY <2>1, <4>1, <4>2, TimePasses
    <3> QED BY <1>1, <3>1 DEF Tick, HandsInv
  <2>4. TableInv' /\ FirstTimeInv'
    BY <1>1 DEF Tick, TableInv, FirstTimeInv
  <2> QED BY <2>2, <2>3, <2>4
<1>2. ASSUME NEW r \in Request, NEW when \in 0..MaxTime, Insert(r, when) PROVE ServiceInv'
  <2>1. /\ request_time[r] = NotYet /\ request_time'[r] = when
        /\ \A q \in Request : q # r => request_time'[q] = request_time[q]
        /\ UNCHANGED <<now, table, executed, handler, batch, row, scheduled, writerVars,
                       orphaned>>
    BY <1>2 DEF Insert, TypeOK
  <2>2. when # NotYet
    BY RequestAssumption
  <2>3. \A q \in Inserted : q # r /\ q \in Inserted'
    BY <2>1, <2>2
  <2>4. ExecutedInv' /\ TableInv' /\ FirstTimeInv'
    BY <2>1, <2>3 DEF ExecutedInv, TableInv, FirstTimeInv
  <2>5. HandsInv'
    <3>1. ASSUME writer \in {"process", "record"} PROVE request_time'[req] <= now'
      <4>1. req \in Request /\ req \in Inserted
        BY <3>1, RequestAssumption DEF TypeOK, HandsInv
      <4> QED BY <2>1, <2>3, <3>1, <4>1 DEF HandsInv
    <3> QED BY <2>1, <2>3, <3>1 DEF HandsInv
  <2> QED BY <2>4, <2>5
<1>3. CASE CrashAndRestart
  <2>1. now' = now + 1 /\ UNCHANGED request_time
    BY <1>3 DEF CrashAndRestart
  <2>2. ExecutedInv'
    <3>1. ASSUME NEW r \in Request, executed[r] > 0
          PROVE  /\ r \in Inserted /\ request_time'[r] <= now' /\ r \in Good
                 /\ response[r] = "null" => r \in orphaned'
      <4>1. r \in Inserted /\ request_time[r] <= now /\ r \in Good
        BY <3>1 DEF ExecutedInv
      <4>2. request_time'[r] <= now'
        BY <2>1, <4>1, TimePasses
      <4>3. response[r] = "null" => r \in orphaned'
        BY <1>3, <4>1 DEF CrashAndRestart, TableInv
      <4> QED BY <4>1, <4>2, <4>3
    <3> QED BY <1>3, <3>1 DEF CrashAndRestart, ExecutedInv
  <2>3. TableInv'
    BY <1>3 DEF CrashAndRestart, TableInv
  <2>4. HandsInv' /\ FirstTimeInv'
    BY <1>3, RequestAssumption DEF CrashAndRestart, HandsInv, FirstTimeInv
  <2> QED BY <2>2, <2>3, <2>4
<1>4. CASE fClearOldPendingRequests
  <2>1. /\ handler = "clear" /\ handler' = "select"
        /\ UNCHANGED <<now, request_time, executed, batch, row, scheduled, writerVars, orphaned>>
    BY <1>4 DEF fClearOldPendingRequests
  <2>2. batch = {} /\ row = NoRequest /\ req = NoRequest /\ gScheduledWriteRequests = {}
    BY <2>1 DEF HandsInv, TypeOK
  <2>3. HandsInv'
    BY <2>1, <2>2, RequestAssumption DEF HandsInv, TypeOK
  <2>4. FirstTimeInv'
    BY <2>1, <2>2, RequestAssumption DEF FirstTimeInv
  <2>5. ExecutedInv'
    BY <2>1 DEF ExecutedInv
  <2>6. TableInv'
    BY <1>4, <2>1, Cleared DEF TableInv, ExecutedInv
  <2> QED BY <2>3, <2>4, <2>5, <2>6
<1>5. CASE SelectPending
  <2>1. /\ row = NoRequest /\ handler = "select" /\ handler' = "rows"
        /\ batch' \subseteq Pending
        /\ UNCHANGED <<now, request_time, table, executed, row, scheduled, writerVars, orphaned>>
    BY <1>5 DEF SelectPending, TypeOK
  <2>2. HandsInv'
    <3>1. \A r \in batch' : r \in Inserted /\ response[r] = "null" /\ r # row
      BY <2>1, RequestAssumption DEF Pending
    <3> QED BY <2>1, <3>1 DEF HandsInv
  <2>3. FirstTimeInv'
    <3>1. ASSUME NEW r \in Request, refused[r] = 0, r \in Pending
          PROVE  response[r] = "null" /\ r # row /\ ~WithWriter(r)
      <4>1. response[r] = "null" /\ r # row
        BY <2>1, <3>1, RequestAssumption DEF Pending
      <4>2. ~WithWriter(r)
        BY <2>1, <3>1, <4>1 DEF FirstTimeInv
      <4> QED BY <4>1, <4>2
    <3> QED BY <2>1, <3>1, RequestAssumption DEF FirstTimeInv
  <2>4. ExecutedInv' /\ TableInv'
    BY <2>1 DEF ExecutedInv, TableInv
  <2> QED BY <2>2, <2>3, <2>4
<1>6. ASSUME NEW r \in Request, RowRefused(r) PROVE ServiceInv'
  <2>1. /\ handler = "rows" /\ r \in batch /\ batch' = batch \ {r} /\ row = NoRequest
        /\ r \notin Good
        /\ UNCHANGED <<now, request_time, executed, handler, row, scheduled, writerVars,
                       orphaned>>
    BY <1>6 DEF RowRefused, IsNext, Taken, TypeOK, Good
  <2>2. PICK text \in {"not writeable", "malformed"} : Answer(r, text, "false")
    BY <1>6 DEF RowRefused
  <2>3. /\ \A q \in Request : q # r => /\ response'[q] = response[q]
                                       /\ result'[q] = result[q]
                                       /\ refused'[q] = refused[q]
        /\ \/ /\ response'[r] = text /\ result'[r] = "false" /\ refused'[r] = refused[r]
           \/ /\ response'[r] = response[r] /\ result'[r] = result[r]
              /\ refused'[r] = refused[r] + 1
    BY <2>2, Answered
  <2>4. ~WithWriter(r)
    BY <2>1 DEF HandsInv
  <2>5. HandsInv'
    BY <2>1, <2>3, <2>4, RequestAssumption DEF HandsInv, TypeOK
  <2>6. FirstTimeInv'
    BY <2>1, <2>3, <2>4, RequestAssumption, Sorts DEF FirstTimeInv
  <2>7. ExecutedInv'
    BY <2>1, <2>3 DEF ExecutedInv
  <2>8. TableInv'
    BY <2>1, <2>3 DEF TableInv, ExecutedInv
  <2> QED BY <2>5, <2>6, <2>7, <2>8
<1>7. ASSUME NEW r \in Request, RowScheduled(r) PROVE ServiceInv'
  <2>1. /\ handler = "rows" /\ row = NoRequest /\ r \in batch /\ batch' = batch \ {r}
        /\ handler' = "record scheduled" /\ row' = r /\ r \in Good
        /\ request_time[r] > now
        /\ UNCHANGED <<now, request_time, table, executed, orphaned>>
    BY <1>7 DEF RowScheduled, IsNext, Taken, TypeOK, Good
  <2>2. /\ \A q \in gScheduledWriteRequests' : q \in gScheduledWriteRequests \/ q = r
        /\ gScheduledWriteRequests \subseteq gScheduledWriteRequests'
    BY <1>7 DEF RowScheduled, Emplaced
  <2>3. \/ writer = "wait" /\ writer' = "idle" /\ req' = NoRequest
        \/ UNCHANGED <<writer, req>>
    BY <1>7 DEF RowScheduled, WriterNotified
  <2>4. r \in Inserted /\ response[r] \in {"null", "done"}
    BY <2>1 DEF HandsInv
  <2>5. r # NoRequest
    BY RequestAssumption
  <2>6. r \notin Request \/ \A q \in Request : WithWriter(q)' => WithWriter(q) \/ q = r
    BY <2>2, <2>3, RequestAssumption
  <2>7. HandsInv'
    <3>1. ASSUME writer' \in {"process", "record"}
          PROVE  req' \notin gScheduledWriteRequests' /\ request_time'[req'] <= now'
      <4>1. writer \in {"process", "record"} /\ req' = req
        BY <2>3, <3>1
      <4>2. req \notin gScheduledWriteRequests /\ request_time[req] <= now /\ req \in Request
        BY <4>1, RequestAssumption DEF HandsInv, TypeOK
      <4>3. req \in Inserted
        BY <4>2 DEF HandsInv
      <4>4. request_time[req] \in Nat /\ request_time[r] \in Nat /\ now \in Nat
        BY <2>4, <4>3, Sorts
      <4>5. req # r
        <5>1. PICK n \in Nat, t \in Nat : n = now /\ t = request_time[r]
          BY <4>4
        <5>2. t > n
          BY <2>1, <5>1
        <5>3. ~(t <= n)
          BY <5>2
        <5> QED BY <4>2, <5>1, <5>3
      <4> QED BY <2>1, <2>2, <4>1, <4>2, <4>5
    <3>2. writer' = "record" => executed'[req'] > 0
      BY <2>1, <2>3 DEF HandsInv
    <3>3. writer' = "wait" => req' \in gScheduledWriteRequests'
      BY <2>2, <2>3 DEF HandsInv
    <3> QED BY <2>1, <2>4, <2>5, <2>6, <3>1, <3>2, <3>3 DEF HandsInv
  <2>8. FirstTimeInv'
    <3>1. \A q \in Request : refused[q] = 0 /\ q \in batch => ~WithWriter(q)
      BY DEF FirstTimeInv
    <3>2. \A q \in Request : q # r => (WithWriter(q)' => WithWriter(q))
      BY <2>6
    <3>3. response[r] = "null" => result[r] = "null"
      BY DEF TableInv
    <3> QED BY <2>1, <2>5, <3>1, <3>2, <3>3, RequestAssumption DEF FirstTimeInv
  <2>9. ExecutedInv' /\ TableInv'
    BY <2>1 DEF ExecutedInv, TableInv
  <2> QED BY <2>7, <2>8, <2>9
<1>8. ASSUME NEW r \in Request, RowExecuted(r) PROVE ServiceInv'
  <2>1. /\ handler = "rows" /\ row = NoRequest
        /\ handler' = "record outcome" /\ row' = r /\ r \in Good
        /\ r \in batch /\ batch' = batch \ {r}
        /\ request_time[r] <= now
        /\ UNCHANGED <<now, request_time, table, orphaned, scheduled, writerVars>>
    BY <1>8 DEF RowExecuted, IsNext, Taken, TypeOK, Good
  <2>2. r \in Inserted /\ response[r] \in {"null", "done"} /\ r # NoRequest
    BY <2>1, RequestAssumption DEF HandsInv
  <2>3. executed'[r] > 0 /\ \A q \in Request : q # r => executed'[q] = executed[q]
    BY <1>8, Executes DEF RowExecuted
  <2>4. \A q \in Request : executed[q] > 0 => executed'[q] > 0
    BY <2>3
  <2>5. HandsInv'
    <3>1. writer' = "record" => executed'[req'] > 0
      <4>1. writer' = "record" => req \in Request /\ executed[req] > 0
        BY <2>1, RequestAssumption DEF HandsInv, TypeOK
      <4> QED BY <2>1, <2>4, <4>1
    <3> QED BY <2>1, <2>2, <2>3, <3>1 DEF HandsInv
  <2>6. FirstTimeInv'
    BY <2>1, <2>2, RequestAssumption DEF FirstTimeInv
  <2>7. ExecutedInv'
    BY <2>1, <2>2, <2>3 DEF ExecutedInv
  <2>8. TableInv'
    BY <2>1, <2>2, <2>3, <2>4 DEF TableInv
  <2> QED BY <2>5, <2>6, <2>7, <2>8
<1>9. ASSUME NEW r \in Request, NotificationRead(r) PROVE ServiceInv'
  <2>1. /\ handler = "poll" /\ handler' \in {"poll", "select"}
        /\ UNCHANGED <<now, request_time, table, executed, batch, row, scheduled, writerVars,
                       orphaned>>
    BY <1>9 DEF NotificationRead
  <2>2. HandsInv'
    BY <2>1 DEF HandsInv
  <2>3. ExecutedInv' /\ TableInv' /\ FirstTimeInv'
    BY <2>1 DEF ExecutedInv, TableInv, FirstTimeInv
  <2> QED BY <2>2, <2>3
<1>10. CASE ScheduledRecorded
  <2>1. /\ handler = "record scheduled" /\ handler' = "rows" /\ row \in Request
        /\ row' = NoRequest /\ Answer(row, "scheduled", result[row])
        /\ UNCHANGED <<now, request_time, executed, batch, scheduled, writerVars, orphaned>>
    BY <1>10, RequestAssumption DEF ScheduledRecorded, TypeOK
  <2>2. PICK r \in Request : r = row
    BY <2>1
  <2>3. /\ \A q \in Request : q # r => /\ response'[q] = response[q]
                                       /\ result'[q] = result[q]
                                       /\ refused'[q] = refused[q]
        /\ \/ /\ response'[r] = "scheduled" /\ result'[r] = result[r] /\ refused'[r] = refused[r]
           \/ /\ response'[r] = response[r] /\ result'[r] = result[r]
              /\ refused'[r] = refused[r] + 1
    BY <2>1, <2>2, Answered
  <2>4. /\ r \in Inserted /\ r \in Good /\ response[r] \in {"null", "done"}
    BY <2>1, <2>2, RequestAssumption DEF HandsInv
  <2>5. TableInv'
    BY <2>1, <2>3, <2>4 DEF TableInv
  <2>6. ExecutedInv'
    BY <2>1, <2>3, <2>4 DEF ExecutedInv
  <2>7. refused'[r] = 0 => refused'[r] = refused[r]
    <3>1. refused[r] + 1 # 0
      BY Sorts
    <3> QED BY <2>3, <3>1
  <2>8. FirstTimeInv'
    <3>1. ASSUME NEW q \in Request, refused'[q] = 0
          PROVE  /\ q \in batch => response'[q] = "null" /\ ~WithWriter(q)
                 /\ WithWriter(q) => result'[q] = "null" /\ response'[q] = "scheduled"
      <4>1. CASE q = r
        <5>1. refused[r] = 0 /\ response'[r] = "scheduled" /\ result'[r] = result[r]
          <6>1. refused[r] + 1 # refused[r]
            BY Sorts
          <6> QED BY <2>3, <2>7, <3>1, <4>1, <6>1
        <5> QED BY <2>1, <2>2, <4>1, <5>1 DEF FirstTimeInv, HandsInv
      <4>2. CASE q # r
        BY <2>1, <2>2, <2>3, <3>1, <4>2 DEF FirstTimeInv
      <4> QED BY <4>1, <4>2
    <3> QED BY <2>1, <3>1, RequestAssumption DEF FirstTimeInv
  <2>9. HandsInv'
    BY <2>1, <2>2, <2>3, <2>4, RequestAssumption DEF HandsInv, TypeOK
  <2> QED BY <2>5, <2>6, <2>8, <2>9
<1>11. CASE OutcomeRecorded
  <2>1. /\ handler = "record outcome" /\ handler' = "rows" /\ row \in Request
        /\ row' = NoRequest /\ Answer(row, "done", outcome)
        /\ UNCHANGED <<now, request_time, executed, batch, scheduled, writerVars, orphaned>>
    BY <1>11, RequestAssumption DEF OutcomeRecorded, TypeOK
  <2>2. PICK r \in Request : r = row
    BY <2>1
  <2>3. /\ \A q \in Request : q # r => /\ response'[q] = response[q]
                                       /\ result'[q] = result[q]
                                       /\ refused'[q] = refused[q]
        /\ \/ /\ response'[r] = "done" /\ result'[r] = outcome /\ refused'[r] = refused[r]
           \/ /\ response'[r] = response[r] /\ result'[r] = result[r]
              /\ refused'[r] = refused[r] + 1
    BY <2>1, <2>2, Answered
  <2>4. /\ r \in Inserted /\ r \in Good /\ response[r] \in {"null", "done"}
        /\ executed[r] > 0
    BY <2>1, <2>2, RequestAssumption DEF HandsInv
  <2>5. TableInv'
    BY <2>1, <2>3, <2>4 DEF TableInv
  <2>6. ExecutedInv'
    BY <2>1, <2>3, <2>4 DEF ExecutedInv
  <2>7. refused'[r] = 0 => refused'[r] = refused[r]
    <3>1. refused[r] + 1 # 0
      BY Sorts
    <3> QED BY <2>3, <3>1
  <2>8. FirstTimeInv'
    <3>1. ASSUME NEW q \in Request, refused'[q] = 0
          PROVE  /\ q \in batch => response'[q] = "null" /\ ~WithWriter(q)
                 /\ WithWriter(q) => result'[q] = "null" /\ response'[q] = "scheduled"
      <4>1. CASE q = r
        BY <2>1, <2>2, <2>3, <2>4, <2>7, <3>1, <4>1 DEF FirstTimeInv, HandsInv
      <4>2. CASE q # r
        BY <2>1, <2>2, <2>3, <3>1, <4>2 DEF FirstTimeInv
      <4> QED BY <4>1, <4>2
    <3> QED BY <2>1, <3>1, RequestAssumption DEF FirstTimeInv
  <2>9. HandsInv'
    BY <2>1, <2>2, <2>3, <2>4, RequestAssumption DEF HandsInv, TypeOK
  <2> QED BY <2>5, <2>6, <2>8, <2>9
<1>12. CASE RowsDone
  <2>1. /\ handler = "rows" /\ handler' \in {"poll", "listen"} /\ batch = {}
        /\ writer' = (IF writer = "off" THEN "idle" ELSE writer)
        /\ row = NoRequest
        /\ UNCHANGED <<now, request_time, table, executed, batch, row, scheduled, req, orphaned>>
    BY <1>12 DEF RowsDone, TypeOK
  <2>2. HandsInv'
    BY <2>1 DEF HandsInv
  <2>3. ExecutedInv' /\ TableInv'
    BY <2>1 DEF ExecutedInv, TableInv
  <2>4. FirstTimeInv'
    BY <2>1 DEF FirstTimeInv
  <2> QED BY <2>2, <2>3, <2>4
<1>13. CASE Listen \/ ListenReturns
  <2>1. /\ handler \in {"listen", "listened"} /\ handler' \in {"listened", "poll"}
        /\ UNCHANGED <<now, request_time, table, executed, batch, row, scheduled, writerVars,
                       orphaned>>
    BY <1>13 DEF Listen, ListenReturns
  <2>2. HandsInv'
    BY <2>1 DEF HandsInv
  <2>3. ExecutedInv' /\ TableInv' /\ FirstTimeInv'
    BY <2>1 DEF ExecutedInv, TableInv, FirstTimeInv
  <2> QED BY <2>2, <2>3
<1>14. ASSUME NEW r \in Request, WriterWaits(r) PROVE ServiceInv'
  <2>1. /\ writer = "look" /\ writer' = "wait" /\ req = NoRequest /\ req' = r
        /\ r \in gScheduledWriteRequests
        /\ UNCHANGED <<now, request_time, table, executed, handler, batch, row, scheduled,
                       orphaned>>
    BY <1>14 DEF WriterWaits, TypeOK
  <2>2. \A q \in Request : WithWriter(q)' => WithWriter(q)
    BY <2>1
  <2>3. HandsInv'
    BY <2>1, <2>2 DEF HandsInv
  <2>4. ExecutedInv' /\ TableInv' /\ FirstTimeInv'
    BY <2>1, <2>2 DEF ExecutedInv, TableInv, FirstTimeInv
  <2> QED BY <2>3, <2>4
<1>15. CASE WriterTakes
  <2>1. /\ writer = "wait" /\ writer' = "process" /\ request_time[req] <= now
        /\ gScheduledWriteRequests' = gScheduledWriteRequests \ {req}
        /\ UNCHANGED <<now, request_time, table, executed, handler, batch, row, req, orphaned>>
    BY <1>15 DEF WriterTakes
  <2>2. \A q \in Request : WithWriter(q)' => WithWriter(q)
    BY <2>1
  <2>3. HandsInv'
    BY <2>1, <2>2 DEF HandsInv
  <2>4. ExecutedInv' /\ TableInv' /\ FirstTimeInv'
    BY <2>1, <2>2 DEF ExecutedInv, TableInv, FirstTimeInv
  <2> QED BY <2>3, <2>4
<1>16. CASE WriterProcesses
  <2>1. /\ writer = "process" /\ writer' = "record" /\ req \in Request
        /\ UNCHANGED <<now, request_time, table, handler, batch, row, scheduled, req, orphaned>>
    BY <1>16 DEF WriterProcesses, TypeOK
  <2>2. /\ req \in Inserted /\ req \in Good /\ response[req] \in {"null", "scheduled", "done"}
        /\ req \notin gScheduledWriteRequests /\ request_time[req] <= now
    BY <2>1 DEF HandsInv
  <2>3. executed'[req] > 0 /\ \A q \in Request : q # req => executed'[q] = executed[q]
    BY <1>16, <2>1, Executes DEF WriterProcesses
  <2>4. \A q \in Request : executed[q] > 0 => executed'[q] > 0
    BY <2>3
  <2>5. HandsInv'
    <3>1. handler' = "record outcome" => executed'[row'] > 0
      <4>1. handler = "record outcome" => row \in Request /\ executed[row] > 0
        BY RequestAssumption DEF HandsInv, TypeOK
      <4> QED BY <2>1, <2>4, <4>1
    <3> QED BY <2>1, <2>2, <2>3, <3>1 DEF HandsInv
  <2>6. FirstTimeInv'
    BY <2>1 DEF FirstTimeInv
  <2>7. ExecutedInv'
    <3>1. handler # "clear"
      BY <2>1 DEF HandsInv
    <3> QED BY <2>1, <2>2, <2>3, <3>1 DEF ExecutedInv
  <2>8. TableInv'
    BY <2>1, <2>2, <2>3, <2>4 DEF TableInv
  <2> QED BY <2>5, <2>6, <2>7, <2>8
<1>17. CASE WriterRecords
  <2>1. /\ writer = "record" /\ writer' = "idle" /\ req \in Request
        /\ req' = NoRequest /\ Answer(req, "done", writerOutcome)
        /\ UNCHANGED <<now, request_time, executed, handler, batch, row, scheduled, orphaned>>
    BY <1>17, RequestAssumption DEF WriterRecords, TypeOK
  <2>2. PICK r \in Request : r = req
    BY <2>1
  <2>3. /\ \A q \in Request : q # r => /\ response'[q] = response[q]
                                       /\ result'[q] = result[q]
                                       /\ refused'[q] = refused[q]
        /\ \/ /\ response'[r] = "done" /\ result'[r] = writerOutcome /\ refused'[r] = refused[r]
           \/ /\ response'[r] = response[r] /\ result'[r] = result[r]
              /\ refused'[r] = refused[r] + 1
    BY <2>1, <2>2, Answered
  <2>4. /\ r \in Inserted /\ r \in Good /\ response[r] \in {"null", "scheduled", "done"}
        /\ executed[r] > 0 /\ r \notin gScheduledWriteRequests
    BY <2>1, <2>2 DEF HandsInv
  <2>5. \A q \in Request : WithWriter(q)' <=> WithWriter(q) /\ q # r
    BY <2>1, <2>2, <2>4, RequestAssumption
  <2>6. TableInv'
    BY <2>1, <2>3, <2>4 DEF TableInv
  <2>7. ExecutedInv'
    BY <2>1, <2>3, <2>4 DEF ExecutedInv
  <2>8. FirstTimeInv'
    <3>1. refused'[r] = 0 => refused'[r] = refused[r]
      <4>1. refused[r] + 1 # 0
        BY Sorts
      <4> QED BY <2>3, <4>1
    <3>2. refused[r] = 0 => r \notin batch /\ ~(r = row /\ handler = "record outcome")
      BY <2>2 DEF FirstTimeInv
    <3>3. ASSUME NEW q \in Request, refused'[q] = 0
          PROVE  /\ q \in batch => response'[q] = "null" /\ ~WithWriter(q)'
                 /\ WithWriter(q)' =>
                      /\ result'[q] = "null"
                      /\ \/ response'[q] = "scheduled"
                         \/ response'[q] = "null" /\ q = row /\ handler = "record scheduled"
                 /\ q = row /\ handler = "record outcome" =>
                      response'[q] = "null" /\ ~WithWriter(q)'
      <4>1. CASE q = r
        BY <2>5, <3>1, <3>2, <3>3, <4>1
      <4>2. CASE q # r
        BY <2>3, <2>5, <3>3, <4>2 DEF FirstTimeInv
      <4> QED BY <4>1, <4>2
    <3> QED BY <2>1, <3>3 DEF FirstTimeInv
  <2>9. HandsInv'
    BY <2>1, <2>3, <2>4, <2>5 DEF HandsInv, TypeOK
  <2> QED BY <2>6, <2>7, <2>8, <2>9
<1>18. CASE \/ PollTimesOut \/ WriterLooks \/ NothingScheduled \/ ConfigNotified
            \/ StopRequested \/ UNCHANGED vars
  <2>1. /\ UNCHANGED <<now, request_time, table, executed, batch, row, scheduled, req, orphaned>>
        /\ UNCHANGED handler \/ (handler = "poll" /\ handler' = "ended")
        /\ \/ UNCHANGED writer
           \/ writer \in {"idle", "look"} /\ writer' \in {"look", "idle", "ended"}
    <3>1. CASE PollTimesOut
      BY <3>1 DEF PollTimesOut
    <3>2. CASE WriterLooks \/ NothingScheduled
      BY <3>2 DEF WriterLooks, NothingScheduled
    <3>3. CASE ConfigNotified \/ StopRequested \/ UNCHANGED vars
      BY <3>3 DEF ConfigNotified, StopRequested, vars
    <3> QED BY <1>18, <3>1, <3>2, <3>3
  <2>2. HandsInv'
    BY <2>1 DEF HandsInv
  <2>3. ExecutedInv' /\ TableInv' /\ FirstTimeInv'
    BY <2>1 DEF ExecutedInv, TableInv, FirstTimeInv
  <2> QED BY <2>2, <2>3
<1> QED
  BY <1>1, <1>2, <1>3, <1>4, <1>5, <1>6, <1>7, <1>8, <1>9, <1>10, <1>11, <1>12, <1>13,
     <1>14, <1>15, <1>16, <1>17, <1>18
     DEF Next, World, Handle, Write

\* The invariant holds in every reachable state.
LEMMA ServiceInvariant == Spec => []ServiceInv
<1>1. Init => ServiceInv
  BY RequestAssumption
     DEF Init, ServiceInv, HandsInv, ExecutedInv, TableInv, FirstTimeInv, WithWriter
<1> QED BY <1>1, TypeCorrect, ServiceStep, PTL DEF Spec

\* A response in the table is the truth about what the daemon has done, whatever the
\* database refuses and wherever the daemon dies.
THEOREM TableIsTrue == Spec => []AnswersAreTrue
<1>1. TypeOK /\ ServiceInv => AnswersAreTrue
  <2> SUFFICES ASSUME TypeOK, ServiceInv, NEW r \in Request
               PROVE  /\ response[r] = "done" => executed[r] > 0
                      /\ response[r] = "scheduled" /\ result[r] # "null" => executed[r] > 0
                      /\ response[r] \in {"not writeable", "malformed"} => executed[r] = 0
                      /\ response[r] = "missed" /\ executed[r] > 0 => r \in orphaned
    BY DEF AnswersAreTrue
  <2>1. executed[r] \in Nat
    BY Sorts
  <2>2. response[r] \in {"not writeable", "malformed"} => ~(executed[r] > 0)
    BY DEF ServiceInv, TableInv, ExecutedInv
  <2>3. ~(executed[r] > 0) => executed[r] = 0
    BY <2>1
  <2> QED BY <2>2, <2>3 DEF ServiceInv, TableInv
<1> QED BY <1>1, TypeCorrect, ServiceInvariant, PTL

\* A recorded result stays, unless an UPDATE of the row is refused: whoever records one
\* has found the row open.
THEOREM ResultsAreFinal == Spec => ResultIsFinal
<1> DEFINE Final == \A r \in Request :
                      result[r] # "null" /\ refused[r] = 0 => result'[r] = result[r]
<1>1. TypeOK /\ ServiceInv /\ [Next]_vars => [Final]_vars
  <2> SUFFICES ASSUME TypeOK, ServiceInv, Next PROVE Final
    BY DEF vars
  <2>1. CASE UNCHANGED result
    BY <2>1
  <2>2. CASE fClearOldPendingRequests
    BY <2>2, Cleared DEF ServiceInv, TableInv
  <2>3. ASSUME NEW r \in Request, RowRefused(r) PROVE Final
    <3>1. PICK text \in {"not writeable", "malformed"} : Answer(r, text, "false")
      BY <2>3 DEF RowRefused
    <3>2. refused[r] = 0 => result[r] = "null"
      BY <2>3 DEF RowRefused, IsNext, ServiceInv, FirstTimeInv, TableInv
    <3>3. \A q \in Request : q # r => result'[q] = result[q]
      BY <3>1, Answered
    <3> QED BY <3>2, <3>3
  <2>4. CASE ScheduledRecorded
    <3>1. PICK r \in Request : r = row
      BY <2>4, RequestAssumption DEF ScheduledRecorded, TypeOK
    <3>2. Answer(r, "scheduled", result[r])
      BY <2>4, <3>1 DEF ScheduledRecorded
    <3>3. \A q \in Request : result'[q] = result[q]
      BY <3>2, Answered
    <3> QED BY <3>3
  <2>5. CASE OutcomeRecorded
    <3>1. PICK r \in Request : r = row
      BY <2>5, RequestAssumption DEF OutcomeRecorded, TypeOK
    <3>2. Answer(r, "done", outcome)
      BY <2>5, <3>1 DEF OutcomeRecorded
    <3>3. refused[r] = 0 => result[r] = "null"
      BY <2>5, <3>1 DEF OutcomeRecorded, ServiceInv, FirstTimeInv, TableInv
    <3>4. \A q \in Request : q # r => result'[q] = result[q]
      BY <3>2, Answered
    <3> QED BY <3>3, <3>4
  <2>6. CASE WriterRecords
    <3>1. PICK r \in Request : r = req
      BY <2>6, RequestAssumption DEF WriterRecords, TypeOK
    <3>2. Answer(r, "done", writerOutcome)
      BY <2>6, <3>1 DEF WriterRecords
    <3>3. refused[r] = 0 => result[r] = "null"
      BY <3>1 DEF ServiceInv, FirstTimeInv, WithWriter
    <3>4. \A q \in Request : q # r => result'[q] = result[q]
      BY <3>2, Answered
    <3> QED BY <3>3, <3>4
  <2> QED
    BY <2>1, <2>2, <2>3, <2>4, <2>5, <2>6
       DEF Next, World, Handle, Write, Tick, Insert, ConfigNotified, StopRequested,
           CrashAndRestart, SelectPending, RowScheduled, RowExecuted, NotificationRead,
           RowsDone, Listen, ListenReturns, PollTimesOut, WriterLooks, NothingScheduled,
           WriterWaits, WriterTakes, WriterProcesses, table
<1> QED BY <1>1, TypeCorrect, ServiceInvariant, PTL DEF Spec, ResultIsFinal

-----------------------------------------------------------------------------
\* Why a request is not carried out more often than the refused UPDATEs allow: each of
\* the two ways to fProcess counts once, and what comes back to one of them after it has
\* been taken does so by a refused UPDATE.

\* The scheduled writer is going to carry it out.
Mapped(r) == r \in gScheduledWriteRequests \/ (writer = "process" /\ req = r)

\* The handler has it before it or will select it, unless it is about to be missed.
Over(r) == handler = "clear" /\ r \in Inserted /\ request_time[r] < now
Open(r) == r \in batch \/ (response[r] = "null" /\ r # row /\ ~Over(r))

Count(b) == IF b THEN 1 ELSE 0
Counted(r) == executed[r] + Count(Mapped(r)) + Count(Open(r)) <= 1 + refused[r]

\* The inductive invariant.
CountInv == \A r \in Request : Counted(r)

\* The kinds of steps, for one row: nothing more to do, less with an UPDATE refused,
\* handed over, carried out by the one or the other, or never carried out so far.
LEMMA CountKept ==
  ASSUME TypeOK, TypeOK', NEW r \in Request, Counted(r),
         \/ /\ executed'[r] = executed[r] /\ refused'[r] = refused[r]
            /\ Mapped(r)' => Mapped(r)
            /\ Open(r)' => Open(r)
         \/ /\ executed'[r] = executed[r] /\ refused'[r] = refused[r] + 1
            /\ Mapped(r)' => Mapped(r)
         \/ /\ executed'[r] = executed[r] /\ refused'[r] = refused[r]
            /\ Open(r) /\ ~Open(r)'
         \/ /\ executed'[r] = executed[r] + 1 /\ refused'[r] = refused[r]
            /\ Mapped(r)' => Mapped(r)
            /\ Open(r) /\ ~Open(r)'
         \/ /\ executed'[r] = executed[r] + 1 /\ refused'[r] = refused[r]
            /\ Mapped(r) /\ ~Mapped(r)'
            /\ Open(r)' => Open(r)
         \/ executed'[r] = 0 /\ ~Mapped(r)'
  PROVE  Counted(r)'
<1>1. PICK e \in Nat, f \in Nat : e = executed[r] /\ f = refused[r]
  BY Sorts
<1>2. PICK m \in 0..1, o \in 0..1 : m = Count(Mapped(r)) /\ o = Count(Open(r))
  BY DEF Count
<1>3. PICK m2 \in 0..1, o2 \in 0..1 : m2 = Count(Mapped(r)') /\ o2 = Count(Open(r)')
  BY DEF Count
<1>4. refused'[r] \in Nat
  <2>1. refused'[r] \in 0..MaxRefused
    BY DEF TypeOK
  <2> QED BY <2>1, RequestAssumption
<1>5. e + m + o <= 1 + f
  BY <1>1, <1>2 DEF Counted
<1>6. /\ (Mapped(r)' => Mapped(r)) => m2 <= m
      /\ (Open(r)' => Open(r)) => o2 <= o
      /\ Open(r) /\ ~Open(r)' => o = 1 /\ o2 = 0
      /\ Mapped(r) /\ ~Mapped(r)' => m = 1 /\ m2 = 0
      /\ ~Mapped(r)' => m2 = 0
  BY <1>2, <1>3 DEF Count
<1>7. PICK e2 \in Nat, f2 \in Nat : e2 = executed'[r] /\ f2 = refused'[r]
  <2>1. executed'[r] \in Nat
    BY DEF TypeOK
  <2> QED BY <1>4, <2>1
<1>8. \/ e2 = e /\ f2 = f /\ m2 <= m /\ o2 <= o
      \/ e2 = e /\ f2 = f + 1 /\ m2 <= m
      \/ e2 = e /\ f2 = f /\ o = 1 /\ o2 = 0
      \/ e2 = e + 1 /\ f2 = f /\ m2 <= m /\ o = 1 /\ o2 = 0
      \/ e2 = e + 1 /\ f2 = f /\ m = 1 /\ m2 = 0 /\ o2 <= o
      \/ e2 = 0 /\ m2 = 0
  BY <1>1, <1>6, <1>7
<1>9. e2 + m2 + o2 <= 1 + f2
  BY <1>5, <1>8
<1> QED BY <1>3, <1>7, <1>9 DEF Counted, Count

LEMMA CountStep ==
  ASSUME TypeOK, TypeOK', ServiceInv, CountInv, [Next]_vars PROVE CountInv'
<1> USE DEF CountInv, client, table, ears, handlerVars, scheduled, writerVars
<1> SUFFICES ASSUME NEW r \in Request PROVE Counted(r)'
  OBVIOUS
<1>0. Counted(r)
  OBVIOUS
<1>1. CASE Tick
  <2>1. Over(r) => Over(r)'
    BY <1>1, TimePasses DEF Tick, Over
  <2> QED BY <1>0, <1>1, <2>1, CountKept DEF Tick, Mapped, Open
<1>2. ASSUME NEW q \in Request, NEW when \in 0..MaxTime, Insert(q, when) PROVE Counted(r)'
  <2>1. Over(r) => Over(r)'
    BY <1>2 DEF Insert, Over, Inserted, TypeOK
  <2> QED BY <1>0, <1>2, <2>1, CountKept DEF Insert, Mapped, Open
<1>3. CASE CrashAndRestart
  <2>1. now' = now + 1 /\ UNCHANGED request_time /\ ~Mapped(r)'
    BY <1>3, RequestAssumption DEF CrashAndRestart, Mapped
  <2>2. CASE executed[r] > 0
    <3>1. Over(r)'
      BY <1>3, <2>1, <2>2, TimePasses DEF CrashAndRestart, Over, ServiceInv, ExecutedInv
    <3> QED BY <1>0, <1>3, <2>1, <3>1, CountKept DEF CrashAndRestart, Open
  <2>3. CASE ~(executed[r] > 0)
    <3>1. executed[r] = 0
      <4>1. executed[r] \in Nat
        BY Sorts
      <4> QED BY <2>3, <4>1
    <3> QED BY <1>0, <1>3, <2>1, <3>1, CountKept DEF CrashAndRestart
  <2> QED BY <2>2, <2>3
<1>4. CASE fClearOldPendingRequests
  <2>1. /\ handler = "clear" /\ handler' = "select" /\ batch = {} /\ row = NoRequest
        /\ UNCHANGED <<request_time, now, executed, batch, row, scheduled, writerVars>>
    BY <1>4 DEF fClearOldPendingRequests, ServiceInv, HandsInv, TypeOK
  <2>2. Mapped(r)' => Mapped(r)
    BY <2>1 DEF Mapped
  <2>3. \/ refused'[r] = refused[r] + 1
        \/ refused'[r] = refused[r] /\ (Open(r)' => Open(r))
    BY <1>4, <2>1, Cleared DEF Open, Over
  <2> QED BY <1>0, <2>1, <2>2, <2>3, CountKept
<1>5. CASE SelectPending
  <2>1. Open(r)' => Open(r)
    <3>1. /\ handler = "select" /\ handler' = "rows" /\ row = NoRequest /\ row' = row
          /\ batch' \subseteq Pending /\ response' = response
      BY <1>5 DEF SelectPending, TypeOK
    <3>2. r \in Pending => Open(r)
      BY <3>1, RequestAssumption DEF Pending, Open, Over
    <3> QED BY <3>1, <3>2 DEF Open, Over
  <2> QED BY <1>0, <1>5, <2>1, CountKept DEF SelectPending, Mapped
<1>6. ASSUME NEW q \in Request, RowRefused(q) PROVE Counted(r)'
  <2>1. PICK text \in {"not writeable", "malformed"} : Answer(q, text, "false")
    BY <1>6 DEF RowRefused
  <2>2. /\ batch' = batch \ {q} /\ handler = "rows"
        /\ UNCHANGED <<request_time, now, executed, handler, row, scheduled, writerVars>>
    BY <1>6 DEF RowRefused, IsNext, Taken
  <2>3. Mapped(r)' => Mapped(r)
    BY <2>2 DEF Mapped
  <2>4. \/ refused'[r] = refused[r] + 1
        \/ refused'[r] = refused[r] /\ (Open(r)' => Open(r))
    BY <2>1, <2>2, Answered DEF Open, Over
  <2> QED BY <1>0, <2>2, <2>3, <2>4, CountKept
<1>7. ASSUME NEW q \in Request, RowScheduled(q) PROVE Counted(r)'
  <2>1. /\ batch' = batch \ {q} /\ q \in batch /\ handler = "rows" /\ row = NoRequest
        /\ handler' = "record scheduled" /\ row' = q
        /\ UNCHANGED <<request_time, now, executed, response, refused>>
    BY <1>7 DEF RowScheduled, IsNext, Taken, TypeOK
  <2>2. CASE r = q
    <3>1. Open(r) /\ ~Open(r)'
      BY <2>1, <2>2 DEF Open
    <3> QED BY <1>0, <2>1, <3>1, CountKept
  <2>3. CASE r # q
    <3>1. Open(r)' => Open(r)
      BY <2>1, <2>3, RequestAssumption DEF Open, Over
    <3>2. Mapped(r)' => Mapped(r)
      BY <1>7, <2>3 DEF RowScheduled, Emplaced, WriterNotified, Mapped
    <3> QED BY <1>0, <2>1, <3>1, <3>2, CountKept
  <2> QED BY <2>2, <2>3
<1>8. ASSUME NEW q \in Request, RowExecuted(q) PROVE Counted(r)'
  <2>1. /\ batch' = batch \ {q} /\ q \in batch /\ handler = "rows" /\ row = NoRequest
        /\ handler' = "record outcome" /\ row' = q
        /\ UNCHANGED <<request_time, now, response, refused, scheduled, writerVars>>
    BY <1>8 DEF RowExecuted, IsNext, Taken, TypeOK
  <2>2. /\ executed'[q] = executed[q] + 1
        /\ r # q => executed'[r] = executed[r]
    BY <1>8, Executes DEF RowExecuted
  <2>3. Mapped(r)' => Mapped(r)
    BY <2>1 DEF Mapped
  <2>4. CASE r = q
    <3>1. Open(r) /\ ~Open(r)'
      BY <2>1, <2>4 DEF Open
    <3> QED BY <1>0, <2>1, <2>2, <2>3, <2>4, <3>1, CountKept
  <2>5. CASE r # q
    <3>1. Open(r)' => Open(r)
      BY <2>1, <2>5, RequestAssumption DEF Open, Over
    <3> QED BY <1>0, <2>1, <2>2, <2>3, <2>5, <3>1, CountKept
  <2> QED BY <2>4, <2>5
<1>9. ASSUME NEW q \in Request, NotificationRead(q) PROVE Counted(r)'
  <2>1. Open(r)' => Open(r)
    BY <1>9 DEF NotificationRead, Open, Over
  <2> QED BY <1>0, <1>9, <2>1, CountKept DEF NotificationRead, Mapped
<1>10. CASE ScheduledRecorded \/ OutcomeRecorded
  <2>1. /\ row \in Request /\ row' = NoRequest
        /\ \E text \in {"scheduled", "done"}, res \in {"null"} \cup Outcome :
             Answer(row, text, res)
        /\ handler \in {"record scheduled", "record outcome"} /\ handler' = "rows"
        /\ UNCHANGED <<request_time, now, executed, batch, scheduled, writerVars>>
    <3>1. CASE ScheduledRecorded
      <4>1. row \in Request /\ result[row] \in {"null"} \cup Outcome
        BY <3>1, RequestAssumption DEF ScheduledRecorded, TypeOK
      <4> QED BY <3>1, <4>1 DEF ScheduledRecorded
    <3>2. CASE OutcomeRecorded
      BY <3>2, RequestAssumption DEF OutcomeRecorded, TypeOK
    <3> QED BY <1>10, <3>1, <3>2
  <2>2. PICK q \in Request : q = row
    BY <2>1
  <2>3. PICK text \in {"scheduled", "done"}, res \in {"null"} \cup Outcome :
             Answer(q, text, res)
    BY <2>1, <2>2
  <2>4. Mapped(r)' => Mapped(r)
    BY <2>1 DEF Mapped
  <2>5. \/ refused'[r] = refused[r] + 1
        \/ refused'[r] = refused[r] /\ (Open(r)' => Open(r))
    BY <2>1, <2>2, <2>3, Answered DEF Open, Over
  <2> QED BY <1>0, <2>1, <2>4, <2>5, CountKept
<1>11. CASE RowsDone \/ Listen \/ ListenReturns \/ PollTimesOut
  <2>1. /\ handler # "clear" /\ handler' # "clear"
        /\ UNCHANGED <<executed, refused, response, batch, row, gScheduledWriteRequests, req>>
        /\ writer' = "process" => writer = "process"
    BY <1>11 DEF RowsDone, Listen, ListenReturns, PollTimesOut
  <2>2. (Mapped(r)' => Mapped(r)) /\ (Open(r)' => Open(r))
    BY <2>1 DEF Mapped, Open, Over
  <2> QED BY <1>0, <2>1, <2>2, CountKept
<1>12. CASE \/ WriterLooks \/ NothingScheduled \/ \E q \in Request : WriterWaits(q)
            \/ ConfigNotified \/ StopRequested \/ UNCHANGED vars
  <2>1. /\ UNCHANGED <<executed, refused, response, batch, row, gScheduledWriteRequests, handler,
                       request_time, now>>
        /\ writer' = "process" => writer = "process" /\ req' = req
    BY <1>12 DEF WriterLooks, NothingScheduled, WriterWaits, ConfigNotified, StopRequested,
                 vars
  <2>2. (Mapped(r)' => Mapped(r)) /\ (Open(r)' => Open(r))
    BY <2>1 DEF Mapped, Open, Over, Inserted
  <2> QED BY <1>0, <2>1, <2>2, CountKept
<1>13. CASE WriterTakes
  <2>1. Mapped(r)' => Mapped(r)
    BY <1>13 DEF WriterTakes, Mapped, ServiceInv, HandsInv
  <2>2. Open(r)' => Open(r)
    BY <1>13 DEF WriterTakes, Open, Over, Inserted
  <2> QED BY <1>0, <1>13, <2>1, <2>2, CountKept DEF WriterTakes
<1>14. CASE WriterProcesses
  <2>1. /\ writer = "process" /\ writer' = "record" /\ req \in Request
        /\ UNCHANGED <<request_time, now, response, refused, handler, batch, row, scheduled, req>>
    BY <1>14 DEF WriterProcesses, TypeOK
  <2>2. /\ executed'[req] = executed[req] + 1
        /\ r # req => executed'[r] = executed[r]
    BY <1>14, <2>1, Executes DEF WriterProcesses
  <2>3. Open(r)' => Open(r)
    BY <2>1 DEF Open, Over, Inserted
  <2>4. CASE r = req
    <3>1. Mapped(r) /\ ~Mapped(r)'
      BY <2>1, <2>4 DEF Mapped, ServiceInv, HandsInv
    <3> QED BY <1>0, <2>1, <2>2, <2>3, <2>4, <3>1, CountKept
  <2>5. CASE r # req
    <3>1. Mapped(r)' => Mapped(r)
      BY <2>1 DEF Mapped
    <3> QED BY <1>0, <2>1, <2>2, <2>3, <2>5, <3>1, CountKept
  <2> QED BY <2>4, <2>5
<1>15. CASE WriterRecords
  <2>1. /\ req \in Request /\ Answer(req, "done", writerOutcome) /\ writer' = "idle"
        /\ UNCHANGED <<request_time, now, executed, handler, batch, row, scheduled>>
    BY <1>15, RequestAssumption DEF WriterRecords, TypeOK
  <2>2. PICK q \in Request : q = req
    BY <2>1
  <2>3. Answer(q, "done", writerOutcome)
    BY <2>1, <2>2
  <2>4. Mapped(r)' => Mapped(r)
    BY <2>1 DEF Mapped
  <2>5. \/ refused'[r] = refused[r] + 1
        \/ refused'[r] = refused[r] /\ (Open(r)' => Open(r))
    BY <2>1, <2>3, Answered DEF Open, Over, Inserted
  <2> QED BY <1>0, <2>1, <2>4, <2>5, CountKept
<1> QED BY <1>1, <1>2, <1>3, <1>4, <1>5, <1>6, <1>7, <1>8, <1>9, <1>10, <1>11, <1>12,
           <1>13, <1>14, <1>15
        DEF Next, World, Handle, Write

LEMMA CountInvariant == Spec => []CountInv
<1>1. Init => CountInv
  <2> SUFFICES ASSUME Init, NEW r \in Request PROVE Counted(r)
    BY DEF CountInv
  <2>1. executed[r] = 0 /\ refused[r] = 0 /\ ~Mapped(r)
    BY DEF Init, Mapped
  <2> QED BY <2>1 DEF Counted, Count
<1>2. TypeOK /\ TypeOK' /\ ServiceInv /\ CountInv /\ [Next]_vars => CountInv'
  BY CountStep
<1> QED BY <1>1, <1>2, TypeCorrect, ServiceInvariant, PTL DEF Spec

\* The daemon carries a request out once, and again at most once for every UPDATE of its
\* row that the database refuses, whichever thread gets it and wherever the daemon dies
\* (slowcontrolDaemon.cpp:377-397, 434-454).
THEOREM OnceUnlessRefused == Spec => []RepeatedOnlyIfRefused
<1>1. TypeOK /\ CountInv => RepeatedOnlyIfRefused
  <2> SUFFICES ASSUME TypeOK, CountInv, NEW r \in Request PROVE executed[r] <= 1 + refused[r]
    BY DEF RepeatedOnlyIfRefused
  <2>1. PICK e \in Nat, f \in Nat : e = executed[r] /\ f = refused[r]
    BY Sorts
  <2>2. PICK m \in 0..1, o \in 0..1 : m = Count(Mapped(r)) /\ o = Count(Open(r))
    BY DEF Count
  <2>3. e + m + o <= 1 + f
    BY <2>1, <2>2 DEF CountInv, Counted
  <2>4. e <= 1 + f
    BY <2>3
  <2> QED BY <2>1, <2>4
<1> QED BY <1>1, TypeCorrect, CountInvariant, PTL

-----------------------------------------------------------------------------
\* Why a row without a result is not forgotten.  A row with any other response has its
\* result.
OnlyScheduledIsOpen ==
  \A r \in Request : response[r] \notin {"null", "scheduled"} => result[r] # "null"

\* A row marked as scheduled is with the writer, or another one had its time, or its
\* daemon died, or an UPDATE of it was refused.
ScheduledIsKept ==
  \A r \in Request :
    response[r] = "scheduled" /\ result[r] = "null" =>
      r \in Inserted /\ (WithWriter(r) \/ r \in dropped \cup orphaned \/ refused[r] > 0)

\* So is the one the handler is about to mark.
MarkedIsKept ==
  handler = "record scheduled" /\ result[row] = "null" =>
    WithWriter(row) \/ row \in dropped \/ refused[row] > 0

\* A row without a response will be selected, or has been, unless it came unheard.
NewIsSeen ==
  \A r \in Writeable \cap Inserted :
    response[r] = "null" =>
      \/ r \in batch \/ r = row \/ r \in notified \cup absorbed \/ r \in unheard
      \/ handler \in {"clear", "select"}
      \/ refused[r] > 0

ListensLater == handler = "clear" => ~listening

\* The inductive invariant.
KeptInv == /\ OnlyScheduledIsOpen /\ ScheduledIsKept /\ MarkedIsKept /\ NewIsSeen
           /\ ListensLater

\* What is refused stays counted.
LEMMA RefusedGrows ==
  ASSUME TypeOK, [Next]_vars, NEW r \in Request, refused[r] > 0
  PROVE  refused'[r] > 0
<1> USE DEF table, client
<1>1. refused[r] \in Nat /\ refused[r] + 1 > 0
  BY Sorts
<1>2. CASE UNCHANGED refused
  BY <1>2
<1>3. CASE fClearOldPendingRequests
  BY <1>1, <1>3, Cleared
<1>4. ASSUME NEW q \in Request, NEW text, NEW res, Answer(q, text, res)
      PROVE  refused'[r] > 0
  BY <1>1, <1>4, Answered
<1>5. ASSUME NEW q \in Request, RowRefused(q) PROVE refused'[r] > 0
  BY <1>4, <1>5 DEF RowRefused
<1>6. CASE ScheduledRecorded \/ OutcomeRecorded
  BY <1>4, <1>6, RequestAssumption DEF ScheduledRecorded, OutcomeRecorded, TypeOK
<1>7. CASE WriterRecords
  BY <1>4, <1>7, RequestAssumption DEF WriterRecords, TypeOK
<1> QED
  BY <1>2, <1>3, <1>5, <1>6, <1>7
     DEF Next, World, Handle, Write, Tick, Insert, ConfigNotified, StopRequested,
         CrashAndRestart, SelectPending, RowScheduled, RowExecuted, NotificationRead,
         RowsDone, Listen, ListenReturns, PollTimesOut, WriterLooks, NothingScheduled,
         WriterWaits, WriterTakes, WriterProcesses, vars

LEMMA OneMoreRefused == ASSUME TypeOK, NEW r \in Request PROVE refused[r] + 1 > 0
BY Sorts

\* Rows are inserted once, for one time.
LEMMA StaysInserted ==
  ASSUME TypeOK, [Next]_vars, NEW r \in Inserted PROVE r \in Inserted'
<1>1. ASSUME NEW q \in Request, NEW when \in 0..MaxTime, Insert(q, when)
      PROVE  r \in Inserted'
  BY <1>1 DEF Insert, Inserted, TypeOK
<1>2. CASE UNCHANGED request_time
  BY <1>2 DEF Inserted
<1>3. UNCHANGED request_time \/ \E q \in Request, when \in 0..MaxTime : Insert(q, when)
  BY DEF Next, World, Handle, Write, Tick, ConfigNotified, StopRequested, CrashAndRestart,
         fClearOldPendingRequests, SelectPending, RowRefused, RowScheduled, RowExecuted,
         NotificationRead, ScheduledRecorded, OutcomeRecorded, RowsDone, Listen,
         ListenReturns, PollTimesOut, WriterLooks, NothingScheduled, WriterWaits,
         WriterTakes, WriterProcesses, WriterRecords, vars, client
<1> QED BY <1>1, <1>2, <1>3

\* Who has a row with the scheduled writer keeps it there, until the outcome is recorded.
LEMMA WriterKeepsRows ==
  ASSUME TypeOK, ServiceInv, [Next]_vars, ~CrashAndRestart, ~WriterRecords,
         NEW r \in Request, WithWriter(r)
  PROVE  WithWriter(r)'
<1>1. CASE UNCHANGED <<gScheduledWriteRequests, req>>
  BY <1>1 DEF WithWriter
<1>2. ASSUME NEW q \in Request, RowScheduled(q) PROVE WithWriter(r)'
  <2>1. gScheduledWriteRequests \subseteq gScheduledWriteRequests'
    BY <1>2 DEF RowScheduled, Emplaced
  <2>2. UNCHANGED req \/ (writer = "wait" /\ req' = NoRequest)
    BY <1>2 DEF RowScheduled, WriterNotified
  <2>3. writer = "wait" => req \in gScheduledWriteRequests
    BY DEF ServiceInv, HandsInv
  <2> QED BY <2>1, <2>2, <2>3 DEF WithWriter
<1>3. ASSUME NEW q \in Request, WriterWaits(q) PROVE WithWriter(r)'
  <2>1. req = NoRequest
    BY <1>3 DEF WriterWaits, TypeOK
  <2> QED BY <1>3, <2>1, RequestAssumption DEF WriterWaits, WithWriter, scheduled
<1>4. CASE WriterTakes
  BY <1>4 DEF WriterTakes, WithWriter
<1> QED BY <1>1, <1>2, <1>3, <1>4
        DEF Next, World, Handle, Write, Tick, Insert, ConfigNotified, StopRequested,
            fClearOldPendingRequests, SelectPending, RowRefused, RowExecuted,
            NotificationRead, ScheduledRecorded, OutcomeRecorded, RowsDone, Listen,
            ListenReturns, PollTimesOut, WriterLooks, NothingScheduled, WriterProcesses,
            vars, writerVars, scheduled

\* A row is taken from the dropped only to go into the map, or when the daemon dies.
LEMMA StaysDropped ==
  ASSUME TypeOK, [Next]_vars, ~CrashAndRestart, NEW r \in dropped
  PROVE  r \in dropped' \/ WithWriter(r)'
<1>1. ASSUME NEW q \in Request, RowScheduled(q) PROVE r \in dropped' \/ WithWriter(r)'
  BY <1>1 DEF RowScheduled, WithWriter
<1>2. CASE UNCHANGED dropped
  BY <1>2
<1> QED BY <1>1, <1>2
        DEF Next, World, Handle, Write, Tick, Insert, ConfigNotified, StopRequested,
            fClearOldPendingRequests, SelectPending, RowRefused, RowExecuted,
            NotificationRead, ScheduledRecorded, OutcomeRecorded, RowsDone, Listen,
            ListenReturns, PollTimesOut, WriterLooks, NothingScheduled, WriterWaits,
            WriterTakes, WriterProcesses, WriterRecords, vars, scheduled

LEMMA ScheduledKeptStep ==
  ASSUME TypeOK, ServiceInv, KeptInv, [Next]_vars
  PROVE  ScheduledIsKept'
<1> DEFINE Kept(r) == WithWriter(r) \/ r \in dropped \cup orphaned \/ refused[r] > 0
<1> SUFFICES ASSUME NEW r \in Request, response'[r] = "scheduled", result'[r] = "null"
             PROVE  r \in Inserted' /\ (WithWriter(r)' \/ r \in (dropped \cup orphaned)' \/ refused'[r] > 0)
  BY DEF ScheduledIsKept
<1>0. orphaned \subseteq orphaned'
  BY DEF Next, World, Handle, Write, Tick, Insert, ConfigNotified, StopRequested,
         CrashAndRestart, fClearOldPendingRequests, SelectPending, RowRefused, RowScheduled,
         RowExecuted, NotificationRead, ScheduledRecorded, OutcomeRecorded, RowsDone, Listen,
         ListenReturns, PollTimesOut, WriterLooks, NothingScheduled, WriterWaits,
         WriterTakes, WriterProcesses, WriterRecords, vars
<1>1. CASE CrashAndRestart
  <2>1. response[r] = "scheduled" /\ result[r] = "null"
    BY <1>1 DEF CrashAndRestart, table
  <2>2. r \in Inserted
    BY <2>1 DEF KeptInv, ScheduledIsKept
  <2>3. r \in orphaned'
    BY <1>1, <2>1, <2>2 DEF CrashAndRestart
  <2> QED BY <2>2, <2>3, StaysInserted
<1>2. CASE WriterRecords
  <2>1. PICK q \in Request : q = req
    BY <1>2, RequestAssumption DEF WriterRecords, TypeOK
  <2>2. Answer(q, "done", writerOutcome)
    BY <1>2, <2>1 DEF WriterRecords
  <2>3. CASE r = q
    <3>1. refused'[r] = refused[r] + 1 /\ response'[r] = response[r] /\ result'[r] = result[r]
      BY <2>2, <2>3, Answered
    <3>2. refused'[r] > 0
      <4>1. refused[r] + 1 > 0
        BY OneMoreRefused
      <4> QED BY <3>1, <4>1
    <3>3. r \in Inserted
      BY <3>1 DEF KeptInv, ScheduledIsKept
    <3> QED BY <3>2, <3>3, StaysInserted
  <2>4. CASE r # q
    <3>1. response[r] = "scheduled" /\ result[r] = "null"
      BY <2>2, <2>4, Answered
    <3>2. WithWriter(r) => WithWriter(r)'
      BY <1>2, <2>1, <2>4 DEF WriterRecords, WithWriter, scheduled
    <3>3. r \in Inserted /\ Kept(r)
      BY <3>1 DEF KeptInv, ScheduledIsKept
    <3>4. dropped' = dropped
      BY <1>2 DEF WriterRecords, scheduled
    <3>5. refused[r] > 0 => refused'[r] > 0
      BY RefusedGrows
    <3> QED BY <1>0, <3>2, <3>3, <3>4, <3>5, StaysInserted
  <2> QED BY <2>3, <2>4
<1>3. CASE ~CrashAndRestart /\ ~WriterRecords
  <2>1. r \in Inserted /\ Kept(r) =>
          r \in Inserted' /\ (WithWriter(r)' \/ r \in (dropped \cup orphaned)' \/ refused'[r] > 0)
    BY <1>0, <1>3, WriterKeepsRows, StaysDropped, RefusedGrows, StaysInserted
  <2>2. response[r] = "scheduled" /\ result[r] = "null" => r \in Inserted /\ Kept(r)
    BY DEF KeptInv, ScheduledIsKept
  <2>3. CASE ScheduledRecorded
    <3>1. PICK q \in Request : q = row
      BY <2>3, RequestAssumption DEF ScheduledRecorded, TypeOK
    <3>2. Answer(q, "scheduled", result[q]) /\ handler = "record scheduled"
      BY <2>3, <3>1 DEF ScheduledRecorded
    <3>3. CASE r = q
      <4>1. result[r] = "null"
        BY <3>2, <3>3, Answered
      <4>2. r \in Inserted /\ Kept(r)
        BY <3>1, <3>2, <3>3, <4>1, RequestAssumption
           DEF KeptInv, MarkedIsKept, ServiceInv, HandsInv
      <4> QED BY <2>1, <4>2
    <3>4. CASE r # q
      BY <2>1, <2>2, <3>2, <3>4, Answered
    <3> QED BY <3>3, <3>4
  <2>4. CASE ~ScheduledRecorded
    <3>1. response[r] = "scheduled" /\ result[r] = "null"
      <4>1. CASE fClearOldPendingRequests
        BY <4>1, Cleared
      <4>2. ASSUME NEW q \in Request, RowRefused(q)
            PROVE  response[r] = "scheduled" /\ result[r] = "null"
        <5>1. PICK text \in {"not writeable", "malformed"} : Answer(q, text, "false")
          BY <4>2 DEF RowRefused
        <5> QED BY <5>1, Answered
      <4>3. CASE OutcomeRecorded
        <5>1. PICK q \in Request : q = row
          BY <4>3, RequestAssumption DEF OutcomeRecorded, TypeOK
        <5>2. Answer(q, "done", outcome)
          BY <4>3, <5>1 DEF OutcomeRecorded
        <5> QED BY <5>2, Answered
      <4>4. CASE UNCHANGED table
        BY <4>4 DEF table
      <4> QED BY <1>3, <2>4, <4>1, <4>2, <4>3, <4>4
              DEF Next, World, Handle, Write, Tick, Insert, ConfigNotified, StopRequested,
                  SelectPending, RowScheduled, RowExecuted, NotificationRead, RowsDone,
                  Listen, ListenReturns, PollTimesOut, WriterLooks, NothingScheduled,
                  WriterWaits, WriterTakes, WriterProcesses, vars
    <3> QED BY <2>1, <2>2, <3>1
  <2> QED BY <2>3, <2>4
<1> QED BY <1>1, <1>2, <1>3

\* The map takes no second request for a time: the row is in it, or has been dropped.
LEMMA MarkedKeptStep ==
  ASSUME TypeOK, ServiceInv, KeptInv, [Next]_vars
  PROVE  MarkedIsKept'
<1>1. ASSUME NEW r \in Request, RowScheduled(r) PROVE MarkedIsKept'
  <2>1. /\ row' = r /\ gScheduledWriteRequests' = Emplaced(r)
        /\ r \in Emplaced(r) \/ r \in dropped'
    BY <1>1 DEF RowScheduled
  <2> QED BY <2>1 DEF MarkedIsKept, WithWriter
<1>2. CASE ~\E r \in Request : RowScheduled(r)
  <2> SUFFICES ASSUME handler' = "record scheduled" PROVE MarkedIsKept'
    BY DEF MarkedIsKept
  <2>1. handler = "record scheduled" /\ UNCHANGED row
    BY <1>2 DEF Next, World, Handle, Write, Tick, Insert, ConfigNotified, StopRequested,
            CrashAndRestart, fClearOldPendingRequests, SelectPending, RowRefused,
            RowExecuted, NotificationRead, ScheduledRecorded, OutcomeRecorded, RowsDone,
            Listen, ListenReturns, PollTimesOut, WriterLooks, NothingScheduled, WriterWaits,
            WriterTakes, WriterProcesses, WriterRecords, vars, handlerVars, IsNext
  <2>2. PICK r \in Request : r = row
    BY <2>1, RequestAssumption DEF TypeOK
  <2>3. result[r] = "null" => WithWriter(r) \/ r \in dropped \/ refused[r] > 0
    BY <2>1, <2>2 DEF KeptInv, MarkedIsKept
  <2>4. ~CrashAndRestart
    BY DEF CrashAndRestart
  <2>5. result'[r] = "null" => WithWriter(r)' \/ r \in dropped' \/ refused'[r] > 0
    <3>1. CASE WriterRecords
      <4>1. PICK q \in Request : q = req
        BY <3>1, RequestAssumption DEF WriterRecords, TypeOK
      <4>2. Answer(q, "done", writerOutcome) /\ writerOutcome # "null"
        BY <3>1, <4>1 DEF WriterRecords, TypeOK, Outcome
      <4>3. CASE r = q
        <5>1. result'[r] = "null" => refused'[r] = refused[r] + 1
          BY <4>2, <4>3, Answered
        <5>2. refused[r] + 1 > 0
          BY OneMoreRefused
        <5> QED BY <5>1, <5>2
      <4>4. CASE r # q
        <5>1. result'[r] = result[r] /\ refused'[r] = refused[r]
          BY <4>2, <4>4, Answered
        <5>2. dropped' = dropped /\ (WithWriter(r) => WithWriter(r)')
          BY <3>1, <4>1, <4>4 DEF WriterRecords, WithWriter, scheduled
        <5> QED BY <2>3, <5>1, <5>2
      <4> QED BY <4>3, <4>4
    <3>2. CASE ~WriterRecords
      <4>1. UNCHANGED result
        BY <1>2, <2>1, <2>4, <3>2
           DEF Next, World, Handle, Write, Tick, Insert, ConfigNotified, StopRequested,
               fClearOldPendingRequests, SelectPending, RowRefused, RowExecuted,
               NotificationRead, ScheduledRecorded, OutcomeRecorded, RowsDone, Listen,
               ListenReturns, PollTimesOut, WriterLooks, NothingScheduled, WriterWaits,
               WriterTakes, WriterProcesses, vars, table, IsNext
      <4> QED BY <2>3, <2>4, <3>2, <4>1, WriterKeepsRows, StaysDropped, RefusedGrows
    <3> QED BY <3>1, <3>2
  <2>6. row' = r
    BY <2>1, <2>2
  <2> QED BY <2>5, <2>6 DEF MarkedIsKept, WithWriter
<1> QED BY <1>1, <1>2

LEMMA NewSeenStep ==
  ASSUME TypeOK, ServiceInv, KeptInv, [Next]_vars
  PROVE  NewIsSeen' /\ ListensLater' /\ OnlyScheduledIsOpen'
<1> USE DEF KeptInv, NewIsSeen, ListensLater, OnlyScheduledIsOpen, client, table, ears,
            handlerVars
<1>0. \A r \in Request : refused[r] > 0 => refused'[r] > 0
  BY RefusedGrows
<1>1. ASSUME NEW q \in Request, NEW when \in 0..MaxTime, Insert(q, when)
      PROVE  NewIsSeen' /\ ListensLater' /\ OnlyScheduledIsOpen'
  <2>1. \A r \in Request : r # q /\ r \in Inserted' => r \in Inserted
    BY <1>1 DEF Insert, Inserted, TypeOK
  <2>2. q \in notified' \/ q \in unheard'
    BY <1>1 DEF Insert
  <2>3. /\ UNCHANGED <<response, result, refused, batch, row, handler, listening, absorbed>>
        /\ notified \subseteq notified' /\ unheard \subseteq unheard'
    BY <1>1 DEF Insert
  <2> QED BY <2>1, <2>2, <2>3, RequestAssumption
<1>2. CASE CrashAndRestart
  BY <1>2 DEF CrashAndRestart
<1>3. CASE fClearOldPendingRequests
  <2>1. handler = "clear" /\ handler' = "select" /\ UNCHANGED listening
    BY <1>3 DEF fClearOldPendingRequests
  <2>2. \A r \in Request :
          \/ response'[r] = "missed" /\ result'[r] = "false"
          \/ response'[r] = response[r] /\ result'[r] = result[r]
    BY <1>3, Cleared
  <2> QED BY <2>1, <2>2
<1>4. CASE SelectPending
  <2>1. Inserted' = Inserted /\ UNCHANGED <<table, listening>> /\ handler' = "rows"
    BY <1>4 DEF SelectPending, Inserted
  <2>2. batch' = Pending \/ Pending \subseteq unheard'
    BY <1>4 DEF SelectPending
  <2> QED BY <2>1, <2>2 DEF Pending
<1>5. ASSUME NEW q \in Request, RowRefused(q)
      PROVE  NewIsSeen' /\ ListensLater' /\ OnlyScheduledIsOpen'
  <2>1. Inserted' = Inserted
    BY <1>5 DEF RowRefused, Inserted
  <2>2. /\ batch' = batch \ {q} /\ handler = "rows" /\ UNCHANGED <<row, handler, listening>>
        /\ UNCHANGED <<notified, absorbed, unheard>>
    BY <1>5 DEF RowRefused, IsNext, Taken
  <2>3. PICK text \in {"not writeable", "malformed"} : Answer(q, text, "false")
    BY <1>5 DEF RowRefused
  <2>4. \A r \in Request :
          \/ r = q /\ response'[r] = text /\ result'[r] = "false"
          \/ /\ response'[r] = response[r] /\ result'[r] = result[r]
             /\ r = q => refused'[r] = refused[r] + 1
    <3>1. /\ \A r \in Request : r # q => response'[r] = response[r] /\ result'[r] = result[r]
          /\ \/ response'[q] = text /\ result'[q] = "false"
             \/ /\ response'[q] = response[q] /\ result'[q] = result[q]
                /\ refused'[q] = refused[q] + 1
      BY <2>3, Answered
    <3> QED BY <3>1
  <2>5. refused[q] + 1 > 0
    BY OneMoreRefused
  <2>6. NewIsSeen'
    <3>1. \A r \in Writeable \cap Inserted : response'[r] = "null" =>
             response[r] = "null" /\ (r # q \/ refused'[r] > 0)
      BY <2>4, <2>5 DEF Inserted
    <3>2. ASSUME NEW r \in Writeable \cap Inserted, response'[r] = "null"
          PROVE  \/ r \in batch' \/ r = row' \/ r \in (notified \cup absorbed)' \/ r \in unheard'
                 \/ handler' \in {"clear", "select"}
                 \/ refused'[r] > 0
      BY <1>0, <2>2, <3>1, <3>2 DEF Inserted
    <3> QED BY <2>1, <3>2
  <2>7. ListensLater'
    BY <2>2
  <2>8. OnlyScheduledIsOpen'
    BY <2>4
  <2> QED BY <2>6, <2>7, <2>8
<1>6. ASSUME NEW q \in Request, RowScheduled(q) \/ RowExecuted(q)
      PROVE  NewIsSeen' /\ ListensLater' /\ OnlyScheduledIsOpen'
  <2>1. Inserted' = Inserted
    BY <1>6 DEF RowScheduled, RowExecuted, Inserted
  <2>2. /\ batch' = batch \ {q} /\ row' = q /\ handler = "rows"
        /\ handler' \in {"record scheduled", "record outcome"}
        /\ UNCHANGED <<response, result, refused, notified, absorbed, unheard>>
    BY <1>6 DEF RowScheduled, RowExecuted, IsNext, Taken
  <2>3. row = NoRequest
    BY <2>2 DEF TypeOK
  <2> QED BY <2>1, <2>2, <2>3, RequestAssumption
<1>7. ASSUME NEW q \in Request, NotificationRead(q)
      PROVE  NewIsSeen' /\ ListensLater' /\ OnlyScheduledIsOpen'
  <2>1. Inserted' = Inserted
    BY <1>7 DEF NotificationRead, Inserted
  <2> QED BY <1>7, <2>1 DEF NotificationRead
<1>8. CASE ScheduledRecorded \/ OutcomeRecorded \/ WriterRecords
  <2>1. Inserted' = Inserted
    BY <1>8 DEF ScheduledRecorded, OutcomeRecorded, WriterRecords, Inserted
  <2>2. PICK q \in Request :
             /\ \E text \in {"scheduled", "done"}, res \in {"null"} \cup Outcome :
                  Answer(q, text, res) /\ (text = "done" => res # "null")
             /\ q = row \/ UNCHANGED row
    <3>1. CASE ScheduledRecorded
      <4>1. row \in Request /\ result[row] \in {"null"} \cup Outcome
        BY <3>1, RequestAssumption DEF ScheduledRecorded, TypeOK
      <4> QED BY <3>1, <4>1 DEF ScheduledRecorded
    <3>2. CASE OutcomeRecorded
      <4>1. row \in Request /\ outcome \in Outcome
        BY <3>2, RequestAssumption DEF OutcomeRecorded, TypeOK
      <4> QED BY <3>2, <4>1 DEF OutcomeRecorded, Outcome
    <3>3. CASE WriterRecords
      <4>1. req \in Request /\ writerOutcome \in Outcome
        BY <3>3, RequestAssumption DEF WriterRecords, TypeOK
      <4> QED BY <3>3, <4>1 DEF WriterRecords, Outcome
    <3> QED BY <1>8, <3>1, <3>2, <3>3
  <2>3. PICK text \in {"scheduled", "done"}, res \in {"null"} \cup Outcome :
             Answer(q, text, res) /\ (text = "done" => res # "null")
    BY <2>2
  <2>4. \A r \in Request :
          \/ r = q /\ response'[r] = text /\ result'[r] = res
          \/ /\ response'[r] = response[r] /\ result'[r] = result[r]
             /\ r = q => refused'[r] = refused[r] + 1
    BY <2>3, Answered
  <2>5. /\ UNCHANGED <<batch, notified, absorbed, unheard, listening>>
        /\ UNCHANGED handler \/ handler \notin {"clear", "select"}
        /\ handler' = "clear" => handler = "clear"
    BY <1>8 DEF ScheduledRecorded, OutcomeRecorded, WriterRecords
  <2>6. refused[q] + 1 > 0
    BY OneMoreRefused
  <2>7. \A r \in Request : response'[r] = "null" =>
          response[r] = "null" /\ (r # q \/ refused'[r] > 0)
    BY <2>4, <2>6
  <2>8. NewIsSeen'
    <3>1. ASSUME NEW r \in Writeable \cap Inserted, response'[r] = "null"
          PROVE  \/ r \in batch' \/ r = row' \/ r \in (notified \cup absorbed)' \/ r \in unheard'
                 \/ handler' \in {"clear", "select"}
                 \/ refused'[r] > 0
      BY <1>0, <2>2, <2>5, <2>7, <3>1 DEF Inserted
    <3> QED BY <2>1, <3>1
  <2>9. OnlyScheduledIsOpen'
    BY <2>3, <2>4
  <2> QED BY <2>5, <2>8, <2>9
<1>9. CASE RowsDone \/ Listen \/ ListenReturns \/ PollTimesOut
  <2>1. Inserted' = Inserted
    BY <1>9 DEF RowsDone, Listen, ListenReturns, PollTimesOut, Inserted
  <2>2. /\ UNCHANGED <<table, batch, row, unheard>>
        /\ handler \notin {"clear", "select"} /\ handler' \notin {"clear", "select"}
    BY <1>9 DEF RowsDone, Listen, ListenReturns, PollTimesOut
  <2>3. (notified \cup absorbed) \subseteq (notified \cup absorbed)'
    <3>1. CASE ListenReturns
      BY <3>1 DEF ListenReturns
    <3>2. CASE RowsDone \/ Listen \/ PollTimesOut
      BY <3>2 DEF RowsDone, Listen, PollTimesOut
    <3> QED BY <1>9, <3>1, <3>2
  <2> QED BY <2>1, <2>2, <2>3
<1>10. CASE \/ Tick \/ WriterTakes \/ WriterProcesses \/ UNCHANGED vars
            \/ \E r \in Request : WriterWaits(r)
            \/ WriterLooks \/ NothingScheduled \/ ConfigNotified \/ StopRequested
  <2>1. Inserted' = Inserted
    BY <1>10 DEF Tick, WriterTakes, WriterProcesses, WriterWaits, WriterLooks,
                 NothingScheduled, ConfigNotified, StopRequested, vars, Inserted
  <2>2. /\ UNCHANGED <<table, batch, row, unheard, handler, listening>>
        /\ (notified \cup absorbed) \subseteq (notified \cup absorbed)'
    BY <1>10 DEF Tick, WriterTakes, WriterProcesses, WriterWaits, WriterLooks,
                 NothingScheduled, ConfigNotified, StopRequested, vars
  <2> QED BY <2>1, <2>2
<1> QED BY <1>1, <1>2, <1>3, <1>4, <1>5, <1>6, <1>7, <1>8, <1>9, <1>10
        DEF Next, World, Handle, Write

LEMMA KeptInvariant == Spec => []KeptInv
<1>1. Init => KeptInv
  BY DEF Init, KeptInv, OnlyScheduledIsOpen, ScheduledIsKept, MarkedIsKept, NewIsSeen,
         ListensLater
<1>2. TypeOK /\ ServiceInv /\ KeptInv /\ [Next]_vars => KeptInv'
  BY ScheduledKeptStep, MarkedKeptStep, NewSeenStep DEF KeptInv
<1> QED BY <1>1, <1>2, TypeCorrect, ServiceInvariant, PTL DEF Spec

\* While the daemon listens, no writeable row without a result is forgotten, but for the
\* known reasons: it came before LISTEN or a SELECT failed and nothing was selected since,
\* its notification came with the answer to LISTEN, another request was scheduled for its
\* time, its daemon died, or an UPDATE of it was refused (slowcontrolDaemon.cpp:349-493).
THEOREM OnlyKnownLosses == Spec => []LostOnlyForKnownReasons
<1>1. TypeOK /\ KeptInv => LostOnlyForKnownReasons
  <2> SUFFICES ASSUME TypeOK, KeptInv, listening,
                      NEW r \in Writeable \cap Inserted, result[r] = "null"
               PROVE  \/ InHand(r)
                      \/ r \in notified \cup absorbed
                      \/ handler = "select" /\ response[r] = "null"
                      \/ response[r] = "null" /\ r \in unheard
                      \/ response[r] = "scheduled" /\ r \in dropped \cup orphaned
                      \/ refused[r] > 0
    BY DEF LostOnlyForKnownReasons
  <2>1. r \in Request /\ response[r] \in {"null", "scheduled"}
    BY DEF KeptInv, OnlyScheduledIsOpen, Inserted
  <2>2. CASE response[r] = "null"
    BY <2>2 DEF KeptInv, NewIsSeen, ListensLater, InHand
  <2>3. CASE response[r] = "scheduled"
    BY <2>1, <2>3 DEF KeptInv, ScheduledIsKept, InHand, WithWriter
  <2> QED BY <2>1, <2>2, <2>3
<1> QED BY <1>1, TypeCorrect, KeptInvariant, PTL
=============================================================================
