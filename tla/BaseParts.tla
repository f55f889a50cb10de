------------------------------ MODULE BaseParts ------------------------------
(***************************************************************************)
(* The smaller parts of base/ side by side: a behaviour is one of one      *)
(* part, while the variables of the others stay as they began.  So what    *)
(* holds of a part holds here while it is its turn, and the other way      *)
(* round.                                                                  *)
(***************************************************************************)
EXTENDS Naturals, Sequences

CONSTANTS
  \* bool
  Gaps, BoolMaxTime,
  \* requests
  Request, Writeable, WellFormed, NoRequest, NotYet, MaxTime, MaxCrashes,
  MaxRefused,
  \* registry
  Process, Key, Kind, Program, WriteValue, Normal, Other, NoRow, MaxDeaths,
  \* config
  Value, MaxEdits, MaxStarts,
  \* client
  Client, ClientRequest, Uid,
  \* states
  Thread, Class, MaxChecks, MaxLost,
  \* schedule
  Measurement, None, Intervals, Ceiling, Beat, MaxRead, MaxChanges

VARIABLES
  part,
  \* bool
  lOldValue, lOldTime, lNoValueYet, lOldValueUnsent, lSendQueue, table, clock, samples,
  \* requests
  now, wrCrashes, request_time, response, wrResult, refused, executed, lStopRequested,
  handler, wrListening, notified, absorbed, batch, wrRow, outcome,
  gScheduledWriteRequests, writer, req, writerOutcome, unheard, dropped, orphaned,
  \* registry
  db, regPc, step, inserted, regLState, regCrashes,
  \* config
  cfgRow, known, cfgPc, compiled, lValue, cfgResult, cfgListening, wire, deaf, edits,
  starts,
  \* client
  clPc, clRow, socket, queue, answered,
  \* states
  stLState, stRow, last, stPc, goal, alone, overlapped, lost, checks, losses,
  \* schedule
  registered, interval, due, schPc, current, spent, lHeartBeatPeriod, toBeat, promised,
  sinceRead, stopping, changes

Bool == INSTANCE BoolMeasurement WITH
    MaxTime <- BoolMaxTime
Requests == INSTANCE WriteRequests WITH
    crashes <- wrCrashes, result <- wrResult, listening <- wrListening, row <- wrRow
Names == INSTANCE Registry WITH
    Writeable <- WriteValue, MaxCrashes <- MaxDeaths, pc <- regPc, lState <- regLState,
    crashes <- regCrashes
Options == INSTANCE ConfigValues WITH
    row <- cfgRow, pc <- cfgPc, result <- cfgResult, listening <- cfgListening
Answers == INSTANCE RequestClient WITH
    Request <- ClientRequest, pc <- clPc, row <- clRow
States == INSTANCE StateTracking WITH
    lState <- stLState, row <- stRow, pc <- stPc
Reader == INSTANCE ReaderSchedule WITH
    pc <- schPc

ASSUME PartsAssumption ==
  /\ Bool!BoolAssumption
  /\ Requests!RequestAssumption
  /\ Names!RegistryAssumption
  /\ Options!ConfigAssumption
  /\ Answers!ClientAssumption
  /\ States!StateAssumption
  /\ Reader!ScheduleAssumption

boolVars == <<lOldValue, lOldTime, lNoValueYet, lOldValueUnsent, lSendQueue, table, clock,
              samples>>
requestsVars == <<now, wrCrashes, request_time, response, wrResult, refused, executed,
                  lStopRequested, handler, wrListening, notified, absorbed, batch, wrRow,
                  outcome, gScheduledWriteRequests, writer, req, writerOutcome, unheard,
                  dropped, orphaned>>
registryVars == <<db, regPc, step, inserted, regLState, regCrashes>>
configVars == <<cfgRow, known, cfgPc, compiled, lValue, cfgResult, cfgListening, wire,
                deaf, edits, starts>>
clientVars == <<clPc, clRow, socket, queue, answered>>
statesVars == <<stLState, stRow, last, stPc, goal, alone, overlapped, lost, checks, losses>>
scheduleVars == <<registered, interval, due, schPc, current, spent, lHeartBeatPeriod,
                  toBeat, promised, sinceRead, stopping, changes>>
all == <<part, boolVars, requestsVars, registryVars, configVars, clientVars, statesVars,
         scheduleVars>>
-----------------------------------------------------------------------------
\* The parts that begin with a choice begin with one of it when it is not their turn.
Init == /\ part \in {"bool", "requests", "registry", "config", "client", "states", "schedule"}
        /\ Bool!Init
        /\ Requests!Init
        /\ Names!Init
        /\ Options!Init
        /\ Answers!Init
        /\ States!Init
        /\ Reader!Init
        /\ part # "bool" => ~lOldValue
        /\ part # "schedule" => registered = {}

Next ==
  \/ part = "bool" /\ Bool!Next
     /\ UNCHANGED <<part, requestsVars, registryVars, configVars, clientVars, statesVars,
                     scheduleVars>>
  \/ part = "requests" /\ Requests!Next
     /\ UNCHANGED <<part, boolVars, registryVars, configVars, clientVars, statesVars,
                     scheduleVars>>
  \/ part = "registry" /\ Names!Next
     /\ UNCHANGED <<part, boolVars, requestsVars, configVars, clientVars, statesVars,
                     scheduleVars>>
  \/ part = "config" /\ Options!Next
     /\ UNCHANGED <<part, boolVars, requestsVars, registryVars, clientVars, statesVars,
                     scheduleVars>>
  \/ part = "client" /\ Answers!Next
     /\ UNCHANGED <<part, boolVars, requestsVars, registryVars, configVars, statesVars,
                     scheduleVars>>
  \/ part = "states" /\ States!Next
     /\ UNCHANGED <<part, boolVars, requestsVars, registryVars, configVars, clientVars,
                     scheduleVars>>
  \/ part = "schedule" /\ Reader!Next
     /\ UNCHANGED <<part, boolVars, requestsVars, registryVars, configVars, clientVars,
                     statesVars>>

\* As in the modules.
Fairness ==
  /\ WF_requestsVars(part = "requests" /\ Requests!Handle)
  /\ WF_requestsVars(part = "requests" /\ Requests!Write)
  /\ WF_requestsVars(part = "requests" /\ Requests!Tick)
  /\ \A p \in Process : WF_registryVars(part = "registry" /\ Names!Start(p))
  /\ WF_configVars(part = "config" /\ Options!Daemon)
  /\ WF_configVars(part = "config" /\ \E v \in Value : Options!Start(v))

Spec == Init /\ [][Next]_all /\ Fairness
-----------------------------------------------------------------------------
\* The types of whichever part it is.
TypesOK ==
  /\ part = "bool" => Bool!TypeOK
  /\ part = "requests" => Requests!TypeOK
  /\ part = "registry" => Names!TypeOK
  /\ part = "config" => Options!TypeOK
  /\ part = "client" => Answers!TypeOK
  /\ part = "states" => States!TypeOK
  /\ part = "schedule" => Reader!TypeOK

\* The rows of a boolean measurement show every sample and nothing else (BoolMeasurement).
GraphIsTrue == part = "bool" => Bool!GraphIsTrue

\* measurement<bool> implements the stream of its rows (BoolMeasurement).
ImplementsValueStream == Bool!ImplementsValueStream

\* A request whose notification is seen is answered or lost for a known reason
\* (WriteRequests).
NotifiedIsAnswered == part = "requests" => Requests!NotifiedIsAnswered

\* A process that has come up has all its rows (Registry).
RunningIsRegistered == part = "registry" => Names!RunningIsRegistered

\* Every process comes up, and no start resets a state (Registry).
ComeUpUnharmed == Names!StateSurvivesRestart /\ (part = "registry" => Names!AllComeUp)

\* Daemon and users come to an agreement about an option (ConfigValues).
AgreeInTheEnd == part = "config" => Options!AgreeInTheEnd

\* No client passes over the notification of its answer (RequestClient).
AnswerStaysInReach == part = "client" => Answers!AnswerStaysInReach

\* A client that goes back to poll is woken by its answer (RequestClient).  The code has
\* ways to sleep on it.
NextOneWakes == part = "client" => Answers!NextOneWakes

\* Program and database show the state of the last value (StateTracking).
StatesAgree == part = "states" => States!StatesAgree

\* Readouts, stop and heart beat keep their times (ReaderSchedule).
ScheduleKept == part = "schedule" => Reader!ScheduleKept
=============================================================================
