---------------------------- MODULE PowerSupply -----------------------------
(***************************************************************************)
(* korad_d: the reader and the two threads of the daemon that execute      *)
(* setvalue requests, the listener and the scheduled writer, share the     *)
(* serial line of a power supply (fUseSerialLine, serialLine::fRead and    *)
(* fWrite of base/communications.cpp).  A setting is written and then read *)
(* back, each with a lock of its own, and what is in the measurement is    *)
(* then compared without any.                                              *)
(*                                                                         *)
(* The supply may not take a command, and its answers may come late.  The  *)
(* buffer of an answer is not initialized: after a timeout it holds        *)
(* anything, which may or may not be the text of a number.                 *)
(***************************************************************************)
EXTENDS Naturals, Sequences

CONSTANTS Quantity,     \* what can be set and read back (VSet, ISet, Output)
          Value,        \* the values of each
          Garbage,      \* no number: std::invalid_argument
          MaxRequests,  \* bound: requests
          MaxReads,     \* bound: readouts by the reader thread
          MaxFaults     \* bound: commands that are not taken, panel settings

SupplyAssumption == /\ Quantity # {} /\ Value # {} /\ Garbage \notin Value
                    /\ {MaxRequests, MaxReads, MaxFaults} \subseteq Nat

Requester == {"listener", "scheduled"}
Thread == Requester \cup {"reader"}
NoThread == "nobody"

VARIABLES setting,   \* what the supply has
          onTheWay,  \* answers it has not yet sent, as <<quantity, value>>
          received,  \* answers in the receive buffer of the line
          mutex,     \* lSerialLineMutex
          pc, quantity,   \* per thread, what it does next and with what
          current,   \* the measurements
          \* per thread that executes requests, for the last of them:
          goal,      \* lGoalValue
          response,  \* "none", "done." or "failed"
          had,       \* what the quantity was from its command to its response
          strange,   \* an answer came late or not at all since it was begun
          requests, reads, faults

vars == <<setting, onTheWay, received, mutex, pc, quantity, goal, current, response, had,
          strange, requests, reads, faults>>

Init == LET v == CHOOSE x \in Value : TRUE
            q == CHOOSE x \in Quantity : TRUE
        IN /\ setting = [x \in Quantity |-> v]
           /\ onTheWay = <<>> /\ received = <<>>
           /\ mutex = NoThread
           /\ pc = [t \in Thread |-> "idle"]
           /\ quantity = [t \in Thread |-> q]
           /\ goal = [t \in Requester |-> v]
           /\ current = [x \in Quantity |-> v]
           /\ response = [t \in Requester |-> "none"]
           /\ had = [t \in Requester |-> {}]
           /\ strange = [t \in Requester |-> FALSE]
           /\ requests = 0 /\ reads = 0 /\ faults = 0

Goes(t, to) == pc' = [pc EXCEPT ![t] = to]
history == <<had, strange, requests, reads, faults>>
line == <<onTheWay, received>>

\* Requests between their commands and their responses see what is set to what.
Commanded(t) == pc[t] \in {"lock", "flush", "ask", "read", "respond"}
Seen(q, v) == [t \in Requester |-> had[t] \cup IF Commanded(t) /\ quantity[t] = q THEN {v}
                                                                                  ELSE {}]
StrangeFor(T) == [t \in Requester |-> strange[t] \/ t \in T]
-----------------------------------------------------------------------------
\* fReadCurrentValue of the reader thread, and fProcessRequest.
BeginReading(q) ==
  /\ pc["reader"] = "idle"
  /\ reads < MaxReads
  /\ reads' = reads + 1
  /\ quantity' = [quantity EXCEPT !["reader"] = q]
  /\ Goes("reader", "lock")
  /\ UNCHANGED <<setting, line, mutex, goal, current, response, had, strange, requests,
                 faults>>
fProcessRequest(t, q, v) ==
  /\ pc[t] = "idle"
  /\ requests < MaxRequests
  /\ requests' = requests + 1
  /\ quantity' = [quantity EXCEPT ![t] = q]
  /\ goal' = [goal EXCEPT ![t] = v]
  /\ response' = [response EXCEPT ![t] = "none"]
  /\ had' = [had EXCEPT ![t] = {}]
  /\ strange' = [strange EXCEPT ![t] = FALSE]
  /\ Goes(t, "lockToSet")
  /\ UNCHANGED <<setting, line, mutex, current, reads, faults>>

\* fUseSerialLine
Lock(t) ==
  /\ pc[t] \in {"lock", "lockToSet"}
  /\ mutex = NoThread
  /\ mutex' = t
  /\ Goes(t, IF pc[t] = "lock" THEN "flush" ELSE "set")
  /\ UNCHANGED <<setting, line, quantity, goal, current, response, history>>

\* The command to set, and the end of its lock.  There is no answer to it.
WriteCommand(t) ==
  /\ pc[t] = "set"
  /\ \/ setting' = [setting EXCEPT ![quantity[t]] = goal[t]] /\ UNCHANGED faults
     \/ faults < MaxFaults /\ faults' = faults + 1 /\ UNCHANGED setting
  /\ LET v == setting'[quantity[t]] IN had' = [Seen(quantity[t], v) EXCEPT ![t] = {v}]
  /\ mutex' = NoThread
  /\ Goes(t, "lock")
  /\ UNCHANGED <<line, quantity, goal, current, response, strange, requests, reads>>

\* An answer to an earlier question that is still on its way now will be taken for that to
\* the next one.
FlushNothing(t) ==
  /\ pc[t] = "flush"
  /\ strange' = StrangeFor(IF onTheWay = <<>> THEN {} ELSE Requester)
  /\ Goes(t, "ask")
  /\ UNCHANGED <<setting, line, mutex, quantity, goal, current, response, had, requests,
                 reads, faults>>
fFlushReceiveBuffer(t) ==
  /\ pc[t] = "flush"
  /\ received' = <<>>
  /\ strange' = StrangeFor(IF onTheWay = <<>> THEN {} ELSE Requester)
  /\ Goes(t, "ask")
  /\ UNCHANGED <<setting, onTheWay, mutex, quantity, goal, current, response, had, requests,
                 reads, faults>>

Ask(t) ==
  /\ pc[t] = "ask"
  /\ \/ onTheWay' = Append(onTheWay, <<quantity[t], setting[quantity[t]]>>) /\ UNCHANGED faults
     \/ faults < MaxFaults /\ faults' = faults + 1 /\ UNCHANGED onTheWay
  /\ Goes(t, "read")
  /\ UNCHANGED <<setting, received, mutex, quantity, goal, current, response, had, strange,
                 requests, reads>>

\* What follows fRead: fStore, if it was a number, and the end of the lock.
Keep(t, v) ==
  /\ current' = IF v = Garbage THEN current ELSE [current EXCEPT ![quantity[t]] = v]
  /\ mutex' = NoThread
  /\ Goes(t, IF t \in Requester THEN "respond" ELSE "idle")
  /\ UNCHANGED <<setting, quantity, goal, response, had, requests, reads, faults>>

fRead(t) ==
  /\ pc[t] = "read"
  /\ received # <<>>
  /\ received' = Tail(received)
  /\ Keep(t, Head(received)[2])
  /\ UNCHANGED <<onTheWay, strange>>
Timeout(t) ==
  /\ pc[t] = "read"
  /\ received = <<>>
  /\ \E v \in Value \cup {Garbage} : Keep(t, v)
  /\ strange' = StrangeFor(Requester)
  /\ UNCHANGED line

\* The measurement, not what this thread read, is compared with the goal, without a lock.
Respond(t) ==
  /\ pc[t] = "respond"
  /\ response' = [response EXCEPT ![t] = IF current[quantity[t]] = goal[t] THEN "done."
                                                                          ELSE "failed"]
  /\ Goes(t, "idle")
  /\ UNCHANGED <<setting, line, mutex, quantity, goal, current, history>>

\* Outside: an answer arrives, somebody turns a knob of the supply.
Arrive ==
  /\ onTheWay # <<>>
  /\ received' = Append(received, Head(onTheWay))
  /\ onTheWay' = Tail(onTheWay)
  /\ UNCHANGED <<setting, mutex, pc, quantity, goal, current, response, history>>
Panel(q, v) ==
  /\ faults < MaxFaults
  /\ faults' = faults + 1
  /\ setting' = [setting EXCEPT ![q] = v]
  /\ had' = Seen(q, v)
  /\ UNCHANGED <<line, mutex, pc, quantity, goal, current, response, strange, requests, reads>>

Next == \/ \E t \in Thread : \/ Lock(t) \/ fFlushReceiveBuffer(t) \/ Ask(t)
                             \/ fRead(t) \/ Timeout(t)
        \/ \E q \in Quantity : BeginReading(q) \/ \E v \in Value : Panel(q, v)
        \/ \E t \in Requester : \/ WriteCommand(t) \/ Respond(t)
                                \/ \E q \in Quantity, v \in Value : fProcessRequest(t, q, v)
        \/ Arrive
Spec == Init /\ [][Next]_vars
-----------------------------------------------------------------------------
TypeOK ==
  /\ {setting, current} \subseteq [Quantity -> Value] /\ goal \in [Requester -> Value]
  /\ {onTheWay, received} \subseteq Seq(Quantity \X Value)
  /\ mutex \in Thread \cup {NoThread}
  /\ pc \in [Thread -> {"idle", "lock", "lockToSet", "set", "flush", "ask", "read", "respond"}]
  /\ quantity \in [Thread -> Quantity]
  /\ response \in [Requester -> {"none", "done.", "failed"}]
  /\ had \in [Requester -> SUBSET Value] /\ strange \in [Requester -> BOOLEAN]
  /\ requests \in 0..MaxRequests /\ reads \in 0..MaxReads /\ faults \in 0..MaxFaults

\* Answers carry no name, the line is given up between setting and reading back, and the
\* measurement may be another's by the time it is compared: still a request is answered with
\* "done." only if the supply had its value at some time between its command and the answer,
\* whatever the other threads and the front panel did.  What nobody else sets meanwhile is
\* therefore set.  Excepted are late answers (one is stored as that of another question)
\* and missing ones.
DoneIsSet ==
  \A t \in Requester : response[t] = "done." /\ ~strange[t] => goal[t] \in had[t]
=============================================================================
