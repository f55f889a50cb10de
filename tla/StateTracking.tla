--------------------------- MODULE StateTracking ----------------------------
(***************************************************************************)
(* The state of a measurement in the program and in the table uid_states:  *)
(* boundCheckerInterface::fCheckValue (base/include/measurement.h) and     *)
(* measurementBase::fSetState (base/measurement.cpp).  Values are stored,  *)
(* and so checked, by the reader thread, by the thread for setvalue        *)
(* requests and by main, and nothing is locked.                            *)
(*                                                                         *)
(* Of a value only its class matters, which is the name of the state it    *)
(* asks for.                                                               *)
(***************************************************************************)
EXTENDS Naturals

CONSTANTS Thread,     \* those that store values of this measurement
          Class,      \* "normal" and those of "valueTooLow", "valueTooHigh" that are checked
          MaxChecks,  \* bound: values checked
          MaxLost     \* bound: statements that fail

StateAssumption == /\ "normal" \in Class
                   /\ Class \subseteq {"normal", "valueTooLow", "valueTooHigh"}
                   /\ {MaxChecks, MaxLost} \subseteq Nat

VARIABLES lState,      \* the state in the program
          row,         \* uid_states.type
          last,        \* the class of the last value that was stored
          pc, goal,    \* per thread, what it does next and the state it wants
          alone,       \* per thread, nobody else came into fSetState since it did
          overlapped,  \* somebody did, and no update was made alone since
          lost,        \* the last statement failed
          checks, losses

vars == <<lState, row, last, pc, goal, alone, overlapped, lost, checks, losses>>

Init == /\ lState = "normal" /\ row = "normal" /\ last = "normal"
        /\ pc = [t \in Thread |-> "idle"]
        /\ goal = [t \in Thread |-> "normal"]
        /\ alone = [t \in Thread |-> FALSE]
        /\ overlapped = FALSE /\ lost = FALSE
        /\ checks = 0 /\ losses = 0

Goes(t, to) == pc' = [pc EXCEPT ![t] = to]
Enter(t) ==
  LET nobody == \A u \in Thread \ {t} : pc[u] = "idle"
  IN /\ alone' = [u \in Thread |-> u = t /\ nobody]
     /\ overlapped' = (overlapped \/ ~nobody)
-----------------------------------------------------------------------------
\* fCheckValue, called with each value that is stored but a number that repeats the last
\* two (measurement.h:252-256), whose class has been checked before: nothing to do if the
\* state is that of the class already.
fCheckValueOnceBad(t, c) ==
  /\ pc[t] = "idle"
  /\ checks < MaxChecks
  /\ checks' = checks + 1
  /\ last' = c
  /\ goal' = [goal EXCEPT ![t] = c]
  /\ IF lState = c \/ c = "normal" THEN UNCHANGED pc ELSE Goes(t, "compare")
  /\ Enter(t)
  /\ UNCHANGED <<lState, row, lost, losses>>
fCheckValue(t, c) ==
  /\ pc[t] = "idle"
  /\ checks < MaxChecks
  /\ checks' = checks + 1
  /\ last' = c
  /\ goal' = [goal EXCEPT ![t] = c]
  /\ IF lState = c THEN UNCHANGED pc ELSE Goes(t, "compare")
  /\ Enter(t)
  /\ UNCHANGED <<lState, row, lost, losses>>

\* fSetState, after the type of the state has been found: compare, ...
Compare(t) ==
  /\ pc[t] = "compare"
  /\ Goes(t, IF goal[t] # lState THEN "update" ELSE "idle")
  /\ UNCHANGED <<lState, row, last, goal, alone, overlapped, lost, checks, losses>>

\* ... UPDATE (whose rule uid_state_history_saver keeps the old row), ...
Update(t) ==
  /\ pc[t] = "update"
  /\ row' = goal[t]
  /\ lost' = FALSE
  /\ Goes(t, "assign")
  /\ UNCHANGED <<lState, last, goal, alone, overlapped, checks, losses>>

\* ... which is not repeated if the database refuses it, ...
UpdateFails(t) ==
  /\ pc[t] = "update"
  /\ losses < MaxLost
  /\ losses' = losses + 1
  /\ lost' = TRUE
  /\ Goes(t, "assign")
  /\ UNCHANGED <<lState, row, last, goal, alone, overlapped, checks>>

\* ... and assign.
Assign(t) ==
  /\ pc[t] = "assign"
  /\ lState' = goal[t]
  /\ Goes(t, "idle")
  /\ overlapped' = (overlapped /\ ~alone[t])
  /\ UNCHANGED <<row, last, goal, alone, lost, checks, losses>>

Next == \E t \in Thread : \/ \E c \in Class : fCheckValue(t, c)
                          \/ Compare(t) \/ Update(t) \/ UpdateFails(t) \/ Assign(t)
Spec == Init /\ [][Next]_vars
-----------------------------------------------------------------------------
TypeOK == /\ {lState, row, last} \subseteq Class
          /\ pc \in [Thread -> {"idle", "compare", "update", "assign"}]
          /\ goal \in [Thread -> Class]
          /\ alone \in [Thread -> BOOLEAN]
          /\ {overlapped, lost} \subseteq BOOLEAN
          /\ checks \in 0..MaxChecks /\ losses \in 0..MaxLost

\* The program and the database show the state of the last value, whichever threads stored
\* it, unless two of them were in fSetState at the same time or a statement was lost; and
\* the next update that is made alone repairs it.
StatesAgree ==
  (\A t \in Thread : pc[t] = "idle") /\ ~overlapped /\ ~lost =>
    lState = last /\ row = last
=============================================================================
