---------------------------- MODULE RuleProcessor ----------------------------
(***************************************************************************)
(* ruleProcessord (daemons/ruleProcessord.cpp): a graph of rule nodes      *)
(* between measurements and actions.  The main loop runs the delays that   *)
(* are due, polls the database connection and, for each notification,      *)
(* reads the newest row of a measurement and processes its dependents,     *)
(* depth first.  An action inserts a request to set a value.               *)
(*                                                                         *)
(* A node is processed in one step; the stack holds, for every fProcess    *)
(* that is active, the dependents still to be called.  Their order is that *)
(* of a std::set of pointers, so any order.  Notifications pass through    *)
(* two places: the socket (wire), and the queue of libpq, which is filled  *)
(* by consumeInput and by any statement that is executed.  Values are      *)
(* integers, a boolean is 0 or 1.  Graphs are acyclic.                     *)
(***************************************************************************)
EXTENDS Integers, Sequences, FiniteSets, FiniteSetsExt, Functions

CONSTANTS Graphs,     \* the graphs that may be in the database, see IsGraph
          Readings,   \* the values of the rows that are inserted
          None,
          MaxTime     \* bound: the clock

Sources   == {"measurement", "constant"}
Combining == {"or", "and", "odd", "even", "greater", "sum", "product", "difference"}

\* The slots that the parents of a node of a type have to have; others have a set of parents:
\* their slots are numbers, and a parent is in one of them.
Slots(type) == CASE type \in Sources             -> {}
                 [] type = "latch"                -> {"set", "reset"}
                 [] type = "greater"              -> {"left", "right"}
                 [] type = "difference"           -> {"subtrahend", "minuend"}
                 [] type \in {"delay", "action"}  -> {"parent"}
NumberOfParentsIsFree == {"or", "and", "odd", "even", "latest", "sum", "product"}

\* A graph has per node its type and its parents by slot, and the configured values.
ParentsIn(g, n) == {g.parent[n][slot] : slot \in DOMAIN g.parent[n]}
IsGraph(g) ==
  LET node == DOMAIN g.kind
  IN  /\ IsFiniteSet(node)
      /\ \A n \in node :
           /\ g.kind[n] \in Sources \cup Combining \cup {"latch", "latest", "delay", "action"}
           /\ ParentsIn(g, n) \subseteq node
           /\ IF g.kind[n] \in NumberOfParentsIsFree
              THEN IsFiniteSet(DOMAIN g.parent[n]) /\ IsInjective(g.parent[n])
              ELSE DOMAIN g.parent[n] = Slots(g.kind[n])
           /\ g.kind[n] = "delay" => g.delay[n] \in Nat
           /\ g.kind[n] = "constant" => g.constant[n] \in Int
      /\ \A S \in SUBSET node :
           S # {} => \E n \in S : ParentsIn(g, n) \cap S = {}   \* it is acyclic

ASSUME RuleAssumption ==
         /\ \A g \in Graphs : IsGraph(g)
         /\ Readings \subseteq Int
         /\ MaxTime \in Nat \ {0}

VARIABLES rules,          \* the graph that was read at the start
          now,
          rows,           \* per measurement its newest row
          wire,           \* notifications on their way, in order
          notifications,  \* those libpq has read and main has not
          phase,          \* where main is
          stack,          \* the dependents still to be processed, innermost first
          lValue, lTime,  \* per node
          lTimes,         \* the delays that wait (timedActionsClass)
          it,             \* the one timedActionsClass::fProcess is at
          requests,       \* per action, the value it last asked for
          processed,      \* history: the nodes that have been processed since the start
          unheard         \* history: measurements with a row newer than any notification

world == <<rules, now, rows, unheard>>
graph == <<lValue, lTime, lTimes, requests, processed>>
vars  == <<world, wire, notifications, phase, stack, graph, it>>

Node     == DOMAIN rules.kind
Kind     == rules.kind
Parent   == rules.parent
Delay    == rules.delay
Constant == rules.constant

Measurements == {n \in Node : Kind[n] = "measurement"}
Delays       == {n \in Node : Kind[n] = "delay"}
Actions      == {n \in Node : Kind[n] = "action"}
Constants    == {n \in Node : Kind[n] = "constant"}

Parents(n)    == ParentsIn(rules, n)
Dependents(n) == {d \in Node : n \in Parents(d)}

InQueue(m, queue) == \E i \in DOMAIN queue : queue[i] = m
-----------------------------------------------------------------------------
\* Only measurements and constants have a value before they are processed.
Init ==
  /\ rules \in Graphs
  /\ now = 1
  /\ rows \in [Measurements -> [lTime : {1}, value : Readings]]
  /\ wire = <<>>
  /\ notifications = <<>>
  /\ phase = "read"
  /\ stack = <<>>
  /\ \E garbage \in {0, 1} :
       lValue = [n \in Node |-> IF n \in Constants THEN Constant[n] ELSE garbage]
  /\ lTime = [n \in Node |-> 0]
  /\ lTimes = {}
  /\ it = None
  /\ requests = [a \in Actions |-> None]
  /\ processed = {}
  /\ unheard = {}

\* A daemon inserts a row; the rule ruleprocessornotify tells a processor that listens.
Insert(m, v) ==
  /\ now < MaxTime
  /\ now' = now + 1
  /\ rows' = [rows EXCEPT ![m] = [lTime |-> now + 1, value |-> v]]
  /\ IF phase = "read"
       THEN unheard' = unheard \cup {m} /\ UNCHANGED wire
       ELSE wire' = Append(wire, m) /\ unheard' = unheard \ {m}
  /\ UNCHANGED <<rules, notifications, phase, stack, graph, it>>

Tick == /\ now < MaxTime
        /\ now' = now + 1
        /\ UNCHANGED <<rules, rows, unheard, wire, notifications, phase, stack, graph, it>>

\* getFromDb of a measurement when its node is made.
ReadMeasurement(m) ==
  /\ phase = "read"
  /\ lTime[m] = 0
  /\ lValue' = [lValue EXCEPT ![m] = rows[m].value]
  /\ lTime' = [lTime EXCEPT ![m] = rows[m].lTime]
  /\ unheard' = unheard \ {m}
  /\ UNCHANGED <<rules, now, rows, wire, notifications, phase, stack, lTimes, requests,
                 processed, it>>

Listen ==
  /\ phase = "read"
  /\ \A m \in Measurements : lTime[m] # 0
  /\ phase' = "start"
  /\ UNCHANGED <<world, wire, notifications, stack, graph, it>>

\* A statement that is executed may find notifications on the socket and queue them.
Absorbed(queue) == \/ notifications' = queue \o wire /\ wire' = <<>>
                   \/ notifications' = queue /\ UNCHANGED wire

\* fStartThreads executes statements on this connection.
ThreadsStarted ==
  /\ phase = "start"
  /\ phase' = "timed"
  /\ Absorbed(notifications)
  /\ UNCHANGED <<world, stack, graph, it>>
-----------------------------------------------------------------------------
\* The main loop.

\* timedActionsClass::fProcess goes through lTimes in order of time; what is registered
\* for an earlier time meanwhile is left for the next call.
Due == {e \in lTimes : e.lTime <= now /\ (it = None \/ e.lTime >= it.lTime)}
TimedStarts(e) ==
  /\ phase = "timed"
  /\ e \in Due
  /\ \A f \in Due : e.lTime <= f.lTime
  /\ it' = e
  /\ stack' = <<Dependents(e.node)>>
  /\ phase' = "timed process"
  /\ UNCHANGED <<world, wire, notifications, graph>>

\* fProcessTimed has returned: erase the entry, go to the next one.
TimedEnds ==
  /\ phase = "timed process"
  /\ stack = <<>>
  /\ lTimes' = lTimes \ {it}
  /\ phase' = "timed"
  /\ UNCHANGED <<world, wire, notifications, stack, lValue, lTime, requests, processed, it>>

TimedDone ==
  /\ phase = "timed"
  /\ Due = {}
  /\ it' = None
  /\ phase' = "poll"
  /\ UNCHANGED <<world, wire, notifications, stack, graph>>

\* poll looks at the socket only: a notification that has been absorbed does not end it.
PollTimesOut ==
  /\ phase = "poll"
  /\ wire = <<>>
  /\ phase' = "timed"
  /\ UNCHANGED <<world, wire, notifications, stack, graph, it>>

ConsumeInput ==
  /\ phase = "poll"
  /\ wire # <<>>
  /\ notifications' = notifications \o wire
  /\ wire' = <<>>
  /\ phase' = "notify"
  /\ UNCHANGED <<world, stack, graph, it>>

\* getFromDb and fProcess of the measurement that is notified.
NotificationWithoutRow ==
  /\ phase = "notify"
  /\ stack = <<>>
  /\ notifications # <<>>
  /\ notifications' = Tail(notifications)
  /\ processed' = processed \cup {Head(notifications)}
  /\ stack' = <<Dependents(Head(notifications))>>
  /\ UNCHANGED <<world, wire, phase, lValue, lTime, lTimes, requests, it>>
NotificationRead ==
  /\ phase = "notify"
  /\ stack = <<>>
  /\ notifications # <<>>
  /\ LET m == Head(notifications)
     IN  /\ Absorbed(Tail(notifications))
         /\ lValue' = [lValue EXCEPT ![m] = rows[m].value]
         /\ lTime' = [lTime EXCEPT ![m] = rows[m].lTime]
         /\ processed' = processed \cup {m}
         /\ stack' = <<Dependents(m)>>
  /\ UNCHANGED <<world, phase, lTimes, requests, it>>

NotifyAfterOne ==
  /\ phase = "notify"
  /\ stack = <<>>
  /\ phase' = "timed"
  /\ UNCHANGED <<world, wire, notifications, stack, graph, it>>
NotifyDone ==
  /\ phase = "notify"
  /\ stack = <<>>
  /\ notifications = <<>>
  /\ phase' = "timed"
  /\ UNCHANGED <<world, wire, notifications, stack, graph, it>>
-----------------------------------------------------------------------------
\* ruleNode::fProcess: call the dependents, one after the other.

Visiting(n) == stack # <<>> /\ n \in Head(stack)
Left(n)     == <<Head(stack) \ {n}>> \o Tail(stack)
Entered(n)  == <<Dependents(n)>> \o Left(n)

Returned == /\ stack # <<>>
            /\ Head(stack) = {}
            /\ stack' = Tail(stack)
            /\ UNCHANGED <<world, wire, notifications, phase, graph, it>>

Truth(condition) == IF condition THEN 1 ELSE 0
IsTrue(n) == lValue[n] # 0
ValueAt(n, slot) == lValue[Parent[n][slot]]

\* What the types make of the values of the parents, seen by slot.
Seen(n) == [slot \in DOMAIN Parent[n] |-> ValueAt(n, slot)]
NumberTrue(seen) == Cardinality({slot \in DOMAIN seen : seen[slot] # 0})
Combined(type, seen) ==
  CASE type = "or"         -> Truth(NumberTrue(seen) > 0)
    [] type = "and"        -> Truth(\A slot \in DOMAIN seen : seen[slot] # 0)
    [] type = "odd"        -> NumberTrue(seen) % 2
    [] type = "even"       -> 1 - (NumberTrue(seen) % 2)
    [] type = "greater"    -> Truth(seen["left"] > seen["right"])
    [] type = "sum"        -> SumFunction(seen)
    [] type = "product"    -> FoldFunction(LAMBDA a, b : a * b, 1, seen)
    [] type = "difference" -> seen["subtrahend"] - seen["minuend"]
Computed(n) == Combined(Kind[n], Seen(n))

NewestOf(n) == Max({lTime[n]} \cup {lTime[p] : p \in Parents(n)})

ProcessCombining(n) ==
  /\ Visiting(n)
  /\ Kind[n] \in Combining
  /\ stack' = Entered(n)
  /\ lValue' = [lValue EXCEPT ![n] = Computed(n)]
  /\ lTime' = [lTime EXCEPT ![n] = NewestOf(n)]
  /\ processed' = processed \cup {n}
  /\ UNCHANGED <<world, wire, notifications, phase, lTimes, requests, it>>

\* The value of the newest parent; of the first of them in the set, if two are the newest.
ProcessLatest(n) ==
  /\ Visiting(n)
  /\ Kind[n] = "latest"
  /\ stack' = Entered(n)
  /\ IF NewestOf(n) = lTime[n] THEN UNCHANGED lValue
     ELSE \E p \in Parents(n) : /\ lTime[p] = NewestOf(n)
                                /\ lValue' = [lValue EXCEPT ![n] = Truth(IsTrue(p))]
  /\ lTime' = [lTime EXCEPT ![n] = NewestOf(n)]
  /\ processed' = processed \cup {n}
  /\ UNCHANGED <<world, wire, notifications, phase, lTimes, requests, it>>

\* slot wins in a latch: it is true and newer than the other.
Wins(n, slot, other) ==
  IsTrue(Parent[n][slot]) /\ lTime[Parent[n][slot]] > lTime[Parent[n][other]]
LatchTo(n, slot, value) ==
  /\ stack' = Entered(n)
  /\ lValue' = [lValue EXCEPT ![n] = value]
  /\ lTime' = [lTime EXCEPT ![n] = lTime[Parent[n][slot]]]
ProcessLatch(n) ==
  /\ Visiting(n)
  /\ Kind[n] = "latch"
  /\ \/ Wins(n, "set", "reset") /\ LatchTo(n, "set", 1)
     \/ Wins(n, "reset", "set") /\ LatchTo(n, "reset", 0)
     \/ /\ ~Wins(n, "set", "reset")
        /\ ~Wins(n, "reset", "set")
        /\ stack' = Left(n)
        /\ UNCHANGED <<lValue, lTime>>
  /\ processed' = processed \cup {n}
  /\ UNCHANGED <<world, wire, notifications, phase, lTimes, requests, it>>

\* A delay takes the value of its parent at once and calls its dependents later.  What
\* it had registered before is replaced.  It has no time of its own.
ErasedOthers(n, then) ==
  {e \in lTimes : e.node = n} \cup {[lTime |-> then, node |-> n]}
fRegisterAction(n, then) ==
  {e \in lTimes : e.node # n} \cup {[lTime |-> then, node |-> n]}
ProcessDelaySetsTime(n) ==
  /\ Visiting(n)
  /\ Kind[n] = "delay"
  /\ stack' = Left(n)
  /\ LET then == lTime[Parent[n]["parent"]] + Delay[n]
     IN  /\ lTime' = [lTime EXCEPT ![n] = then]
         /\ lTimes' = fRegisterAction(n, then)
  /\ lValue' = [lValue EXCEPT ![n] = lValue[Parent[n]["parent"]]]
  /\ processed' = processed \cup {n}
  /\ UNCHANGED <<world, wire, notifications, phase, requests, it>>
ProcessDelay(n) ==
  /\ Visiting(n)
  /\ Kind[n] = "delay"
  /\ stack' = Left(n)
  /\ LET parent == Parent[n]["parent"]
     IN  /\ lValue' = [lValue EXCEPT ![n] = lValue[parent]]
         /\ lTimes' = fRegisterAction(n, lTime[parent] + Delay[n])
  /\ processed' = processed \cup {n}
  /\ UNCHANGED <<world, wire, notifications, phase, lTime, requests, it>>

\* INSERT INTO setvalue_requests
ProcessAction(n) ==
  /\ Visiting(n)
  /\ Kind[n] = "action"
  /\ stack' = Entered(n)
  /\ requests' = [requests EXCEPT ![n] = lValue[Parent[n]["parent"]]]
  /\ Absorbed(notifications)
  /\ processed' = processed \cup {n}
  /\ UNCHANGED <<world, phase, lValue, lTime, lTimes, it>>

Process == \/ Returned
           \/ \E n \in Node : \/ ProcessCombining(n) \/ ProcessLatest(n)
                              \/ ProcessLatch(n) \/ ProcessDelay(n) \/ ProcessAction(n)
Main == \/ \E m \in Measurements : ReadMeasurement(m)
        \/ Listen \/ ThreadsStarted
        \/ \E e \in lTimes : TimedStarts(e)
        \/ TimedEnds \/ TimedDone
        \/ PollTimesOut \/ ConsumeInput \/ NotificationRead \/ NotifyDone
        \/ Process
Next == \/ \E m \in Measurements, v \in Readings : Insert(m, v)
        \/ Tick
        \/ Main

Spec == Init /\ [][Next]_vars

\* The daemon runs and time goes on; rows are inserted or not.
FairSpec == Spec /\ WF_vars(Main) /\ WF_vars(Tick)
-----------------------------------------------------------------------------
\* The types of the state.
TypeOK ==
  /\ rules \in Graphs
  /\ now \in 1..MaxTime
  /\ \A m \in Measurements : rows[m].lTime \in 1..now /\ rows[m].value \in Readings
  /\ wire \in Seq(Measurements)
  /\ notifications \in Seq(Measurements)
  /\ phase \in {"read", "start", "timed", "timed process", "poll", "notify"}
  /\ stack \in Seq(SUBSET Node)
  /\ lValue \in [Node -> Int]
  /\ lTime \in [Node -> 0..now]
  /\ \A e \in lTimes : e.lTime \in Nat /\ e.node \in Delays
  /\ it = None \/ it.node \in Delays
  /\ requests \in [Actions -> Int \cup {None}]
  /\ processed \subseteq Node
  /\ unheard \subseteq Measurements
  /\ stack # <<>> => phase \in {"timed process", "notify"}

Quiet == /\ phase = "poll"
         /\ wire = <<>>
         /\ notifications = <<>>
         /\ lTimes = {}

\* The value of a node is what its parents' values call for.  Of a node "latest" that says
\* something only if it compares measurements: what is computed may change without becoming
\* newer, when a delay ends or when it is computed again with the next parent, and then the
\* code keeps the value.
Consistent(n) ==
  CASE Kind[n] = "measurement" -> n \in unheard \/ lValue[n] = rows[n].value
    [] Kind[n] = "latest"      -> Parents(n) \subseteq Measurements =>
                                    \E p \in Parents(n) : /\ lTime[p] = NewestOf(n)
                                                          /\ lValue[n] = Truth(IsTrue(p))
    [] Kind[n] = "latch"       -> /\ Wins(n, "set", "reset") => lValue[n] = 1
                                  /\ Wins(n, "reset", "set") => lValue[n] = 0
    [] Kind[n] = "delay"       -> lValue[n] = lValue[Parent[n]["parent"]]
    [] Kind[n] = "action"      -> requests[n] = lValue[Parent[n]["parent"]]
    [] Kind[n] = "constant"    -> TRUE
    [] OTHER                   -> lValue[n] = Computed(n)

\* Whenever nothing is left to do, every node that has ever been processed, and the
\* last request of every action, agrees with the newest rows, in whatever order the
\* dependents were called, rows came in and delays ended in between.
QuietIsConsistent == Quiet => \A n \in processed \cup Measurements : Consistent(n)

\* A delay waits once, until its delay after the last change of its parent: a new
\* change restarts it (ruleProcessord.cpp:189-199).
TimersAreCurrent ==
  stack = <<>> =>
    \A e \in lTimes : e.lTime = lTime[Parent[e.node]["parent"]] + Delay[e.node]

\* The entry that timedActionsClass::fProcess is at stays in the multimap until fProcess
\* erases it: its iterator is valid when it goes on (ruleProcessord.cpp:199-205).
IteratorStaysValid == phase = "timed process" => it \in lTimes

\* A delay restarts and ends while another one is handled, and both stay right.
TimersAreKept == TimersAreCurrent /\ IteratorStaysValid

\* Once rows stop coming, every measurement has been read, unless its row came before
\* LISTEN or its notification was absorbed by a statement and none came after it.
FinallyRead ==
  <>[](\A m \in Measurements : \/ lTime[m] = rows[m].lTime
                               \/ m \in unheard
                               \/ InQueue(m, notifications))

\* A notification that has been absorbed is handled with the next one.
AbsorbedIsReadLater ==
  \A m \in UNION {{n \in DOMAIN g.kind : g.kind[n] = "measurement"} : g \in Graphs} :
    (phase = "poll" /\ wire # <<>> /\ InQueue(m, notifications))
      ~> ~InQueue(m, notifications)

\* Both ways a notification can take lead to main.
NotificationsAreRead == FinallyRead /\ AbsorbedIsReadLater
=============================================================================
