--------------------------- MODULE ReaderSchedule ---------------------------
(***************************************************************************)
(* The reader thread of a daemon: fReaderThread and fBeatHeart             *)
(* (base/slowcontrolDaemon.cpp), and the measurements it reads, each with  *)
(* its readout interval.                                                   *)
(*                                                                         *)
(* Times are relative, in ticks: what is due in d ticks has due = d, and   *)
(* -d if it is overdue by d.  The thread is on time when it sleeps and     *)
(* takes up to MaxRead ticks for a readout.  The steady and the system     *)
(* clock are taken to run alike.                                           *)
(***************************************************************************)
EXTENDS Integers, FiniteSets, FiniteSetsExt

CONSTANTS Measurement,  \* those with a default reader
          None,         \* no measurement
          Intervals,    \* the readout intervals each may be configured to
          Ceiling,      \* no interval is longer
          Beat,         \* the initial lHeartBeatPeriod
          MaxRead,      \* what a readout takes, in ticks
          MaxChanges    \* bound: configured intervals and registered measurements

ScheduleAssumption ==
  /\ IsFiniteSet(Measurement) /\ Measurement # {} /\ None \notin Measurement
  /\ \A m \in Measurement : Intervals[m] # {} /\ Intervals[m] \subseteq 1..Ceiling
  /\ {Ceiling, Beat, MaxRead, MaxChanges} \subseteq Nat /\ Ceiling > 0 /\ Beat > 0

VARIABLES registered,   \* lMeasurementsWithDefaultReader
          interval,     \* lReadoutInterval of each
          due,          \* scheduledMeasurements: time until the next readout
          pc, current,  \* what the thread does, and the measurement it reads
          spent,        \* ticks since justBeforeReadout
          lHeartBeatPeriod,
          toBeat,       \* time until nextHeartBeatTime
          promised,     \* the period of the last beat in the database
          sinceRead,    \* since the last readout of each, or since it was first planned
          stopping,     \* ticks since the stop was requested, -1 before
          changes

vars == <<registered, interval, due, pc, current, spent, lHeartBeatPeriod, toBeat, promised,
          sinceRead, stopping, changes>>

Init == /\ registered \in {{}, {CHOOSE m \in Measurement : TRUE}, Measurement}
        /\ interval = [m \in Measurement |-> Max(Intervals[m])]
        /\ due = [m \in {} |-> 0]
        /\ pc = "plan" /\ current = None /\ spent = 0
        /\ lHeartBeatPeriod = Beat /\ toBeat = Beat /\ promised = Beat
        /\ sinceRead = [m \in Measurement |-> 0]
        /\ stopping = -1
        /\ changes = 0
-----------------------------------------------------------------------------
\* fBeatHeart, when the time is over.
BeatIfDue == IF toBeat < 0 THEN toBeat' = lHeartBeatPeriod /\ promised' = lHeartBeatPeriod
                           ELSE UNCHANGED <<toBeat, promised>>
Stopping == stopping >= 0

\* Nothing to read: the thread looks every second, here at every tick.
Idle ==
  /\ pc = "plan"
  /\ registered = {}
  /\ \/ Stopping /\ pc' = "stopped" /\ UNCHANGED <<toBeat, promised>>
     \/ ~Stopping /\ toBeat < 0 /\ BeatIfDue /\ UNCHANGED pc
  /\ UNCHANGED <<registered, interval, due, current, spent, lHeartBeatPeriod, sinceRead,
                 stopping, changes>>

\* A schedule: the first readouts follow each other with an even spacing, in the order of
\* registration.  (That order is any order.)
Spacing == Max({interval[m] : m \in registered}) \div Cardinality(registered)
Plan ==
  /\ pc = "plan"
  /\ registered # {}
  /\ \E order \in [registered -> 0..(Cardinality(registered) - 1)] :
       /\ \A m, n \in registered : m # n => order[m] # order[n]
       /\ due' = [m \in registered |-> order[m] * Spacing]
  /\ lHeartBeatPeriod' = Max({lHeartBeatPeriod, Spacing})
  /\ pc' = "look"
  /\ UNCHANGED <<registered, interval, current, spent, toBeat, promised, sinceRead, stopping,
                 changes>>

\* The head of the loop: a measurement registered in the meantime starts a new schedule, a
\* stop ends the thread with a last beat.  Then the thread sleeps, and is not woken by a stop.
Look ==
  /\ pc = "look"
  /\ pc' = CASE registered # DOMAIN due -> "plan"
             [] registered = DOMAIN due /\ Stopping -> "stopped"
             [] OTHER -> "sleep"
  /\ UNCHANGED <<registered, interval, due, current, spent, lHeartBeatPeriod, toBeat,
                 promised, sinceRead, stopping, changes>>

First == {m \in DOMAIN due : \A n \in DOMAIN due : due[m] <= due[n]}
Wake(m) ==
  /\ pc = "sleep"
  /\ m \in First /\ due[m] <= 0
  /\ current' = m
  /\ spent' = 0
  /\ pc' = "read"
  /\ UNCHANGED <<registered, interval, due, lHeartBeatPeriod, toBeat, promised, sinceRead,
                 stopping, changes>>

\* The next readout counts from the beginning of this one.
RescheduleSilently ==
  /\ pc = "read"
  /\ due' = [due EXCEPT ![current] = interval[current] - spent]
  /\ sinceRead' = [sinceRead EXCEPT ![current] = 0]
  /\ pc' = "look"
  /\ current' = None
  /\ UNCHANGED <<registered, interval, spent, lHeartBeatPeriod, toBeat, promised, stopping,
                 changes>>
Reschedule ==
  /\ pc = "read"
  /\ due' = [due EXCEPT ![current] = interval[current] - spent]
  /\ sinceRead' = [sinceRead EXCEPT ![current] = 0]
  /\ BeatIfDue
  /\ pc' = "look"
  /\ current' = None
  /\ UNCHANGED <<registered, interval, spent, lHeartBeatPeriod, stopping, changes>>

\* fExecuteGuarded: any exception of the readout, also one of level kContinue, requests a
\* stop of the daemon.
ReadoutThrows ==
  /\ pc = "read"
  /\ stopping' = Max({stopping, 0})
  /\ pc' = "look"
  /\ current' = None
  /\ UNCHANGED <<registered, interval, due, spent, lHeartBeatPeriod, toBeat, promised,
                 sinceRead, changes>>

\* Time passes while the thread sleeps, reads or has nothing to do.
Tick ==
  /\ \/ pc = "sleep" /\ \A m \in DOMAIN due : due[m] > 0
     \/ pc = "read" /\ spent < MaxRead
     \/ pc = "plan" /\ registered = {} /\ toBeat >= 0 /\ ~Stopping
  /\ spent' = IF pc = "read" THEN spent + 1 ELSE spent
  /\ due' = [m \in DOMAIN due |-> due[m] - 1]
  /\ toBeat' = toBeat - 1
  /\ sinceRead' = [m \in Measurement |-> IF m \in DOMAIN due THEN sinceRead[m] + 1 ELSE 0]
  /\ stopping' = IF Stopping THEN stopping + 1 ELSE stopping
  /\ UNCHANGED <<registered, interval, pc, current, lHeartBeatPeriod, promised, changes>>
-----------------------------------------------------------------------------
\* What other threads do.
StopRequested ==
  /\ ~Stopping /\ pc # "stopped"
  /\ stopping' = 0
  /\ UNCHANGED <<registered, interval, due, pc, current, spent, lHeartBeatPeriod, toBeat,
                 promised, sinceRead, changes>>
Register(m) ==
  /\ changes < MaxChanges
  /\ m \notin registered
  /\ registered' = registered \cup {m}
  /\ changes' = changes + 1
  /\ UNCHANGED <<interval, due, pc, current, spent, lHeartBeatPeriod, toBeat, promised,
                 sinceRead, stopping>>
Configure(m, n) ==
  /\ changes < MaxChanges
  /\ interval[m] # n
  /\ interval' = [interval EXCEPT ![m] = n]
  /\ changes' = changes + 1
  /\ UNCHANGED <<registered, due, pc, current, spent, lHeartBeatPeriod, toBeat, promised,
                 sinceRead, stopping>>

Next == \/ Idle \/ Plan \/ Look \/ Reschedule \/ ReadoutThrows \/ Tick \/ StopRequested
        \/ \E m \in Measurement : \/ Wake(m) \/ Register(m)
                                  \/ \E n \in Intervals[m] : Configure(m, n)
Spec == Init /\ [][Next]_vars
-----------------------------------------------------------------------------
TypeOK ==
  /\ registered \subseteq Measurement
  /\ \A m \in Measurement : interval[m] \in Intervals[m] /\ sinceRead[m] \in Nat
  /\ DOMAIN due \subseteq registered /\ \A m \in DOMAIN due : due[m] <= Ceiling
  /\ pc \in {"plan", "look", "sleep", "read", "stopped"}
  /\ current \in Measurement \cup {None} /\ spent \in 0..MaxRead
  /\ toBeat <= lHeartBeatPeriod /\ promised \in 1..lHeartBeatPeriod
  /\ stopping >= -1 /\ changes \in 0..MaxChanges

\* Every measurement gets its turn however long the others take, and whenever the schedule
\* is made anew: its readout begins at most as much after it is due as one readout more than
\* there are measurements can take.  (That the others have one each in between is not so:
\* with long readouts one of them may be due a second time first.)  With its interval that
\* bounds the time between two readouts, unless new schedules come in between, each of which
\* may take as long again.
Delay == MaxRead * (Cardinality(Measurement) + 1)
EveryoneIsRead ==
  \A m \in DOMAIN due : pc # "stopped" =>
    /\ due[m] >= -Delay
    /\ sinceRead[m] <= (changes + 1) * (Ceiling + Delay)

\* The thread ends with the longest sleep and the readout it was in.
StopsInTime == pc # "stopped" => stopping <= Ceiling + MaxRead

\* The beat is not a schedule of its own, it comes with a readout: it may be late by the time
\* until the next one, and no more.  (next_beat promises less, so website/daemons.php may show a
\* daemon whose intervals were made longer as dead in between.)
BeatsGoOn == pc # "stopped" => toBeat >= -(Ceiling + MaxRead)

\* Readouts, the stop and the beat share one sleeping thread; none keeps another waiting longer
\* than that.
ScheduleKept == EveryoneIsRead /\ StopsInTime /\ BeatsGoOn
=============================================================================
