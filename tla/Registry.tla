------------------------------ MODULE Registry ------------------------------
(***************************************************************************)
(* How processes that start together enter themselves in the database:     *)
(* daemon::daemon and fRegisterMeasurement (base/slowcontrolDaemon.cpp),   *)
(* measurementBase::fInitializeUid (base/measurement.cpp), fSelectOrInsert *)
(* and fAddToCompound (base/slowcontrol.cpp).                              *)
(*                                                                         *)
(* Every SQL statement is a step, and a process may die between any two.   *)
(* A row is identified by its key, the name or description it is looked up *)
(* by; ids and uids are left out.  The options of a measurement are the    *)
(* subject of module ConfigValues.                                         *)
(***************************************************************************)
EXTENDS Naturals, Sequences

CONSTANTS Process,      \* processes, each restarted when it has died
          Key,          \* what is looked up: descriptions of daemons, measurements, compounds
          Kind,         \* "daemon", "measurement" or "compound"
          Program,      \* the keys a process registers, in that order
          Writeable,    \* the measurements that are a writeValue
          Normal,       \* the state a measurement starts with
          Other,        \* a state it may have been left in
          NoRow,        \* no row
          MaxCrashes    \* bound: how often processes die of something else

RegistryAssumption ==
  /\ Kind \in [Key -> {"daemon", "measurement", "compound"}]
  /\ Program \in [Process -> Seq(Key)]
  \* The one daemon of a process is made first; a compound gets a measurement.
  /\ \A p \in Process :
       /\ Len(Program[p]) > 1
       /\ \A i \in 1..Len(Program[p]) :
            /\ Kind[Program[p][i]] = "daemon" <=> i = 1
            /\ Kind[Program[p][i]] = "compound" =>
                 i > 1 /\ Kind[Program[p][i - 1]] = "measurement"
  /\ Writeable \subseteq {k \in Key : Kind[k] = "measurement"}
  /\ NoRow \notin {Normal, Other} \cup Key
  /\ MaxCrashes \in Nat

VARIABLES db,        \* the tables, see Init
          pc,        \* what each process does next
          step,      \* the position in its Program
          inserted,  \* *aInsertWasDone
          lState,    \* what the process takes the state of its measurement for
          crashes

vars == <<db, pc, step, inserted, lState, crashes>>

Measurements == {k \in Key : Kind[k] = "measurement"}
Compound == {k \in Key : Kind[k] = "compound"}
Daemon(p) == Program[p][1]
At(p) == Program[p][step[p]]
\* A compound gets the measurement registered before it.
Child(p) == Program[p][step[p] - 1]

Init == /\ db = [list |-> {},                                  \* all tables of names
                 states |-> [m \in Measurements |-> NoRow],       \* uid_states
                 connection |-> [m \in Measurements |-> NoRow],   \* uid_daemon_connection
                 isWriteValue |-> {},                          \* uid_list.is_write_value
                 heartbeat |-> {},                             \* daemon_heartbeat
                 compoundUids |-> {}]                          \* compound_uids
        /\ pc = [p \in Process |-> "select"]
        /\ step = [p \in Process |-> 1]
        /\ inserted = [p \in Process |-> FALSE]
        /\ lState = [p \in Process |-> Normal]
        /\ crashes = 0

\* What follows a key that has its id.
FollowUp(k) == CASE Kind[k] = "daemon"      -> "delete"
                 [] Kind[k] = "measurement" -> "state"
                 [] Kind[k] = "compound"    -> "member"
Goes(p, to) == pc' = [pc EXCEPT ![p] = to]
NextKey(p) == IF step[p] = Len(Program[p])
              THEN Goes(p, "running") /\ UNCHANGED step
              ELSE Goes(p, "select") /\ step' = [step EXCEPT ![p] = @ + 1]
-----------------------------------------------------------------------------
\* fSelectOrInsert: SELECT, INSERT ... RETURNING if there was not one row.

SelectNothing(p) ==
  /\ pc[p] = "select"
  /\ inserted' = [inserted EXCEPT ![p] = TRUE]
  /\ Goes(p, "insert")
  /\ lState' = [lState EXCEPT ![p] = Normal]
  /\ UNCHANGED <<db, step, crashes>>
Select(p) ==
  /\ pc[p] = "select"
  /\ inserted' = [inserted EXCEPT ![p] = At(p) \notin db.list]
  /\ Goes(p, IF At(p) \in db.list THEN FollowUp(At(p)) ELSE "insert")
  /\ lState' = [lState EXCEPT ![p] = Normal]
  /\ UNCHANGED <<db, step, crashes>>

\* The key is unique: if somebody else was faster the INSERT fails, the result is empty and
\* stol of its first column throws, which nobody catches.
InsertFails(p) ==
  /\ pc[p] = "insert"
  /\ At(p) \in db.list
  /\ Goes(p, "dead")
  /\ UNCHANGED <<db, step, inserted, lState, crashes>>
InsertDone(p) ==
  /\ pc[p] = "insert"
  /\ At(p) \notin db.list
  /\ db' = [db EXCEPT !.list = @ \cup {At(p)}]
  /\ Goes(p, FollowUp(At(p)))
  /\ UNCHANGED <<step, inserted, lState, crashes>>
-----------------------------------------------------------------------------
\* The constructor of daemon.  A second heartbeat row is refused, which is only logged.

DeleteConnectionsOfAll(p) ==
  /\ pc[p] = "delete"
  /\ db' = [db EXCEPT !.connection = [m \in Measurements |-> NoRow]]
  /\ Goes(p, "heartbeat")
  /\ UNCHANGED <<step, inserted, lState, crashes>>
DeleteConnections(p) ==
  /\ pc[p] = "delete"
  /\ db' = [db EXCEPT !.connection =
               [m \in Measurements |-> IF @[m] = Daemon(p) THEN NoRow ELSE @[m]]]
  /\ Goes(p, "heartbeat")
  /\ UNCHANGED <<step, inserted, lState, crashes>>

InsertHeartbeat(p) ==
  /\ pc[p] = "heartbeat"
  /\ db' = [db EXCEPT !.heartbeat = @ \cup {Daemon(p)}]
  /\ NextKey(p)
  /\ UNCHANGED <<inserted, lState, crashes>>
-----------------------------------------------------------------------------
\* The rest of fInitializeUid.  After its own INSERT a process inserts the initial state
\* at once; otherwise it looks for the state, and inserts it if a process died before it
\* could.

LookForState(p) ==
  /\ pc[p] = "state"
  /\ IF inserted[p] \/ db.states[At(p)] = NoRow
     THEN Goes(p, "insertState") /\ UNCHANGED lState
     ELSE Goes(p, "connect") /\ lState' = [lState EXCEPT ![p] = db.states[At(p)]]
  /\ UNCHANGED <<db, step, inserted, crashes>>

\* uid is the primary key of uid_states, so the row of a faster process stays.
InsertState(p) ==
  /\ pc[p] = "insertState"
  /\ IF db.states[At(p)] = NoRow
     THEN db' = [db EXCEPT !.states[At(p)] = lState[p]]
     ELSE UNCHANGED db
  /\ Goes(p, "connect")
  /\ UNCHANGED <<step, inserted, lState, crashes>>

\* fRegisterMeasurement: set is_write_value, insert the connection.  These are two
\* statements; is_write_value is only ever set, and after a death in between it is set
\* again.  A uid has one connection: the INSERT of a second daemon is refused and logged.
MarkWriteable(m) == IF m \in Writeable THEN {m} ELSE {}
Connect(p) ==
  /\ pc[p] = "connect"
  /\ db' = [db EXCEPT !.isWriteValue = @ \cup MarkWriteable(At(p)),
                      !.connection[At(p)] = IF @ = NoRow THEN Daemon(p) ELSE @]
  /\ NextKey(p)
  /\ UNCHANGED <<inserted, lState, crashes>>

\* fAddToCompound: the loser of a race is refused and logged, so test and INSERT can be
\* one step.
AddToCompound(p) ==
  /\ pc[p] = "member"
  /\ db' = [db EXCEPT !.compoundUids = @ \cup {<<At(p), Child(p)>>}]
  /\ NextKey(p)
  /\ UNCHANGED <<inserted, lState, crashes>>
-----------------------------------------------------------------------------
\* fSetState of a running process, here only to leave something behind.
ChangeState(p, m) ==
  /\ pc[p] = "running"
  /\ \E i \in DOMAIN Program[p] : Program[p][i] = m
  /\ db' = [db EXCEPT !.states[m] = IF @ = Normal THEN Other ELSE Normal]
  /\ UNCHANGED <<pc, step, inserted, lState, crashes>>

Crash(p) ==
  /\ pc[p] # "dead"
  /\ crashes < MaxCrashes
  /\ Goes(p, "dead")
  /\ crashes' = crashes + 1
  /\ UNCHANGED <<db, step, inserted, lState>>

Restart(p) ==
  /\ pc[p] = "dead"
  /\ Goes(p, "select")
  /\ step' = [step EXCEPT ![p] = 1]
  /\ UNCHANGED <<db, inserted, lState, crashes>>

Start(p) == \/ Select(p) \/ InsertFails(p) \/ InsertDone(p)
            \/ DeleteConnections(p) \/ InsertHeartbeat(p)
            \/ LookForState(p) \/ InsertState(p) \/ Connect(p)
            \/ AddToCompound(p) \/ Restart(p)

Next == \E p \in Process : \/ Start(p) \/ Crash(p)
                           \/ \E m \in Measurements : ChangeState(p, m)

Fairness == \A p \in Process : WF_vars(Start(p))
Spec == Init /\ [][Next]_vars
FairSpec == Spec /\ Fairness
-----------------------------------------------------------------------------
Steps == {"select", "insert", "delete", "heartbeat", "state", "insertState", "connect",
          "member", "running", "dead"}

TypeOK ==
  /\ db \in [list : SUBSET Key,
             states : [Measurements -> {NoRow, Normal, Other}],
             connection : [Measurements -> {NoRow} \cup {Daemon(p) : p \in Process}],
             isWriteValue : SUBSET Writeable,
             heartbeat : SUBSET {Daemon(p) : p \in Process},
             compoundUids : SUBSET (Compound \X Measurements)]
  /\ pc \in [Process -> Steps]
  /\ step \in [Process -> Nat] /\ \A p \in Process : step[p] \in DOMAIN Program[p]
  /\ inserted \in [Process -> BOOLEAN]
  /\ lState \in [Process -> {Normal, Other}]
  /\ crashes \in 0..MaxCrashes

Registers(p) == {Program[p][i] : i \in DOMAIN Program[p]}
Only(p, m) == \A q \in Process \ {p} : m \notin Registers(q) /\ Daemon(q) # Daemon(p)

\* Whatever the processes did to each other while they started, and wherever they died
\* before, a process that has come up has all its rows: every measurement has a state, and
\* requests for a measurement that only this process has find their way to it, if no other
\* process calls itself by the name of its daemon.
RunningIsRegistered ==
  \A p \in Process : pc[p] = "running" =>
    /\ Registers(p) \subseteq db.list
    /\ Daemon(p) \in db.heartbeat
    /\ Registers(p) \cap Writeable \subseteq db.isWriteValue
    /\ \A m \in Registers(p) \cap Measurements :
         db.states[m] # NoRow /\ (Only(p, m) => db.connection[m] = Daemon(p))

\* A start never resets a state that was reached before, and takes it over: only a process
\* that runs changes a row of uid_states.
StateSurvivesRestart ==
  [][\A p \in Process : pc[p] # "running" /\ pc'[p] # pc[p] =>
       \A m \in Measurements : db.states[m] # NoRow =>
         /\ db'.states[m] = db.states[m]
         /\ pc[p] = "state" /\ pc'[p] = "connect" /\ At(p) = m => lState'[p] = db.states[m]]_vars

\* The loser of two INSERTs dies, but it does not die for ever: in the end all processes
\* run.
AllComeUp == <>[](\A p \in Process : pc[p] = "running")
=============================================================================
