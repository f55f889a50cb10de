# A specification of slowcontrol

slowcontrol collects readings of sensors in daemons, compresses them, stores them in a
PostgreSQL database, and lets clients and rules set values on the daemons.  This directory
holds TLA+ modules for its core, TLC configurations that check them on small instances, and
TLAPS proofs of what holds for every instance.

Paths below are relative to the source tree: `base/` is `src/base/`, `daemons/` is
`src/daemons/`.  `PROJECT.json` maps each definition to the lines it stands for and lists runs,
mutants, hazards, findings and theorems.

To check: `tlc -config <cfg> <module>` for each entry of "runs", `tlapm <module>` for the proofs:
SparsifierProofs, WriteRequestsProofs, StorerProofs, BaseProofs, ScheduleProofs, RuleProofs,
LampProofs and DeviceProofs.

## 1. Inventory

### The process and its threads

A daemon is one process.  `daemon::fStartThreads` (base/slowcontrolDaemon.cpp:509) first clears
and serves old requests in the main thread and then starts up to six threads, which `main` joins
in `fWaitForThreads`:

| thread | loop | shared state it touches |
|---|---|---|
| reader | reads the measurement whose time has come, beats the heart | `lValues`, `lSendQueue`, `lStopRequested` |
| poller | polls file descriptors, lets each measurement process what arrived | the same |
| storer | asks every measurement for values to send, sends them, waits on `lStorerCondition` | `lSendQueue`, the database |
| signal catcher | waits for SIGTERM and the like, requests the stop, flushes all values | `lValues`, `lSendQueue`, `lStopRequested` |
| config change listener | `LISTEN`s for requests and changed options | `setvalue_requests`, `gScheduledWriteRequests`, options |
| scheduled writer | waits for the earliest scheduled request and processes it | `gScheduledWriteRequests`, `setvalue_requests` |

Every thread has its own database connection (base/pgsqlWrapper.cpp), which reconnects for ever.
A statement that the database refuses is only warned about (pgsqlWrapper.cpp:54-58): the program goes on
as if it had been executed.
Daemons, clients, website and rule processor talk to each other through tables and
`NOTIFY`/`LISTEN` only; the rules of database.sql send the notifications.

### Components

*Numeric measurements* (`measurement<T>`, base/include/measurement.h:156-303).
State: collected samples `lValues`, the indices of their extremes, the send queue.
Operations: `fStore`, `fFlush`, `fSendValues`, `fConfigure`.
Hard: the indices are kept incrementally while samples collapse and the vector is reset; the
deadband changes at run time.  Correct if samples leave in order, none twice, the last reported
value is never further than the deadband from the stored one, and the reported samples envelop
all others.

*Boolean measurements* (`measurement<bool>`, measurement.h:305-397).
State: `lOldValue`, `lOldTime`, two flags, the send queue.  Only changes are written, with extra
rows so that a graph has steps.  Correct if no row says what the sensor did not show and every
sample can be read off the rows.  Hard: the first call reads uninitialised members.

*Daemon threads* (base/slowcontrolDaemon.cpp).  See the table.  Hard: the condition variable has
no predicate, the stop flag is read by every thread at a different moment, queues are tested
without their mutex, `lValues` has no lock at all.  Correct if what is queued is stored once and
in order, and if the daemon ends with everything flushed.

*Readout schedule* (`fReaderThread`, `fRegisterMeasurement`, `fBeatHeart`).  A multimap from time
to measurement, made anew when a measurement is registered, and a heart beat that comes with a
readout.  Hard: intervals are configured while the thread sleeps; nothing wakes it.  Correct if
every measurement is read at its interval, a slow device delays the others only by its own time,
and neither beat nor stop waits for more than the longest sleep.

*Setvalue requests* (base/slowcontrolDaemon.cpp:349-493, table `setvalue_requests`).
State: the table's response and result columns, the map of scheduled requests.
Hard: two threads and a restart compete for a row; rows are selected again with every
notification.  Correct if a request is done once, unless its outcome could not be recorded, the answer is true,
and no request is forgotten without a known reason.

*Client side of requests* (`fRequestValueSetting`, base/slowcontrol.cpp:141-187, tools/).  Insert,
then wait for the notification of the answer.  Hard: notifications for other requests for the same
uid, notifications that libpq has read already.  Correct if the client never passes over the
notification of its answer, and wakes up for it.

*Configuration values* (base/configValue.cpp).  Options of a measurement, saved in `uid_configs`
with their defaults and read again when changed.  Hard: a default compiled in against a value
set by a user, each overwriting the row of the other.  Correct if they agree in the end.

*States and bound checkers* (base/measurement.cpp, base/include/measurement.h:409-469,
base/states.cpp).  A measurement has a state, in the program and as a row of `uid_states`.  Hard:
compare, update and assign by several threads, statements that fail.  Correct if both show the
state of the last value.

*Registration* (base/slowcontrol.cpp:44-115, base/measurement.cpp:14-56).  `fSelectOrInsert` of
daemons, measurements and compounds.  Hard: check, then act, in several daemons at once, and
deaths in between.  Correct if a daemon that has come up has all its rows and broke no one else's.

*Database schema and rules* (database.sql).  Latest-value and history tables are kept by rules.

*Rule processor* (daemons/ruleProcessord.cpp).  State: a graph of nodes with value and time, the
multimap of waiting delays, the notifications libpq has queued.  Operations: process a
notification depth first, run the delays that are due, insert requests.  Hard: the order of
dependents is that of their addresses; delays interleave with changes; notifications are
absorbed by other statements.  Correct if in the end all nodes and requests agree with the
newest rows.

*LED controllers* (daemons/rgbywd.cpp, daemons/rgbwPCA9533d.cpp).  State: the lights and the model
(hue, saturation, value) of the same lamp, the registers of the chips, an array of levels that a
thread sends to a remote controller.  Operations: setting a channel by a request, a button, an
encoder, the automatic hue; each recalculates the other view.  Hard: two threads set without a
lock, two lights share a shadow register, the sender's lock locks nothing, requests may fail.
Correct if LEDs, measurements and both views agree.

*Camera* (daemons/raspicamd.cpp).  State: motion, light, darkness, a queue of recorded files.
Hard: the wait of `fDequeue` does not look at the queue; the light changes what the sensor reads.
Correct if no recording is lost and the light is off when nothing moves.

*Power supply* (daemons/korad_d.cpp, base/communications.cpp).  A serial line for three threads, a
setting that is read back to answer a request.  Hard: two threads that execute requests, late and missing
answers.  Correct if "done." is true.

*Radio interface* (daemons/rfio433d.cpp, avrcode/).  Firmware with a ring of pulse buffers and a
receive ring, written by interrupts and read by main.  Hard: nobody looks whether they are full.
Correct if trains and commands come out once, in order and unmixed.

*Trigger measurements, display brightness, sensor daemons, gpio* (base/, daemons/).  Device input
and output around the measurement classes, one thread each.

*Website* (website/).  PHP pages that select, and insert requests and options.

## 2. What is modelled

| module | what it is | suite or MC module |
|---|---|---|
| ValueStream | abstract: what a measurement promises to the readers of its table | |
| Sparsifier | `measurement<T>`; implements ValueStream | MCSparsifier |
| SparsifierProofs | types, extremes, order, deadband, envelope and refinement, proved | |
| BoolMeasurement | `measurement<bool>`; implements ValueStream | MCBase, part "bool" |
| StateTracking | `fCheckValue` and `fSetState` by several threads against `uid_states` | MCBase, "states" |
| Storer | threads, send queues, shutdown; each measurement implements ValueStream | MCStorer |
| StorerProofs | types, safe pops, order and refinement, proved | |
| ReaderSchedule | the reader thread: readouts, heart beat, stop | MCBase, "schedule" |
| WriteRequests | requests between clients, two threads and a restart | MCWriteRequests; MCBase, "requests" |
| WriteRequestsProofs | repetitions only of refused UPDATEs, true answers, final results, known losses, proved | |
| RequestClient | `fRequestValueSetting`, the other end of a request | MCBase, "client" |
| Registry | daemons that start together enter themselves in the database | MCBase, "registry" |
| ConfigValues | an option between its daemon, newer programs and users | MCBase, "config" |
| BaseParts | the suite of the seven parts of base/ | MCBase |
| BaseProofs | StateTracking, RequestClient, Registry and BoolMeasurement proved, ConfigValues' types | |
| ScheduleProofs | ReaderSchedule proved; the types of all parts of base/ | |
| RuleProcessor | rule graph, delays, notifications | MCRules |
| RuleProofs | types, delays and agreement of a graph with the rows, proved | |
| Lamp | the two LED daemons | MCDevices, "yellow" and "white" |
| LampProofs | types, LEDs and views of a lamp, proved | |
| PwmSender | the sender thread of rgbywd | MCDevices, "pwm" |
| Camera | raspicamd: light, recording, conversion | MCDevices, "camera" |
| PowerSupply | korad_d: the shared serial line, set and read back | MCDevices, "power" |
| PulseBuffers | firmware: interrupts and the decoding of pulse trains | MCDevices, "buffers" |
| ReceiveRing | firmware: received bytes become lines | MCDevices, "ring" |
| DeviceParts | the suite of these seven | MCDevices |
| DeviceProofs | their safety properties and types, proved | |

BaseParts and DeviceParts are suites: each holds instances of several modules over variables of
their own, and the variable `part` says which of them a behaviour is about; the others stay as they
began.  So their states are the sum of those of the parts, not the product, and each property is one
of one part.  A theorem about a suite is likewise one about each of its parts: a behaviour of a
module, with the others at their start, is a behaviour of the suite.  The parts are independent
processes or functions that share nothing but SQL statements which are actions of the module
concerned.  The lamps have one set of variables, since they are two models of one module.

A mutant of a definition stands right before it: it is the code with a plausible mistake, and is
used by nothing but the check that the properties notice it.

### ValueStream

`newest` is the sample of the last `fStore`, `queued` everything ever put in the send queue,
`delivered` how much of it has been handed to the database.  A sample is held back or reported; a report ends in
the newest sample; a flush reports only what has not been reported; delivery is in order.  The abstract
stream ends at the INSERT: whether the database takes it is in Storer (`InsertRefused`) alone, so `table`
in Sparsifier and BoolMeasurement, too, is what INSERTs have been issued for.

### Sparsifier

One action per member function.  `fStore` is the whole handler: collapsing of repetitions
(`Recorded`), the indices (`MinIndex`, `MaxIndex`), the deadband test (`LeavesDeadBand`) and the
flush it calls (`Report`).  Indices count from 0 as in the code.  `Picked` is the
`std::set` of indices to send.  `fConfigure` changes the deadband at any moment.  Values are
integers; NaN, for which all comparisons are false, is out.  `since` is a history variable.

### BoolMeasurement

`Init` leaves `lOldValue` to chance, since the constructor does not set it; `OldRows` are the two
rows that go before a change.  Time is in microseconds, samples are one or three apart, so the
row "just before the change" can meet an earlier one.

### StateTracking

A value is its class, which is the name of the state it asks for.  `fCheckValue` reads `lState`
without a lock, `Compare`, `Update` and `Assign` are the three places of `fSetState` between which
another thread can run; the UPDATE may fail.  `overlapped` remembers that two threads were inside
and `lost` that the last statement failed: the code has nothing against either, so `StatesAgree`
claims the agreement of program, database and last value without them, and that the next update made
alone restores it.  A number that repeats the last two is stored without `fCheckValue`
(measurement.h:252-256); its class was that of the check before, so `last` does not change.  The damper
that some sensors put before the check is not in it.

### Storer

The statements between which another thread can run are separate actions.  `fStore` of a number takes
down the indices to send before it has the mutex (`Collect`), pushes under it (`Report`), signals and clears
`lValues` afterwards; that of a bool pushes under the mutex (`Change`, `Report`) and takes over the new
value when it has released it (`Settle`).  The catcher's flush likewise tests without the mutex
(`FlushTests`) and pushes what it finds later (`FlushPushes`).  `mine` and `index` are the indices in hand:
if somebody else has cleared `lValues` meanwhile they are void, and `at()` gives whatever is there now or
throws, which no one catches (`ReportThrows`, `FlushThrows`).  So a value flushed at the end can be queued
behind newer ones or a second time: `StreamInOrder` names this one row, at the place `late`, and claims the
order of all others.  A measurement that two threads store in can have its rows in any order, even before a
stop; order and refinement are claimed of those in `Alone`, which have one thread, while types, safe
pops and delivery are claimed of all.  `Sharing` are the ways the threads share out the measurements: a write
request makes the listener thread store in a measurement that the reader reads.
The storer scans, tests, pops and inserts, and the INSERT may be refused (`InsertRefused`), after which the
value is lost.  `fSignalToStorer` changes the storer only if it is waiting: this is what a condition
variable without a predicate does.  Samples are numbered per measurement, so order and duplicates are
visible.  Which measurement the reader picks, and whether a sample is held back, are choices.
Two threads in `lValues` at once corrupt memory in the worst case; the model has only the logical effect.
`ImplementsValueStreams` says of each measurement of one thread that it is a ValueStream until a stop is
requested.  `RoundDelivers` is about a round that has begun: that a round begins for every value is what
*storer_lost_wakeup* refutes.

### ReaderSchedule

Times are relative to now: `due` is the multimap, `toBeat` the time until the next beat, `spent` the
ticks since a readout began.  `Plan` builds the schedule and raises the heart beat period, `Look` is
the head of the inner loop, `Wake`, `Reschedule` and `ReadoutThrows` the readout.  An exception of any
level, also `kContinue`, stops the daemon: `fExecuteGuarded` requests a stop in its only `catch`.
Measurements and intervals are changed by other threads at any moment (`Register`, `Configure`).
The bounds in `ScheduleKept` are the ones the code gives.  No interval is longer than `Ceiling`.
A readout begins before each other measurement has had another one and the one under way has ended,
which is `Delay`; between two readouts (`sinceRead`) an interval and that delay may pass, once more for
each schedule that is made anew.  Stop and beat wait for the longest sleep and one readout.

### WriteRequests

A row has `request_time`, `response` and `result`.  The handler is the main thread until the
threads exist and the config change listener afterwards; the writer is the scheduled writer
thread.  Every SQL statement is one step, and between any two of them the daemon may die.  Each of them,
LISTEN and SELECT included, may also be refused: `refused` counts the UPDATEs of a row that were.  A row whose
outcome was not recorded is found again by the next SELECT and carried out again, so
`RepeatedOnlyIfRefused` allows one repetition for each refused UPDATE.  `ListenReturns`: the result of
LISTEN is read from the socket with all that came before it, so `poll` does not see those notifications
(`absorbed`) until something else wakes the thread.  An exception in `fProcess` asks the daemon to stop
(`RowExecuted`, `WriterProcesses`), and the rows that come later wait for its restart.  The
history variables `orphaned` and `unheard` name the rows that had been in the memory of a daemon
that died, and those inserted while nobody was listening or passed over by a SELECT that failed.  A client of the repository leaves
`request_time` to its default, now(); times in the future are inserted by other SQL clients or
seen by a daemon whose clock is behind the server's.

### RequestClient

A notification is on the `socket` and then in the `queue` of libpq.  What reads the socket is
`PQconsumeInput` after `poll`, and the reading of every result: therefore a statement has two steps,
its execution by the server and the arrival of its result.  `poll` has no timeout and sees only the
socket.  The daemon is external: it updates the row once or, for a request with a time, twice, and
the rule sends the uid to all who listen, also that of another request.

### Registry

Each process works through `Program`, the keys it registers, one SQL statement per step: daemon,
measurement, compound.  A failed INSERT (`InsertFails`) kills the process, because `stol` of the empty
result throws and nothing catches it; it is then restarted.  The tables are one record, `db`.
Programs are what the code can run: the daemon comes first and belongs to one process, and a compound is
made of measurements entered before it.
A second daemon that registers the same measurement has the row of `uid_daemon_connection` refused.
`RunningIsRegistered` therefore claims the connection only for a measurement no other process has.
rgbywd registers blue's uid a second time, as "yellow", in its compound (rgbywd.cpp:342).  The model
has no names of members and does not show it.

### ConfigValues

One option: its row, its compiled-in default, its value, and the steps of `fConfigure` (`Select`,
`Apply`, `Update` or `saveLater`).  Of a comment the model keeps whether it ends in "default".  The form
offers the old comment, so a user who leaves it there keeps the word "default", and the daemon then
reverts the value at once: `Edit(v, TRUE)`.  A notification that arrives with the result of another
statement of the listener is not absorbed here as it is in WriteRequests; it would wait for the next one.  A change between the SELECT of a start and its LISTEN is
not noticed (`deaf`) until the next one.

### RuleProcessor

A node is processed in one step; the C++ recursion is the variable `stack`, which holds the
dependents still to be called, innermost first.  The order of a `std::set` of pointers is a
choice.  `wire` is the socket and `notifications` the queue of libpq; a statement may move the
first into the second (`Absorbed`), after which `poll` does not see it.  `it` is the iterator of
`timedActionsClass::fProcess`.  What the model keeps from the code and a reader may not expect:
the value of a delay is visible to other nodes before the delay is over, and a delay has no time
of its own, so a delay of a delay fires at once and a latch never sees a delayed set as newer.
A node "latest" takes a value only with a newer time: if its parent changes without one, as a delay
does, or a node that is computed again when its second parent has been, it keeps the old value.
`Consistent` claims its value therefore only if it compares measurements.
The graph is the variable `rules`, read at the start and never changed; `Graphs` is what the database may
contain.  `IsGraph` says what it must be: nodes have the parents their types need (`fInit` throws
otherwise), each in one slot (the primary key of `rule_node_parents`), and no node is reached from itself.
The last is not checked by the code, which would recurse for ever.
Not modelled: `ruleNodeEqual`, `ruleNodeQuotient` (floating point division), derived values.

### Lamp

One module for both programs, with `Program` as a constant: they differ in the yellow channel, in
`hsvToRgb` and `rgbToHsv`, in what buttons and encoders do, and in the chip.  A set is a sequence of
operations in `todo`, of which a thread does one in a step: the chip, the measurement, the
recalculation.  That of a PCA9533 has two steps, since it reads the shadow register, which two lights
share, and writes it back.  `raced` and `mixed` name the lights and the views that both threads
had in hand at a time; the code does nothing for those, and the properties exclude them until they
are set again.  Levels are multiples of 1/`One` with products rounded up, so that what is not
zero stays so; the runs have tenths.  Things the model keeps and a reader may not expect: a hue of 360 degrees is a seventh
sector that `default` shows like the sixth, so it is magenta and not red; a grey light with white
fully on leaves yellow as it was; the second LED of white is not set by the constructor of its base
class and starts undefined.  Left out: an i2c write that fails (rgbwPCA9533d.cpp:26-28), after which the
shadow register is not that of the chip; a third thread, the scheduled writer, which would race like
the two; and the moment between the writes of the two white LEDs.

### PwmSender

`values` is the array, `valuesRemote` what the sender believes the controller to have.  Since its lock
has no mutex, the comparison and the copy go channel by channel with sets in between; `Compose` makes
the request, `regvalues`, channel by channel as well.  The pulses of the channels follow each other in
the period: `totalPulse` is their sum, an `unsigned short` that sixteen channels below 4096 just fill.
What was composed is believed before it is sent, and the request may fail.  `lost` is the set of
channels whose last setting did not arrive.  A request is assumed to return: curl has no timeout here.  The first request, which only wakes the controller, is not modelled.

### Camera

`fProcessData` reads the pin when `poll` has reported an edge, so short pulses may be missed.  Both
condition variables are waited on for a second and without a predicate: `woken` and `notified` say that
a notification met the wait, and a wait may end with or without one.  `Convert` removes the file only if
the conversion succeeded.  (The code removes it from /run/ wherever `lTmpDir` is; the model takes them to
be the same, as its default is.)  `missed` counts the files that were enqueued or timed out while nobody
was woken: the queue of an idle worker is never longer, which is what is left of "nothing stays".

### PowerSupply

The reader and the two threads that execute requests, the listener and the scheduled writer.  The
command to set and the reading back have a lock each, and the comparison none: it looks at the measurement,
which another thread may have stored since.  So a request can be answered "done." though another one has
set the supply to something else; `had` is what the quantity was between a request's command and its
response, and `DoneIsSet` claims that the goal is one of these.  `onTheWay` are answers of the supply that
have not arrived, `received` those in the buffer that `fFlushReceiveBuffer` clears; answers carry no name.
After a timeout the uninitialised buffer is anything: a value or no number.  A command may be ignored, and
somebody may turn a knob of the panel.  Nothing is claimed of a request during which an answer was late or
missing (`strange`).  An error of the line itself, for which `fWrite` throws, stops the daemon and is left
out.

### PulseBuffers and ReceiveRing

An interrupt is a step, since interrupts are blocked in it, and main reads entry by entry.  A pulse is the
number of its train, a byte that of its command, so mixtures are visible.  `lapped` and `overrun` say
that main fell a whole ring behind: the firmware does not look, and nothing is claimed after that.
The compare register of the timeout (`OCR1A`, rfio433MHz.cpp:91, 97-98, 113) is left out: between two
trains there is a timeout, so noise that runs into a train within one buffer is not in the model.

## 3. Runs

All numbers are distinct states.

| run | bounds | shows |
|---|---|---|
| sparsifier | 6 samples from {0,1,3}, deadbands 0 and 2 | extremes, order, deadband, envelope, refinement of ValueStream |
| base | see below | one or more properties of each of seven parts, and their types (607 k) |
| client_sleeps | as base | **violated**: an answered client can sleep in `poll` |
| storer | a reader with the clock skew, a poller with a door contact, 3 samples of it, or the reader stores the door as well, 2 samples | queues popped safely, streams of one thread in order, from start to exit; they implement ValueStream until a stop is requested (2.9 M) |
| storer_live | 1 thread, 2 measurements, 2 samples, 1 refused INSERT | a round of the storer delivers what is not refused; a round after the stop ends the daemon (337 k) |
| storer_lost_wakeup | as storer_live, no stop, nothing refused | **violated**: a queued value need not be sent |
| storer_exit | as storer | **violated**: values flushed at the end may stay in the queue |
| requests | two good requests, one read-only, 2 ticks, 1 crash, 1 refused UPDATE of each | repeated only after a refused UPDATE, true answers, final results, nothing lost without a known reason (4.8 M) |
| requests_missed | two requests, 1 crash | **violated**: scheduled rows of a dead daemon are never answered |
| requests_scheduled | two requests | **violated**: the second request for a time is dropped |
| rules | 3 rows or ticks; lamp: 2 sensors, `and`, `odd`, `or`, two delays in a row, two actions; latch: 2 sensors, latch, latest, sum, difference, greater, constant | graph and requests agree with the rows when all is quiet; delays restart; the iterator stays valid; every notified row is read in the end (452 k) |
| devices | see below | one or more properties of each of seven parts, and their types (2.1 M) |

The parts of base:

| part | bounds | properties |
|---|---|---|
| bool | clock to 7, gaps 1 and 3 | GraphIsTrue, ImplementsValueStream |
| requests | one good, one malformed request, 2 ticks, 1 crash, 1 refused UPDATE of each | NotifiedIsAnswered |
| registry | 2 daemons with an own and a shared measurement in a compound, 1 crash | RunningIsRegistered, ComeUpUnharmed |
| config | 3 values, 2 changes by users, 2 starts | AgreeInTheEnd |
| client | a client, another request for its uid and one for another uid | AnswerStaysInReach (NextOneWakes) |
| states | 2 threads, 3 classes, 4 values, 1 failed statement | StatesAgree |
| schedule | 2 measurements, intervals 6 or 3 and 1 or 4, readouts up to 2 ticks, 2 changes | ScheduleKept |

The parts of devices:

| part | bounds | properties |
|---|---|---|
| yellow, white | levels in tenths, requests for 0 and 6 tenths, 2 sets in all, any channel and encoder | LampShowsValues, DarkIsOff |
| pwm | 2 channels, levels 0, 1, 3 and full, 2 sets, 1 failure | SetIsShown |
| camera | darkness 0 or 2, thresholds 1 and 3, 2 files, 2 edges, 2 requests or configurations | LightIsReleased, RecordingsPass |
| power | 2 quantities, 2 values, 2 requests by two threads, 1 readout, 1 fault | DoneIsSet |
| buffers | 3 buffers of 4 pulses, 4 trains, 2 glitches | TrainsAreDecoded |
| ring | a ring of 4, lines of 3, 3 commands of 0 to 4 bytes | CommandsArrive |

CHECK_DEADLOCK is off in the two suites, because the users of a part run out of what they may do, and
the parts have ends of their own: a stopped camera, a client that has returned.

Why the bounds are enough to be interesting.  Six samples let a collection collapse (three equal
ones), drift inside the deadband, be flushed, and begin again; three values with distances 1, 2
and 3 lie inside, on and outside the deadbands.  Three samples per measurement let one be in the
table, one popped and one queued, with a held-back one on top of the first two; two samples by each
of two threads race for every index.  In
WriteRequests two ticks are: inserted, then scheduled time or crash and restart; a second crash adds
only rows that are orphaned already, a second refusal only one more repetition.  Two requests to the power
supply, one per thread, and a readout are what can come between a command and its comparison.  In the rule graphs, `mixed` and `gap` are reached on two
ways, `late` is a delay of a delay, and three ticks let a delay restart and expire.  Two starting
processes are all that a unique key can tell apart, and the one that dies of the race can meet the crash
of the other before its restart.  Two changes by users let one be reverted and one arrive while that
happens; two starts change the default.  Four values let both threads overlap and one repair the state
afterwards.  Intervals that do not divide each other, and a change to a longer and to a shorter one, make
every order of readouts.  Two sets of the lamp, one per thread, are what can race; the interesting values
of a level are zero, between and clamped.  Three buffers and a ring of four can be lapped, and a line of
three is shorter than some commands and as long as one; the constants of the firmware (12 buffers of 70, a
ring of 128, lines of 64) change nothing in the order of interrupts.

### Findings

* *storer_lost_wakeup*.  The storer waits without a predicate.  A value queued and signalled
  between scan and wait stays queued until another signal.  The same happens to the one signal
  of `fWaitForThreads`: then `main` joins the storer for ever.
* *storer_exit*.  The storer samples `lStopRequested` at the top of its round, and the signal
  catcher sets it before it flushes: the storer can be gone when the flush queues its values.
* *requests_missed*.  `fClearOldPendingRequests` takes rows without `response_time`; a scheduled
  row has one.
* *requests_scheduled*.  The map of scheduled requests has one entry per time.
* *client_sleeps*.  After a notification that was not for it, or came too early, the client goes
  back to `poll`, though the notification of its answer may be in the queue of libpq already.

Seen on the way and not the subject of a run: the client looks up its outcome in the result of the
INSERT (slowcontrol.cpp:177); the loser of two INSERTs dies of `stol` and comes up only because it
is restarted; an exception of level `kContinue` stops the daemon; the rule type "latest" over anything
but measurements can keep a value that no parent has any more (ruleProcessord.cpp:496).

## 4. Fairness

Storer: weak fairness of each producer, the catcher, the storer and the joining main thread: the
operating system schedules them and no lock is held across a step.  No fairness for signals,
exceptions and spurious wakeups, which need not happen, and none that would make the database take
an INSERT.  WriteRequests: weak fairness of the two threads and of the clock; none for clients, other
notifications, requests to stop and crashes, and a statement may be refused.  RuleProcessor: weak fairness of the main
thread and the clock; none for the rows.  Registry: weak fairness of the start of each process, with
its restart by systemd; none for crashes and changes of state.  ConfigValues: weak fairness of the daemon
and of its restart; none for users and crashes.  PwmSender: weak fairness of the sending thread with
requests that succeed; failures need not happen.  In all of them a step of a thread may be blocked only by
what the code waits for (`poll` with a timeout is an action that always comes back).  The suites state
the same conditions for the part they are about.

## 5. Proofs

Every invariant of the runs is a theorem, and so are the two refinements of
ValueStream by measurements, that by the threads of a daemon, and the action properties
`DeadBandHonoured`, `EnvelopeReported` and `ResultIsFinal`.  Each is proved from an inductive invariant
that says why the property holds; the invariants were checked by TLC on the bounds of the runs before.
Where an invariant turned out to need something of the constants, this is now an assumption of the module.

### Assumptions

Each module names its own; TLC evaluates them in every run.  They are what the code gives: readings
are integers and deadbands naturals; marks like "no row" are not rows; a daemon belongs to one process,
is entered first, and a compound gets measurements; no interval is longer than `Ceiling`; the gaps
between samples are positive; the clock skew is the reader's, and any threads share the other
measurements; `MaxBeat > 1`, since the last heart beat is the one of the stop; the power supply has a
quantity to set; rule graphs are acyclic and have the parents their types need; `One` is a multiple of 10, as the daemons use tenths of levels.  Bounds (`MaxCrashes`,
`MaxTime` ...) are any naturals.

### SparsifierProofs: `measurement<T>`

* `TypeCorrect`: TypeOK is inductive, since it bounds the two indices by
  the length of `lValues`; `RecordedFacts` (the collection grows by one or has its last sample
  replaced), `IndexFacts` and `PickedFacts` (what a flush sends) do the work.
* `ExtremesAreTracked`: inductive relative to TypeOK.
  `ExtremesStep` shows that the comparison with the old extreme alone finds the first extreme of
  the longer collection, also when a repetition replaced its last sample: the value there does
  not change, so neither does an extreme.
* `StreamIsInOrder`: alone it is not inductive, since a reported sample must
  also be later than everything before it.  `OrderInv` adds that nothing is queued before the
  first sample and that no collected sample is from the future.  `RecordedInOrder` and
  `ReportInOrder` show that a step keeps it, `SendKeepsStream` that the storer only moves the
  boundary between rows and queue.
* `DeadBandIsHonoured`: if a store reports nothing, the spread of the
  extremes is below the deadband (`InsideDeadBand`); the first collected sample is the last
  reported one (`OrderInv`), and it lies between the extremes (`ExtremesTracked`).
* `EnvelopeIsReported`: the invariant `SinceInv` says that every sample
  since the last report, also one that was collapsed into a repetition, lies between the collected
  extremes; `ReportEncloses` that a report shows both extremes.
* `SparsifierImplementsStream`: each step maps to one of
  `Hold`, `StoreAndReport`, `Flush`, `Deliver` or a stutter.  `OrderInv` is what makes a stored
  sample fresh and a flushed one unsent.

### WriteRequestsProofs: requests, for any clock and any number of crashes

* `TypeCorrect`, `TableIsTrue` (invariants) and `ResultsAreFinal` (an action property), from one inductive
  invariant, `ServiceInv`.  `HandsInv`: which rows the threads have in hand and how far they are.
  `ExecutedInv`: what was carried out was good and due, and if its row is open when a daemon comes up, an
  earlier one has died.  `TableInv`: what the responses say.  `FirstTimeInv`: as long as no UPDATE of a row
  is refused, one thread at a time has it.
* `OnceUnlessRefused`: `CountInv`.  How often a row has been carried out, plus one if the scheduled writer is
  going to (`Mapped`), plus one if the handler has it or will select it (`Open`), is at most one more than the
  refused UPDATEs of it.  Every statement about a row either closes it or is counted.  A crash opens
  nothing: a request that was carried out is over when the daemon is up again, so
  `fClearOldPendingRequests` reaches it before the `SELECT`, or is refused, which counts.
  That argument needs a restart to take longer than the resolution of the clock
  (`CrashAndRestart` lets time pass).
* `OnlyKnownLosses`: `KeptInv`.  A row without a result has no response or is scheduled
  (`OnlyScheduledIsOpen`); a scheduled one, also the one about to be marked, is with the writer, shares
  its time with another, lost its daemon or had an UPDATE refused (`ScheduledIsKept`, `MarkedIsKept`); a new
  one is in the batch, in the hand, announced, came unheard or had an UPDATE refused (`NewIsSeen`).

### StorerProofs: any threads, any number of measurements, any way to share them out

* `TypeCorrect` and `AlwaysPopsWhatItTested` come from `TypesInv`, of which neither is inductive
  alone: a producer is at a measurement of its own, what is held back or flushed has been stored
  (`NumbersInv`), and something is popped exactly between pop and insert (`PoppedInv`).  Why the test without
  the mutex is safe: only the storer pops, so the queue it found filled can only have grown.
* `StreamAlwaysInOrder`: `OrderInv`, about the measurements of one thread.  What is inserted, popped and
  queued is one stream (the storer's steps do not change it), in order but for the place of what the catcher
  has flushed, and nothing in it is newer than what its thread has decided; what a bool holds back is newer
  than it (`OrderOf`).  What the thread is about to push is its last sample, or whatever is at a void index
  (`HandsInv`); the catcher flushes a measurement once, after the request to stop (`FlushInv`).
* `StorerImplementsStreams`: for each measurement of one thread, until a stop, whatever the other
  measurements' threads do.  A producer's `Report` is `StoreAndReport`, the insert of the storer is
  `Deliver`, whether it is refused or not, and the statements in between stutter.

### BaseProofs, ScheduleProofs: the parts of BaseParts

* `StatesAlwaysAgree`, for any number of threads: `AgreementInv` says that without an overlap whoever is
  inside `fSetState` is alone, and `AloneInv` that who has been alone since it came in wants the state
  of the last value.
* `AnswersStayInReach`: `AnswerInv`.  The notification of an answer is on the socket or in the queue
  from the INSERT on until the SELECT that sees the answer; a notification the client takes out is
  either the one of its answer, which it follows, or leaves that of the answer behind.
* `RunningIsAlwaysRegistered`: `RegistryInv`.  A process has entered every key before its step, what
  the statements of one key rely on is there (`ProgressInv`), and who has a connection is
  a process that registers the measurement (`ConnectionInv`), whatever dies in between.
* `GraphIsAlwaysTrue`: `BoolInv`.  `SampleInv` says where the last sample is: in the last row, or held
  with the value of that row.  `Graph`, a statement about rows and samples alone, is kept by a row that
  repeats the last value later (`RepeatedRow`) and by the two rows of a change.
* `BoolImplementsStream`: from the same invariant, with the rows of a change as one report.
* `ScheduleIsAlwaysKept`: `ScheduleInv`.  The bound on the delay, `MaxRead` ticks for one readout more than
  there are measurements, is the interesting one.
  `LateInv`: what is overdue has waited only for those that are now due later than it, `MaxRead` ticks
  for each, and for the readout that was under way.  Each readout puts one more measurement behind
  those that wait, so the sum ends at `Delay`; a new schedule orders all anew and costs one such delay
  (`WaitedInv`).  `TurnInv` says that the thread reads what is due first; `StopInv` and `BeatInv` that the
  stop and the beat are never more than a sleep and a readout behind.  The first formulation of the bound,
  one readout of each other measurement, is true for readouts of a tick and false for longer ones:
  the readout under way when the measurement falls due counts too.
* `TypesAlwaysOK` of the suite: the types within these invariants, with `ConfigInv` for the option and
  an instance of WriteRequestsProofs for the requests.  For the option the types hide a claim,
  that notifications do not pile up: there are at most `2 * edits + 1`.  `EchoInv` is the reason: each
  user's edit makes at most one answer of the daemon, since the row of a user is never taken for a
  default again.

### RuleProofs: the rule processor, for every acyclic graph

* `TypeCorrect`: `TypesInv`.  What a node makes of its parents is an integer also for sums and products
  of any number of them: `SumIsInt` and `ProductIsInt` are about the folds of the community modules,
  proved from the well-foundedness of the naturals by the least size of a set at which the fold could fail.
* `DelaysCorrect`: `TimersInv`.  `IteratorInv` says that while a delay is handled, only nodes below it are
  on the stack (`Below`, the least set closed under dependents); since the graph is acyclic the delay is
  not one of them (`BelowFacts`), so nothing registers it again and erases the entry the iterator is at.
  `RestartInv` says that a delay whose time is not that of its parent's last change is still to be called.
* `RulesAgree`: `RuleInv`.  `RowRead`: a measurement has its newest row, or its notification is on the
  socket or with libpq, or nobody was told.  `AgreeInv`: a node that has been processed agrees with its
  parents, or it is on the stack, or a waiting delay will call it, other than the one being
  handled, whose dependents are on the stack already.  A visit that changes a node puts its
  dependents on the stack, or, for a delay, behind an entry (`VisitCalls`); a node that is
  visited agrees at once (`ProcessedAgrees`), also with parents that are stale and will bring it back.
  `LatestInv` is what "latest" needs: as long as no parent is newer than it, it has the value
  of one that is as new.  TLC showed why this holds only over measurements.

### LampProofs and DeviceProofs: the parts of DeviceParts

* `LampHolds` is about one lamp of either program, `LampAlwaysShowsValues` and
  `DarkIsAlwaysOff` about the two instances of the suite; `YellowIsTheSame` and `WhiteIsTheSame` carry it
  over.  `TypesInv` bounds what a thread has still to do: chip and store come in pairs, and there are at
  most two operations after a recalculation.  `LightsInv`: a light both threads were at is in
  `raced` (`RacedInv`); any other shows its measurement, or the thread that set the chip is about to store
  it, and a shadow register that was read is still that of the chip (`ShownInv`).  `OffInv`: what a thread
  does ends with a recalculation unless it is about the automatic hue (`RecalculatesLast`), so a thread
  that was alone leaves the value zero exactly when the lights are (`Settles`).  It rests on facts
  about the algorithms for any number of levels: `rgbToHsv` has value zero only for black, and
  `hsvToRgb` makes black of nothing else, since products are rounded up.
* `DoneIsAlwaysSet`: `SupplyInv`.  Who works on the line has the lock (`LineIsLocked`).  Of each thread that
  has commanded (`ReadsBack`): what the supply has is in `had`; unless something strange has happened, so are
  the answers to what it asks, and those to others that ask for the same quantity before it compares
  (`AsksToo`), and so is then the measurement.  This holds for both threads at a time, whatever they set.
* `LightIsAlwaysReleased`, `RecordingsAlwaysPass`: `CameraInv`.  Outside a recording the light is off or
  somebody else's (`LightInv`); converted files, the one in work and those in the queue are in order and
  complete (`OrderInv`); a file too many in the queue is a notification that is yet to come or was missed
  (`BacklogInv`).
* `TrainsAreAlwaysDecoded`: `BuffersInv`, by the position in the ring.  From where main reads on come the
  buffers of the complete trains, in order and unmixed, then that of the train in the air, and the rest
  are empty (`BuffersRing`).  The last is what a buffer that was not reset would violate.
* `CommandsAlwaysArrive`: `RingInv`.  The bytes between the two indices follow each other through the
  commands: there are functions `num` and `off` that say for each place which byte of which command it
  holds, the first of which belongs to the line in `lLine` and the last to what is still to be sent
  (`Flow`).
* `TypesAlwaysOK` of the suite: all of these, with `RingTypes` and `PwmInv`.  For the sender it
  contains that all settings stay in their period and `totalPulse` below 4096 per channel, for which
  `PwmInv` counts the channels the loop has passed.

### Only model-checked

Liveness (`NotifiedIsAnswered`, `ComeUpUnharmed`, `AgreeInTheEnd`, `RoundDelivers`, `LateRoundEnds`,
`NotificationsAreRead`, `SetIsShown`), which needs fairness and ENABLED and is out of reach of the proof
system.

## 6. Not modelled, and the plan

Not modelled:

* the damper of some bound checkers (onewired does not even initialise it), NaN and the rounding of
  floating point numbers;
* in the rule processor `equal` and `quotient` nodes, derived values, and the conversion of a request to
  the type of its target;
* the display brightness daemon, a loop of one thread around the `watch_pack` that Camera has, and the
  sensor daemons, which read a device and store the value;
* trigger measurements, which no daemon uses;
* the timing of patterns sent by the firmware, the decoding of bits, and rfio433d's reading of its output;
* the printer thread, history rules and views of the database, and the pages that only show;
* a lost connection: `pgsql` resets it (`PQreset`), and the threads that listened do not `LISTEN` again, so
  their daemon hears nothing more until it is restarted;
* what stops a daemon at once and is not about its state: exceptions of the serial line in korad_d
  (`fWrite`, POLLERR), and the client's lookup of a column that its INSERT does not return
  (slowcontrol.cpp:177, a null pointer);
* in the end of a daemon the listener and the scheduled writer: `ThreadsJoined` waits for the threads that
  store and the signal catcher.  `LateRoundEnds` is about a round begun after the request to stop, and
  so says nothing about the signal of `fWaitForThreads` being lost, which is the subject of
  *storer_lost_wakeup*;
* device registers and sysfs, the wording and escaping of SQL, and the race inside `std::map` of the
  connection table, whose outcomes are those of corrupted memory.

What is left to prove: all invariants and refinements of the runs are theorems.  Worth stating next are
action properties that say more than the invariants (a finished state row is not changed but by a new
value; a rule processor asks only for values its action's parent has), and the safety part of the liveness
properties: a value that is queued and not inserted has a storer that is running or a signal it missed.
