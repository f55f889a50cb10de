----------------------------- MODULE PwmSender ------------------------------
(***************************************************************************)
(* remotePCA9685 of rgbywd: other threads store levels into values, and a  *)
(* thread compares them twenty times a second with what it believes the    *)
(* controller to have, and sends what differs in one http request.         *)
(*                                                                         *)
(* set takes the mutex; the unique_lock of the sender is declared without  *)
(* one, so that it compares and copies, channel by channel, while set      *)
(* stores.  The request is composed channel by channel as well; it may     *)
(* fail, which is only logged.                                             *)
(***************************************************************************)
EXTENDS Naturals

CONSTANTS Channels,     \* they are numbered from 1
          Full,         \* 4096 in the code: always on
          Levels,       \* bound: the levels that are set
          MaxSets,      \* bound: calls of set
          MaxFailures   \* bound: requests that fail

PwmAssumption == /\ {Channels, Full, MaxSets, MaxFailures} \subseteq Nat
                 /\ Channels > 0 /\ Full > 1
                 /\ Levels \subseteq 0..Full

VARIABLES values,        \* what was set
          valuesRemote,  \* what the sender believes to be set in the controller
          valuesNew,     \* its copy
          pc, i,         \* what it does next, and with which channel
          totalPulse,    \* the pulses of the channels before that, changed or not
          regvalues,     \* the request: what it sets for which channels
          device,        \* what the controller has
          lost,          \* channels whose setting never arrived
          sets, failures

vars == <<values, valuesRemote, valuesNew, pc, i, totalPulse, regvalues, device, lost, sets,
          failures>>

Channel == 1..Channels
Off == <<0, 0>>
On == <<0, Full>>
Pulse(start, stop) == <<start, stop>>
Width(setting) == setting[2] - setting[1]
NoRegisters == [c \in Channel |-> <<>>]

\* valuesRemote and, but for the channels in use, values are uninitialized; the controller
\* has what it had.
Init == /\ values \in [Channel -> Levels]
        /\ valuesRemote \in [Channel -> Levels]
        /\ device = [c \in Channel |-> Off]
        /\ valuesNew = values
        /\ pc = "compare" /\ i = 1
        /\ totalPulse = 0 /\ regvalues = NoRegisters
        /\ lost = Channel
        /\ sets = 0 /\ failures = 0
-----------------------------------------------------------------------------
\* The quantised level of a call of set.
Store(c, level) ==
  /\ sets < MaxSets
  /\ values' = [values EXCEPT ![c] = level]
  /\ sets' = sets + 1
  /\ UNCHANGED <<valuesRemote, valuesNew, pc, i, totalPulse, regvalues, device, lost, failures>>

\* To the next channel, and from the last one to what comes then.
Advance(then) == IF i < Channels THEN i' = i + 1 /\ UNCHANGED pc ELSE i' = 1 /\ pc' = then

\* values == valuesRemote, up to the first difference.
Compare ==
  /\ pc = "compare"
  /\ IF values[i] # valuesRemote[i] THEN pc' = "copy" /\ i' = 1 ELSE Advance("compare")
  /\ UNCHANGED <<values, valuesRemote, valuesNew, totalPulse, regvalues, device, lost, sets,
                 failures>>

Copy ==
  /\ pc = "copy"
  /\ valuesNew' = [valuesNew EXCEPT ![i] = values[i]]
  /\ Advance("compose")
  /\ UNCHANGED <<values, valuesRemote, totalPulse, regvalues, device, lost, sets, failures>>

\* Pulses start one after the other as long as they fit into the period.
SettingAfterAll(level) ==
  CASE level = 0 -> Off
    [] level = Full -> On
    [] OTHER -> Pulse(totalPulse, totalPulse + level)
Setting(level) ==
  LET start == IF totalPulse + level < Full THEN totalPulse ELSE 0
  IN CASE level = 0 -> Off
       [] level = Full -> On
       [] OTHER -> Pulse(start, start + level)

\* One turn of the loop over the channels: what is composed is believed to be set.
Pulses(level) == IF 0 < level /\ level < Full THEN level ELSE 0
BelieveCurrent ==
  /\ pc = "compose"
  /\ regvalues' = IF valuesNew[i] = valuesRemote[i] THEN regvalues
                  ELSE [regvalues EXCEPT ![i] = Setting(valuesNew[i])]
  /\ valuesRemote' = [valuesRemote EXCEPT ![i] = values[i]]
  /\ totalPulse' = totalPulse + Pulses(valuesNew[i])
  /\ Advance("send")
  /\ UNCHANGED <<values, valuesNew, device, lost, sets, failures>>
Compose ==
  /\ pc = "compose"
  /\ regvalues' = IF valuesNew[i] = valuesRemote[i] THEN regvalues
                  ELSE [regvalues EXCEPT ![i] = Setting(valuesNew[i])]
  /\ valuesRemote' = [valuesRemote EXCEPT ![i] = valuesNew[i]]
  /\ totalPulse' = totalPulse + Pulses(valuesNew[i])
  /\ Advance("send")
  /\ UNCHANGED <<values, valuesNew, device, lost, sets, failures>>

\* The belief stays also if the request fails.
Changed == {c \in Channel : regvalues[c] # <<>>}
sendRequest(ok) ==
  /\ pc = "send"
  /\ device' = [c \in Channel |-> IF ok /\ c \in Changed THEN regvalues[c] ELSE device[c]]
  /\ lost' = IF ok THEN lost \ Changed ELSE lost \cup Changed
  /\ failures' = IF ok THEN failures ELSE failures + 1
  /\ pc' = "compare"
  /\ totalPulse' = 0 /\ regvalues' = NoRegisters
  /\ UNCHANGED <<values, valuesRemote, valuesNew, i, sets>>

Sender == Compare \/ Copy \/ Compose \/ sendRequest(TRUE)
Next == \/ Sender
        \/ failures < MaxFailures /\ sendRequest(FALSE)
        \/ \E c \in Channel, level \in Levels : Store(c, level)
\* The loop of the thread has no end.
Fairness == WF_vars(Sender)
Spec == Init /\ [][Next]_vars
FairSpec == Spec /\ Fairness
-----------------------------------------------------------------------------
\* A setting lies within one period, whatever pulses come before it; and totalPulse, an
\* unsigned short in the code, does not overflow with its 16 channels of less than 4096.
TypeOK ==
  /\ {values, valuesRemote, valuesNew} \subseteq [Channel -> Levels]
  /\ pc \in {"compare", "copy", "compose", "send"} /\ i \in Channel
  /\ totalPulse \in 0..(Channels * (Full - 1))
  /\ \A c \in Channel :
       \A setting \in {device[c]} \cup IF regvalues[c] = <<>> THEN {} ELSE {regvalues[c]} :
         0 <= setting[1] /\ setting[1] <= setting[2] /\ setting[2] <= Full
  /\ lost \subseteq Channel
  /\ sets \in 0..MaxSets /\ failures \in 0..MaxFailures

\* Levels are set while the sender compares, copies and sends: in the end every channel is
\* lit as it was last set, unless the last request with a setting for it failed (or
\* none was ever sent, since the uninitialized valuesRemote happened to be the same).
SetIsShown == <>[](\A c \in Channel \ lost : Width(device[c]) = values[c])
=============================================================================
