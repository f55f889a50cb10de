----------------------------- MODULE DeviceParts -----------------------------
(***************************************************************************)
(* The daemons for devices, and the firmware, side by side: a behaviour is *)
(* one of one part, while the variables of the others stay as they began.  *)
(* So what holds of a part holds here while it is its turn, and the other  *)
(* way round.  The two lamps are models of one module over the same        *)
(* variables.                                                              *)
(***************************************************************************)
EXTENDS Naturals, Sequences

CONSTANTS
  \* yellow and white
  One, Goal, YellowTouched, WhiteTouched, MaxLampSets,
  \* pwm
  Channels, Full, Levels, MaxSets, MaxFailures,
  \* camera
  Darkness, Threshold, MaxFiles, MaxEdges, MaxEdits,
  \* power
  Quantity, Value, Garbage, MaxRequests, MaxReads, MaxFaults,
  \* buffers
  kNBuffers, kSize, kMinEdges, MaxTrains, MaxGlitches,
  \* ring
  kRingBufferSize, kLineBufferSize, Lengths, MaxCommands

VARIABLES
  part,
  \* yellow and white
  chip, stored, autoHue, oldValue, todo, ls0, raced, mixed, lampSets,
  \* pwm
  values, valuesRemote, valuesNew, pwmPc, i, totalPulse, regvalues, device, lost, pwmSets,
  failures,
  \* camera
  pin, edge, motion, sensor, threshold, light, recording, main, woken, darkness, worker,
  notified, file, queue, files, raw, converted, stop, missed, requested, reconfigured,
  edges, edits,
  \* power
  setting, onTheWay, received, mutex, psPc, quantity, goal, current, response, had,
  strange, requests, reads, faults,
  \* buffers
  gBuffer, gWriteBufferIndex, readBufferIndex, pbPc, index, seen, train, trains, complete,
  decoded, lapped, glitches,
  \* ring
  lBuffer, lWriteIndex, lReadIndex, lLine, toSend, commands, lines, unread, overrun

Yellow == INSTANCE Lamp WITH
    Program <- "rgbywd", Touched <- YellowTouched, MaxSets <- MaxLampSets, sets <- lampSets
White == INSTANCE Lamp WITH
    Program <- "rgbwPCA9533d", Touched <- WhiteTouched, MaxSets <- MaxLampSets,
    sets <- lampSets
Pwm == INSTANCE PwmSender WITH
    pc <- pwmPc, sets <- pwmSets
Cam == INSTANCE Camera
Supply == INSTANCE PowerSupply WITH
    pc <- psPc
Buffers == INSTANCE PulseBuffers WITH
    pc <- pbPc
Ring == INSTANCE ReceiveRing

ASSUME PartsAssumption ==
  /\ Yellow!LampAssumption
  /\ White!LampAssumption
  /\ Pwm!PwmAssumption
  /\ Cam!CameraAssumption
  /\ Supply!SupplyAssumption
  /\ Buffers!BuffersAssumption
  /\ Ring!RingAssumption

lampVars == <<chip, stored, autoHue, oldValue, todo, ls0, raced, mixed, lampSets>>
pwmVars == <<values, valuesRemote, valuesNew, pwmPc, i, totalPulse, regvalues, device, lost,
             pwmSets, failures>>
cameraVars == <<pin, edge, motion, sensor, threshold, light, recording, main, woken,
                darkness, worker, notified, file, queue, files, raw, converted, stop,
                missed, requested, reconfigured, edges, edits>>
powerVars == <<setting, onTheWay, received, mutex, psPc, quantity, goal, current, response,
               had, strange, requests, reads, faults>>
buffersVars == <<gBuffer, gWriteBufferIndex, readBufferIndex, pbPc, index, seen, train,
                 trains, complete, decoded, lapped, glitches>>
ringVars == <<lBuffer, lWriteIndex, lReadIndex, lLine, toSend, commands, lines, unread,
              overrun>>
all == <<part, lampVars, pwmVars, cameraVars, powerVars, buffersVars, ringVars>>
-----------------------------------------------------------------------------
\* The parts that begin with a choice begin with one of it when it is not their turn.
Init == /\ part \in {"yellow", "white", "pwm", "camera", "power", "buffers", "ring"}
        /\ IF part = "white" THEN White!Init ELSE Yellow!Init
        /\ Pwm!Init
        /\ Cam!Init
        /\ Supply!Init
        /\ Buffers!Init
        /\ Ring!Init
        /\ part # "yellow" /\ part # "white" => chip["white2"] = CHOOSE x \in Goal : TRUE
        /\ part # "pwm" => /\ values = [c \in 1..Channels |-> CHOOSE x \in Levels : TRUE]
                           /\ valuesRemote = values

Next ==
  \/ part = "yellow" /\ Yellow!Next
     /\ UNCHANGED <<part, pwmVars, cameraVars, powerVars, buffersVars, ringVars>>
  \/ part = "white" /\ White!Next
     /\ UNCHANGED <<part, pwmVars, cameraVars, powerVars, buffersVars, ringVars>>
  \/ part = "pwm" /\ Pwm!Next
     /\ UNCHANGED <<part, lampVars, cameraVars, powerVars, buffersVars, ringVars>>
  \/ part = "camera" /\ Cam!Next
     /\ UNCHANGED <<part, lampVars, pwmVars, powerVars, buffersVars, ringVars>>
  \/ part = "power" /\ Supply!Next
     /\ UNCHANGED <<part, lampVars, pwmVars, cameraVars, buffersVars, ringVars>>
  \/ part = "buffers" /\ Buffers!Next
     /\ UNCHANGED <<part, lampVars, pwmVars, cameraVars, powerVars, ringVars>>
  \/ part = "ring" /\ Ring!Next
     /\ UNCHANGED <<part, lampVars, pwmVars, cameraVars, powerVars, buffersVars>>

\* As in PwmSender.
Spec == Init /\ [][Next]_all /\ WF_pwmVars(part = "pwm" /\ Pwm!Sender)
-----------------------------------------------------------------------------
\* The types of whichever part it is.
TypesOK ==
  /\ part = "yellow" => Yellow!TypeOK
  /\ part = "white" => White!TypeOK
  /\ part = "pwm" => Pwm!TypeOK
  /\ part = "camera" => Cam!TypeOK
  /\ part = "power" => Supply!TypeOK
  /\ part = "buffers" => Buffers!TypeOK
  /\ part = "ring" => Ring!TypeOK

\* The LEDs of each light shine as its measurement says, in both daemons (Lamp).
LampShowsValues == /\ part = "yellow" => Yellow!LampShowsValues
                   /\ part = "white" => White!LampShowsValues

\* The value of the model is zero exactly when all lights are off, in both daemons (Lamp).
DarkIsOff == /\ part = "yellow" => Yellow!DarkIsOff
             /\ part = "white" => White!DarkIsOff

\* Each channel is lit as it was last set, in the end (PwmSender).
SetIsShown == part = "pwm" => Pwm!SetIsShown

\* When nothing is recorded the light is off (Camera).
LightIsReleased == part = "camera" => Cam!LightIsReleased

\* No recording is lost, and none is passed over without a cause (Camera).
RecordingsPass == part = "camera" => Cam!RecordingsPass

\* What is answered with done was set in the power supply (PowerSupply).
DoneIsSet == part = "power" => Supply!DoneIsSet

\* Each pulse train is decoded once, in order and unmixed (PulseBuffers).
TrainsAreDecoded == part = "buffers" => Buffers!TrainsAreDecoded

\* Each command becomes one line, in order (ReceiveRing).
CommandsArrive == part = "ring" => Ring!CommandsArrive
=============================================================================
