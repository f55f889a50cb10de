------------------------------- MODULE MCRules -------------------------------
(***************************************************************************)
(* Two rule graphs for TLC over the same two sensors; a behaviour is one   *)
(* of one of them.                                                         *)
(***************************************************************************)
EXTENDS RuleProcessor, TLC
CONSTANTS motion, dark

\* A lamp that goes on with motion in the dark and off a while later; mixed gets motion
\* on two ways, lamp is delayed twice.
CONSTANTS both, mixed, off, lamp, late, setLamp, setMixed
Lamp ==
  [kind     |-> motion :> "measurement" @@ dark :> "measurement" @@ both :> "and"
                @@ mixed :> "odd" @@ off :> "delay" @@ lamp :> "or" @@ late :> "delay"
                @@ setLamp :> "action" @@ setMixed :> "action",
   parent   |-> motion :> <<>> @@ dark :> <<>> @@ both :> <<motion, dark>>
                @@ mixed :> <<both, motion>> @@ off :> [parent |-> motion]
                @@ lamp :> <<both, off>> @@ late :> [parent |-> lamp]
                @@ setLamp :> [parent |-> late] @@ setMixed :> [parent |-> mixed],
   delay    |-> off :> 1 @@ late :> 1,
   constant |-> <<>>]

\* A latch and the other nodes that compare or compute.
CONSTANTS one, count, many, toggle, last, gap, setToggle
Latch ==
  [kind     |-> motion :> "measurement" @@ dark :> "measurement" @@ one :> "constant"
                @@ count :> "sum" @@ many :> "greater" @@ toggle :> "latch"
                @@ last :> "latest" @@ gap :> "difference" @@ setToggle :> "action",
   parent   |-> motion :> <<>> @@ dark :> <<>> @@ one :> <<>>
                @@ count :> <<motion, dark>> @@ many :> [left |-> count, right |-> one]
                @@ toggle :> [set |-> motion, reset |-> dark] @@ last :> <<motion, dark>>
                @@ gap :> [subtrahend |-> count, minuend |-> motion]
                @@ setToggle :> [parent |-> toggle],
   delay    |-> <<>>,
   constant |-> one :> 1]

MCGraphs == {Lamp, Latch}
MCReadings == {0, 1}
=============================================================================
