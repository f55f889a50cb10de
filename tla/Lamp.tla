-------------------------------- MODULE Lamp --------------------------------
(***************************************************************************)
(* The two daemons that drive LED lights: rgbywd (a PCA9685 behind http,   *)
(* with a yellow channel) and rgbwPCA9533d (two PCA9533 on the i2c bus).   *)
(* Both show the light twice, as lights (red, green, ...) and as a model   *)
(* (hue, saturation, value); whichever is set, the other is recalculated.  *)
(* Two threads set channels, the one for setvalue requests and the main    *)
(* loop with its buttons and rotary encoders, and neither takes a lock.    *)
(*                                                                         *)
(* A set is a sequence of operations, and a thread does one in a step:     *)
(* <<"chip", c, x>>, <<"store", c, x>>, <<"toLights">>, <<"toModel">>.     *)
(* Levels are multiples of 1/One, hues are degrees; products are rounded   *)
(* up, so that what is not zero does not become zero.                      *)
(*                                                                         *)
(* Left out: an i2c write that fails, after which the shadow register is   *)
(* not that of the chip, and the scheduled writer as a third thread.  The  *)
(* two white LEDs of rgbywd are set in one step.                           *)
(***************************************************************************)
EXTENDS Integers, Sequences, FiniteSets, FiniteSetsExt

CONSTANTS Program,   \* "rgbywd" or "rgbwPCA9533d"
          One,       \* the level 1.0
          Goal,      \* bound: the levels that are requested, of One
          Touched,   \* bound: the channels that requests and encoders set
          MaxSets    \* bound: sets begun by the threads

Yellow == Program = "rgbywd"
Thread == {"requests", "main"}
Light == {"red", "green", "blue", "white"} \cup IF Yellow THEN {"yellow"} ELSE {}
Model == {"hue", "value", "saturation"}

LampAssumption == /\ Program \in {"rgbywd", "rgbwPCA9533d"}
                  /\ One \in Nat /\ One > 0 /\ One % 10 = 0
                  /\ Goal \subseteq 0..One
                  /\ Touched \subseteq Light \cup Model \cup {"autoHue"}
                  /\ MaxSets \in Nat

MaxOf(c) == IF c = "hue" THEN 360 ELSE One

VARIABLES chip,      \* what the LEDs of a channel were set to, "white2" is the second white
          stored,    \* the current values of the measurements
          autoHue,
          oldValue,  \* of the main loop: the value before switching off
          todo,      \* what each thread has still to do
          ls0,       \* per thread: the shadow register of a PCA9533 as it read it
          raced,     \* the lights whose last setting met another one
          mixed,     \* the last sets of the two threads overlapped
          sets

vars == <<chip, stored, autoHue, oldValue, todo, ls0, raced, mixed, sets>>

Led == Light \cup IF Yellow THEN {"white2"} ELSE {}
LedsOf(c) == IF c = "white" THEN {"white", "white2"} \cap Led ELSE {c}
\* Lights that share the shadow register of their chip.
Pair(c) == CASE Yellow -> {c}
             [] ~Yellow /\ c \in {"red", "blue"} -> {"red", "blue"}
             [] OTHER -> {"green", "white"}

\* Each light sets itself to 0 in its constructor.  That of a whiteChannel is done by its
\* base class, which does not know the second channel: it stays uninitialized.
Init == /\ \E x \in Goal : chip = [l \in Led |-> IF l = "white2" THEN x ELSE 0]
        /\ stored = [c \in Light \cup Model |-> 0]
        /\ autoHue = FALSE
        /\ oldValue = One
        /\ todo = [t \in Thread |-> <<>>]
        /\ ls0 = [t \in Thread |-> <<>>]
        /\ raced = {"white"} \cap IF Yellow THEN Light ELSE {}
        /\ mixed = FALSE
        /\ sets = 0
-----------------------------------------------------------------------------
Lower(a, b) == IF a < b THEN a ELSE b
Clamp(x, max) == Lower(IF x > 0 THEN x ELSE 0, max)
Times(a, b) == (a * b + One - 1) \div One

\* lightChannel::set, whiteChannel::set and modelChannel::set without recalculation.
SetLight(c, x) == <<<<"chip", c, Clamp(x, One)>>, <<"store", c, Clamp(x, One)>>>>
SetModel(c, x) == <<<<"store", c, Clamp(x, MaxOf(c))>>>>
\* With recalculation, as a request and the main loop call them.
Set(c, x) == IF c \in Light THEN SetLight(c, x) \o <<<<"toModel">>>>
             ELSE SetModel(c, x) \o <<<<"toLights">>>>

\* The switch over the six sectors of the hue.  360 degrees are a sector of their own, which
\* the default treats like the sixth.
Sector(h, s, v) ==
  LET f == ((h % 60) * One) \div 60
      p == Times(v, One - s)
      q == Times(v, One - Times(s, f))
      t == Times(v, One - Times(s, One - f))
  IN CASE h \div 60 = 0 -> [r |-> v, g |-> t, b |-> p]
       [] h \div 60 = 1 -> [r |-> q, g |-> v, b |-> p]
       [] h \div 60 = 2 -> [r |-> p, g |-> v, b |-> t]
       [] h \div 60 = 3 -> [r |-> p, g |-> q, b |-> v]
       [] h \div 60 = 4 -> [r |-> t, g |-> p, b |-> v]
       [] OTHER         -> [r |-> v, g |-> p, b |-> q]

\* hsvToRgb of rgbywd: white takes what the colours have in common, yellow what is left of
\* red and green.  Grey light leaves yellow alone once white is fully on.
hsvToRgbYellow(h, s, v) ==
  LET full == (8 * One) \div 10
      over == 2 * (v - full)
      c == Sector(h, s, v)
      w == Lower(full, Min({c.r, c.g, c.b}))
      y == Min({c.r, c.g}) - w
  IN CASE s = 0 /\ v < full ->
            SetLight("white", 2 * v) \o SetLight("red", 0) \o SetLight("green", 0)
              \o SetLight("blue", 0) \o SetLight("yellow", 0)
       [] s = 0 /\ v >= full ->
            SetLight("white", One) \o SetLight("red", over) \o SetLight("green", over)
              \o SetLight("blue", over)
       [] OTHER ->
            SetLight("yellow", 2 * y) \o SetLight("white", 2 * w)
              \o SetLight("red", 2 * (c.r - w - y)) \o SetLight("green", 2 * (c.g - w - y))
              \o SetLight("blue", 2 * (c.b - w))

\* hsvToRgb of rgbwPCA9533d
hsvToRgbWhite(h, s, v) ==
  LET half == One \div 2
      over == 2 * (v - half)
      c == Sector(h, s, v)
      w == Lower(half, Min({c.r, c.g, c.b}))
  IN CASE s = 0 /\ v < half ->
            SetLight("white", 2 * v) \o SetLight("red", 0) \o SetLight("green", 0)
              \o SetLight("blue", 0)
       [] s = 0 /\ v >= half ->
            SetLight("white", One) \o SetLight("red", over) \o SetLight("green", over)
              \o SetLight("blue", over)
       [] OTHER ->
            SetLight("white", 2 * w) \o SetLight("red", 2 * (c.r - w))
              \o SetLight("green", 2 * (c.g - w)) \o SetLight("blue", 2 * (c.b - w))

ToLights == LET h == stored["hue"]  s == stored["saturation"]  v == stored["value"]
            IN IF Yellow THEN hsvToRgbYellow(h, s, v) ELSE hsvToRgbWhite(h, s, v)

\* The part of rgbToHsv that both have in common.
FromRgb(r, g, b) ==
  LET max == Max({r, g, b})
      delta == max - Min({r, g, b})
      sector == CASE r = max -> (60 * (g - b)) \div delta
                  [] r # max /\ g = max -> 120 + (60 * (b - r)) \div delta
                  [] OTHER -> 240 + (60 * (r - g)) \div delta
      h == IF delta = 0 THEN 0 ELSE IF sector < 0 THEN sector + 360 ELSE sector
      s == IF delta = 0 THEN 0 ELSE (delta * One) \div max
  IN SetModel("value", max) \o SetModel("saturation", s) \o SetModel("hue", h)

rgbToHsvForgettingYellow ==
  LET w == Times(stored["white"], (8 * One) \div 10)
      Sum(c) == Lower(One, Times(stored[c], (2 * One) \div 10) + w)
  IN FromRgb(Sum("red"), Sum("green"), Sum("blue"))
rgbToHsvYellow ==
  LET w == Times(stored["white"], (8 * One) \div 10)
      y == Times(stored["yellow"], (2 * One) \div 10)
      Sum(c, rest) == Lower(One, Times(stored[c], (2 * One) \div 10) + w + rest)
  IN FromRgb(Sum("red", y), Sum("green", y), Sum("blue", 0))

rgbToHsvWhite ==
  LET w == Times(stored["white"], One \div 2)
      Sum(c) == Times(stored[c], One \div 2) + w
  IN FromRgb(Sum("red"), Sum("green"), Sum("blue"))

ToModel == IF Yellow THEN rgbToHsvYellow ELSE rgbToHsvWhite
-----------------------------------------------------------------------------
Other(t) == CHOOSE u \in Thread : u # t
\* A thread has set the chip for one of the lights and not yet the measurement.
Inside(t, lights) == \/ Len(todo[t]) > 0 /\ todo[t][1][1] = "store" /\ todo[t][1][2] \in lights
                     \/ ls0[t] # <<>> /\ todo[t][1][2] \in lights

Recalculates(ops) == \E i \in DOMAIN ops : ops[i][1] \in {"toLights", "toModel"}
Begin(t, ops) == /\ todo[t] = <<>>
                 /\ sets < MaxSets
                 /\ sets' = sets + 1
                 /\ todo' = [todo EXCEPT ![t] = ops]
                 /\ mixed' = (todo[Other(t)] # <<>> \/ (mixed /\ ~Recalculates(ops)))
Doing(t, op) == todo[t] # <<>> /\ Head(todo[t])[1] = op
GoOn(t) == todo' = [todo EXCEPT ![t] = Tail(@)]
Races(t, c) == raced' = IF Inside(Other(t), Pair(c)) THEN raced \cup Pair(c) ELSE raced \ {c}

\* channelPair::set first reads ls0, which is shared by the two lights of a chip, and ...
ReadShadow(t) ==
  /\ ~Yellow
  /\ Doing(t, "chip")
  /\ ls0[t] = <<>>
  /\ ls0' = [ls0 EXCEPT ![t] = <<chip>>]
  /\ Races(t, todo[t][1][2])
  /\ UNCHANGED <<chip, stored, autoHue, oldValue, todo, mixed, sets>>
\* ... writes it back, with the other light as it was then.  The set of a remotePCA9685 only
\* stores into its array, under a lock.
OneWhiteOnly(t) ==
  /\ Doing(t, "chip")
  /\ Yellow \/ ls0[t] # <<>>
  /\ LET c == todo[t][1][2]
     IN /\ chip' = [l \in Led |-> CASE l = c -> todo[t][1][3]
                                    [] l \in Pair(c) \ {c} -> ls0[t][1][l]
                                    [] OTHER -> chip[l]]
        /\ IF Yellow THEN Races(t, c) ELSE UNCHANGED raced
  /\ GoOn(t)
  /\ ls0' = [ls0 EXCEPT ![t] = <<>>]
  /\ UNCHANGED <<stored, autoHue, oldValue, mixed, sets>>
WriteChip(t) ==
  /\ Doing(t, "chip")
  /\ Yellow \/ ls0[t] # <<>>
  /\ LET c == todo[t][1][2]
     IN /\ chip' = [l \in Led |-> CASE l \in LedsOf(c) -> todo[t][1][3]
                                    [] l \in Pair(c) \ LedsOf(c) -> ls0[t][1][l]
                                    [] OTHER -> chip[l]]
        /\ IF Yellow THEN Races(t, c) ELSE UNCHANGED raced
  /\ GoOn(t)
  /\ ls0' = [ls0 EXCEPT ![t] = <<>>]
  /\ UNCHANGED <<stored, autoHue, oldValue, mixed, sets>>

Store(t) ==
  /\ Doing(t, "store")
  /\ stored' = [stored EXCEPT ![todo[t][1][2]] = todo[t][1][3]]
  /\ GoOn(t)
  /\ UNCHANGED <<chip, autoHue, oldValue, ls0, raced, mixed, sets>>

Recalculate(t) ==
  /\ Doing(t, "toLights") \/ Doing(t, "toModel")
  /\ todo' = [todo EXCEPT ![t] = (IF Doing(t, "toLights") THEN ToLights ELSE ToModel)
                                   \o Tail(@)]
  /\ UNCHANGED <<chip, stored, autoHue, oldValue, ls0, raced, mixed, sets>>

\* setbit::fSet
SetBit(t) ==
  /\ Doing(t, "bit")
  /\ autoHue' = todo[t][1][2]
  /\ GoOn(t)
  /\ UNCHANGED <<chip, stored, oldValue, ls0, raced, mixed, sets>>
-----------------------------------------------------------------------------
Request(c, x) ==
  /\ Begin("requests", Set(c, IF c = "hue" THEN (x * 360) \div One ELSE x))
  /\ UNCHANGED <<chip, stored, autoHue, oldValue, ls0, raced>>
RequestAutoHue(b) ==
  /\ Begin("requests", <<<<"bit", b>>>>)
  /\ UNCHANGED <<chip, stored, autoHue, oldValue, ls0, raced>>

\* The button: with the red one, rgbywd toggles autoHue instead.
Toggle ==
  /\ Yellow
  /\ Begin("main", <<<<"bit", ~autoHue>>>> \o IF autoHue THEN <<>> ELSE <<<<"toLights">>>>)
  /\ UNCHANGED <<chip, stored, autoHue, oldValue, ls0, raced>>
OnOff ==
  /\ Begin("main", Set("value", IF stored["value"] > 0 THEN 0 ELSE oldValue))
  /\ oldValue' = IF stored["value"] > 0 THEN stored["value"] ELSE oldValue
  /\ UNCHANGED <<chip, stored, autoHue, ls0, raced>>

\* Which channel a combination of the red, green and blue button selects.
getChannelYellow(r, g, b) ==
  CASE ~r /\ ~g /\ ~b -> "value"  [] r /\ ~g /\ ~b -> "red"
    [] ~r /\ g /\ ~b  -> "green"  [] r /\ g /\ ~b  -> "yellow"
    [] ~r /\ ~g /\ b  -> "blue"   [] r /\ ~g /\ b  -> "hue"
    [] ~r /\ g /\ b   -> "saturation" [] OTHER     -> "white"
getChannelWhite(r, g, b) ==
  CASE ~r /\ ~g /\ ~b -> "value"  [] r /\ ~g /\ ~b -> "red"
    [] ~r /\ g /\ ~b  -> "green"  [] r /\ g /\ ~b  -> "hue"
    [] ~r /\ ~g /\ b  -> "blue"   [] r /\ ~g /\ b  -> "saturation"
    [] ~r /\ g /\ b   -> "autoHue" [] OTHER        -> "white"

\* rotary::getIncrement: the sign for an edge of a or of b.
Clockwise(byA, a, b) == byA <=> (a # b)

\* A turn in rgbywd multiplies by 1 + incr: a twentieth more or less, here one step of the
\* grid, and never down to zero.  The step of the hue is 18, so it goes to one of its ends at
\* once.  An edge after which both are released is not looked at.
TurnYellow(r, g, b, byA, atA, atB) ==
  LET c == getChannelYellow(r, g, b)
      incr == IF Clockwise(byA, atA, atB) THEN MaxOf(c) ELSE -MaxOf(c)
      old == stored[c]
      goal == CASE old = 0 -> IF c = "value" /\ incr < 0 THEN One ELSE 1
                [] old > 0 /\ c = "hue" -> old * (1 + incr \div 20)
                [] OTHER -> IF incr > 0 THEN old + 1 ELSE Max({1, old - 1})
  IN /\ Yellow
     /\ c \in Touched
     /\ atA \/ atB
     /\ Begin("main", Set(c, goal) \o IF c = "value" THEN <<>> ELSE <<<<"bit", FALSE>>>>)
     /\ UNCHANGED <<chip, stored, autoHue, oldValue, ls0, raced>>

\* In rgbwPCA9533d it adds, the more the faster it is turned.
TurnWhite(r, g, b, byA, atA, atB, speed) ==
  LET c == getChannelWhite(r, g, b)
      cw == Clockwise(byA, atA, atB)
  IN /\ ~Yellow
     /\ c \in Touched
     /\ atA \/ atB
     /\ Begin("main", IF c = "autoHue" THEN <<<<"bit", cw>>>>
                      ELSE Set(c, stored[c] + IF cw THEN speed ELSE -speed))
     /\ UNCHANGED <<chip, stored, autoHue, oldValue, ls0, raced>>

\* Every five minutes, by the hour: evening, night, morning, day.
AutoHue(hue, saturation) ==
  /\ autoHue
  /\ Begin("main", Set("hue", hue) \o Set("saturation", saturation))
  /\ UNCHANGED <<chip, stored, autoHue, oldValue, ls0, raced>>
AutoHueYellow == Yellow /\ \E phase \in Goal :
                   \/ AutoHue(60 - (60 * phase) \div One, phase)      \* evening
                   \/ AutoHue((60 * phase) \div One, One - phase)     \* night and morning
AutoHueWhite == ~Yellow /\ \E phase \in Goal :
                   \/ AutoHue(0, phase)
                   \/ AutoHue((60 * phase) \div One, One - phase)
AutoHueByDay ==
  /\ autoHue
  /\ Begin("main", Set("saturation", 0))
  /\ UNCHANGED <<chip, stored, autoHue, oldValue, ls0, raced>>

Do(t) == ReadShadow(t) \/ WriteChip(t) \/ Store(t) \/ Recalculate(t) \/ SetBit(t)
Next == \/ \E t \in Thread : Do(t)
        \/ \E c \in Touched \ {"autoHue"}, x \in Goal : Request(c, x)
        \/ \E b \in BOOLEAN : RequestAutoHue(b)
        \/ Toggle \/ OnOff \/ AutoHueYellow \/ AutoHueWhite \/ AutoHueByDay
        \/ \E r, g, b, byA, a, c \in BOOLEAN :
             TurnYellow(r, g, b, byA, a, c) \/ \E speed \in {1, One} :
               TurnWhite(r, g, b, byA, a, c, speed)
Spec == Init /\ [][Next]_vars
-----------------------------------------------------------------------------
TypeOK ==
  /\ chip \in [Led -> 0..One]
  /\ DOMAIN stored = Light \cup Model /\ \A c \in DOMAIN stored : stored[c] \in 0..MaxOf(c)
  /\ {autoHue, mixed} \subseteq BOOLEAN
  /\ oldValue \in 0..One
  /\ \A t \in Thread : Len(todo[t]) <= 12 /\ Len(ls0[t]) <= 1
  /\ raced \subseteq Light
  /\ sets \in 0..MaxSets

\* Two threads set lights, the lights of one PCA9533 even through one shadow register: a
\* light that was not set by both at a time shines as its measurement says, all its LEDs.
LampShowsValues ==
  \A c \in Light \ raced :
    (\A t \in Thread : ~Inside(t, Pair(c))) => \A l \in LedsOf(c) : chip[l] = stored[c]

\* Each view of the light is recalculated from the other, with the four or five lights set
\* one after the other: unless the two threads did so at the same time, the value is zero
\* exactly when all lights are off, so the button switches the lamp off and on again.
DarkIsOff ==
  (\A t \in Thread : todo[t] = <<>>) /\ ~mixed =>
    (stored["value"] = 0 <=> \A c \in Light : stored[c] = 0)
=============================================================================
