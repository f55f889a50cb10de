---------------------------- MODULE PulseBuffers ----------------------------
(***************************************************************************)
(* The receiver of the 433 MHz firmware (avrcode/rfio433MHz): interrupts   *)
(* write the pulses of a train into a ring of buffers and mark a buffer    *)
(* valid when the train has ended, the main loop decodes valid buffers.    *)
(* It may be busy for long, sending patterns, and the interrupts do not    *)
(* look whether a buffer has been read.                                    *)
(*                                                                         *)
(* Of a pulse it only matters to which train of the air it belongs.  An    *)
(* interrupt is a step, for interrupts are blocked in it.  The compare     *)
(* register of the timeout (OCR1A) is left out: a timeout comes between    *)
(* any two trains, and noise is short pulses within them.                  *)
(***************************************************************************)
EXTENDS Naturals, Sequences, SequencesExt

CONSTANTS kNBuffers,   \* 12
          kSize,       \* 70: pulses in a buffer
          kMinEdges,   \* 64: a train has more pulses than that
          MaxTrains,   \* bound: trains in the air, and buffers marked valid
          MaxGlitches  \* bound: pulses that are too short

BuffersAssumption == /\ {kNBuffers, kSize, kMinEdges, MaxTrains, MaxGlitches} \subseteq Nat
                     /\ kNBuffers > 1 /\ kMinEdges + 1 < kSize

VARIABLES gBuffer,            \* lPulses (up to lIndex) and lValid of each
          gWriteBufferIndex,
          readBufferIndex,
          pc, index, seen,    \* of main: decoding, the next entry, the trains of those it saw
          train,              \* the train in the air, 0 for silence
          trains,
          complete,           \* trains whose buffer was marked valid, in order
          decoded,            \* for each buffer that was decoded, the trains it held
          lapped,             \* a pulse was written into a buffer that had not been read
          glitches

vars == <<gBuffer, gWriteBufferIndex, readBufferIndex, pc, index, seen, train, trains,
          complete, decoded, lapped, glitches>>
main == <<readBufferIndex, pc, index, seen, decoded>>

Index == 0..(kNBuffers - 1)
Empty == [pulses |-> <<>>, valid |-> FALSE]
NextIndex(i) == (i + 1) % kNBuffers
Current == gBuffer[gWriteBufferIndex]

Init == /\ gBuffer = [i \in Index |-> Empty]
        /\ gWriteBufferIndex = 0 /\ readBufferIndex = 0
        /\ pc = "look" /\ index = 1 /\ seen = {}
        /\ train = 0 /\ trains = 0
        /\ complete = <<>> /\ decoded = <<>>
        /\ lapped = FALSE
        /\ glitches = 0
-----------------------------------------------------------------------------
\* Outside: somebody begins to send.
TrainBegins ==
  /\ train = 0
  /\ trains < MaxTrains
  /\ trains' = trains + 1
  /\ train' = trains + 1
  /\ UNCHANGED <<gBuffer, gWriteBufferIndex, main, complete, lapped, glitches>>

\* TIMER1_CAPT_vect, an edge: fAddPulse refuses a glitch, and a pulse that fills the buffer;
\* either empties the buffer, and the rest of the train is taken for a new one.
Edge(glitch) ==
  /\ train # 0
  /\ glitch => glitches < MaxGlitches
  /\ glitches' = IF glitch THEN glitches + 1 ELSE glitches
  /\ gBuffer' = [gBuffer EXCEPT ![gWriteBufferIndex] =
                   IF glitch \/ Len(Current.pulses) + 1 >= kSize THEN Empty
                   ELSE [Current EXCEPT !.pulses = Append(@, train)]]
  /\ lapped' = (lapped \/ Current.valid)
  /\ UNCHANGED <<gWriteBufferIndex, main, train, trains, complete>>

\* TIMER1_COMPA_vect, no edge for long enough.
TimeoutKeepingJunk ==
  /\ Len(complete) < MaxTrains
  /\ train' = 0
  /\ IF Len(Current.pulses) > kMinEdges
     THEN /\ gBuffer' = [gBuffer EXCEPT ![gWriteBufferIndex].valid = TRUE]
          /\ gWriteBufferIndex' = NextIndex(gWriteBufferIndex)
          /\ complete' = Append(complete, Last(Current.pulses))
     ELSE UNCHANGED <<gBuffer, gWriteBufferIndex, complete>>
  /\ lapped' = (lapped \/ Current.valid)
  /\ UNCHANGED <<main, trains, glitches>>
Timeout ==
  /\ Len(complete) < MaxTrains
  /\ train' = 0
  /\ IF Len(Current.pulses) > kMinEdges
     THEN /\ gBuffer' = [gBuffer EXCEPT ![gWriteBufferIndex].valid = TRUE]
          /\ gWriteBufferIndex' = NextIndex(gWriteBufferIndex)
          /\ complete' = Append(complete, Last(Current.pulses))
     ELSE /\ gBuffer' = [gBuffer EXCEPT ![gWriteBufferIndex] = Empty]
          /\ UNCHANGED <<gWriteBufferIndex, complete>>
  /\ lapped' = (lapped \/ Current.valid)
  /\ UNCHANGED <<main, trains, glitches>>

\* main: decodePulses, which looks at the number of entries anew for each.
Decode ==
  /\ pc = "look"
  /\ gBuffer[readBufferIndex].valid
  /\ pc' = "decode"
  /\ index' = 1
  /\ seen' = {}
  /\ UNCHANGED <<gBuffer, gWriteBufferIndex, readBufferIndex, train, trains, complete, decoded,
                 lapped, glitches>>

NextEntry ==
  /\ pc = "decode"
  /\ index <= Len(gBuffer[readBufferIndex].pulses)
  /\ seen' = seen \cup {gBuffer[readBufferIndex].pulses[index]}
  /\ index' = index + 1
  /\ UNCHANGED <<gBuffer, gWriteBufferIndex, readBufferIndex, pc, train, trains, complete,
                 decoded, lapped, glitches>>

\* The code is printed, and then the buffer cleared.  That it had been cleared in the meantime is
\* only reported.
Decoded ==
  /\ pc = "decode"
  /\ index > Len(gBuffer[readBufferIndex].pulses)
  /\ decoded' = Append(decoded, seen)
  /\ gBuffer' = IF gBuffer[readBufferIndex].valid
                THEN [gBuffer EXCEPT ![readBufferIndex] = Empty] ELSE gBuffer
  /\ readBufferIndex' = NextIndex(readBufferIndex)
  /\ pc' = "look"
  /\ UNCHANGED <<gWriteBufferIndex, index, seen, train, trains, complete, lapped, glitches>>

Next == \/ TrainBegins \/ Timeout \/ \E glitch \in BOOLEAN : Edge(glitch)
        \/ Decode \/ NextEntry \/ Decoded
Spec == Init /\ [][Next]_vars
-----------------------------------------------------------------------------
TypeOK ==
  /\ DOMAIN gBuffer = Index
  /\ \A i \in Index : Len(gBuffer[i].pulses) < kSize /\ gBuffer[i].valid \in BOOLEAN
  /\ {gWriteBufferIndex, readBufferIndex} \subseteq Index
  /\ pc \in {"look", "decode"} /\ index \in 1..kSize /\ seen \subseteq 1..trains
  /\ train \in 0..trains /\ trains \in 0..MaxTrains
  /\ lapped \in BOOLEAN /\ glitches \in 0..MaxGlitches

\* Whenever the interrupts come, with short pulses and trains that are too long or too
\* short: as long as main does not fall a whole ring behind, each train that was received
\* completely is decoded once, in order and with no pulse of another.  (After that trains are mixed without a report, since a
\* buffer that is still valid is written on.)
TrainsAreDecoded ==
  ~lapped => /\ Len(decoded) <= Len(complete)
             /\ \A i \in DOMAIN decoded : decoded[i] = {complete[i]}
             /\ pc = "decode" => seen \subseteq {complete[Len(decoded) + 1]}
             /\ pc = "look" /\ Len(decoded) < Len(complete) => gBuffer[readBufferIndex].valid
=============================================================================
