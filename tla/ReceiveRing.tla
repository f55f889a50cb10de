----------------------------- MODULE ReceiveRing ----------------------------
(***************************************************************************)
(* Commands to the 433 MHz firmware: the receive interrupt writes bytes    *)
(* into a ring, fNextLine of usartHandlerWithBuffer (avrcode/usart.h)      *)
(* takes them out and makes lines of them, when the main loop is not busy  *)
(* sending.  Neither side looks whether the ring is full.                  *)
(*                                                                         *)
(* A byte of a command is the number of the command, the newline is 0.     *)
(***************************************************************************)
EXTENDS Naturals, Sequences, SequencesExt

CONSTANTS kRingBufferSize,   \* 128
          kLineBufferSize,   \* 64
          Lengths,           \* lengths of commands, without the newline
          MaxCommands        \* bound

RingAssumption == /\ {kRingBufferSize, kLineBufferSize, MaxCommands} \subseteq Nat
                  /\ kRingBufferSize > 1 /\ kLineBufferSize > 0
                  /\ Lengths \subseteq Nat

VARIABLES lBuffer, lWriteIndex, lReadIndex,
          lLine,      \* up to lLineIndex
          toSend,     \* bytes of the current command on the line
          commands,   \* the lengths of the commands so far
          lines,      \* what fNextLine returned, as sequences of bytes
          unread,     \* bytes in the ring, really
          overrun     \* there were more than it has places for

vars == <<lBuffer, lWriteIndex, lReadIndex, lLine, toSend, commands, lines, unread, overrun>>

Newline == 0
Places == 0..(kRingBufferSize - 1)

Init == /\ lBuffer = [i \in Places |-> Newline]
        /\ lWriteIndex = 0 /\ lReadIndex = 0
        /\ lLine = <<>>
        /\ toSend = <<>> /\ commands = <<>>
        /\ lines = <<>>
        /\ unread = 0 /\ overrun = FALSE
-----------------------------------------------------------------------------
\* Outside: rslSender::fProcessRequest writes a command, whenever a request comes.
Command(n) ==
  /\ toSend = <<>>
  /\ Len(commands) < MaxCommands
  /\ commands' = Append(commands, n)
  /\ toSend' = [i \in 1..(n + 1) |-> IF i <= n THEN Len(commands) + 1 ELSE Newline]
  /\ UNCHANGED <<lBuffer, lWriteIndex, lReadIndex, lLine, lines, unread, overrun>>

\* USART_RX_vect
fAddByteToBuffer ==
  /\ toSend # <<>>
  /\ toSend' = Tail(toSend)
  /\ lBuffer' = [lBuffer EXCEPT ![lWriteIndex] = Head(toSend)]
  /\ lWriteIndex' = (lWriteIndex + 1) % kRingBufferSize
  /\ unread' = unread + 1
  /\ overrun' = (overrun \/ unread + 1 >= kRingBufferSize)
  /\ UNCHANGED <<lReadIndex, lLine, commands, lines>>

\* One turn of the loop of fNextLine.  A line that fills the buffer is thrown away up to
\* there, its rest is another line.
fNextLineKeepingLine ==
  /\ lWriteIndex # lReadIndex
  /\ lReadIndex' = (lReadIndex + 1) % kRingBufferSize
  /\ unread' = unread - 1
  /\ IF lBuffer[lReadIndex] = Newline
     THEN lines' = Append(lines, lLine) /\ lLine' = <<>>
     ELSE /\ lLine' = IF Len(lLine) = kLineBufferSize THEN <<>>
                      ELSE Append(lLine, lBuffer[lReadIndex])
          /\ UNCHANGED lines
  /\ UNCHANGED <<lBuffer, lWriteIndex, toSend, commands, overrun>>
fNextLine ==
  /\ lWriteIndex # lReadIndex
  /\ lReadIndex' = (lReadIndex + 1) % kRingBufferSize
  /\ unread' = unread - 1
  /\ IF lBuffer[lReadIndex] = Newline
     THEN lines' = Append(lines, lLine) /\ lLine' = <<>>
     ELSE /\ lLine' = IF Len(lLine) + 1 = kLineBufferSize THEN <<>>
                      ELSE Append(lLine, lBuffer[lReadIndex])
          /\ UNCHANGED lines
  /\ UNCHANGED <<lBuffer, lWriteIndex, toSend, commands, overrun>>

Next == fAddByteToBuffer \/ fNextLine \/ \E n \in Lengths : Command(n)
Spec == Init /\ [][Next]_vars
-----------------------------------------------------------------------------
TypeOK ==
  /\ lBuffer \in [Places -> 0..MaxCommands]
  /\ {lWriteIndex, lReadIndex} \subseteq Places
  /\ lLine \in Seq(1..MaxCommands) /\ Len(lLine) <= kLineBufferSize
  /\ toSend \in Seq(0..MaxCommands) /\ commands \in Seq(Lengths)
  /\ \A i \in DOMAIN lines : lines[i] \in Seq(0..MaxCommands)
  /\ overrun \in BOOLEAN

\* However the interrupts fall between the turns of the loop: while the ring was never
\* full, each command becomes one line, in order, complete if it is shorter than a line, and
\* otherwise without a multiple of what fits into one.
CommandsArrive ==
  ~overrun =>
    /\ Len(lines) <= Len(commands)
    /\ \A i \in DOMAIN lines :
         /\ ToSet(lines[i]) \subseteq {i}
         /\ Len(lines[i]) = commands[i] % kLineBufferSize
=============================================================================
