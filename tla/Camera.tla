------------------------------- MODULE Camera -------------------------------
(***************************************************************************)
(* raspicamd: the motion detector (gpio::input_value and the watch_pack of *)
(* base/include/measurement.h), the loop of main that switches the light   *)
(* and records chunks as long as something moves, and the thread that      *)
(* converts the recorded files, fed by a messageQueue.                     *)
(*                                                                         *)
(* Both condition variables are waited on for a second and without a       *)
(* predicate: a notification counts only if somebody waits, a wait may end *)
(* without one, and one that comes with the end of the second is taken for *)
(* a timeout.                                                              *)
(***************************************************************************)
EXTENDS Naturals, Sequences, SequencesExt

CONSTANTS Darkness,   \* what the darkness sensor reads without the light; 0 with it
          Threshold,  \* settings of MaxUnenlightenedDarkness
          MaxFiles,   \* bound: recorded chunks
          MaxEdges,   \* bound: changes of the motion detector
          MaxEdits    \* bound: changes of the configuration and requests for the light

CameraAssumption == /\ Darkness \subseteq Nat
                    /\ Threshold \subseteq Nat /\ Threshold # {}
                    /\ {MaxFiles, MaxEdges, MaxEdits} \subseteq Nat

VARIABLES pin, edge,       \* the motion detector, and an edge poll has not yet reported
          motion,          \* its measurement
          sensor,          \* the measurement of the darkness
          threshold,       \* lMaxUnenlightenedDarkness
          light,           \* the switch of the light
          recording,       \* the measurement of the camera
          main, woken,     \* what main does next; its wait was notified
          darkness,        \* a local of main
          worker, notified, file,   \* the same for fPostProcess, and the file it converts
          queue,           \* lQueue, of files by number
          files,           \* files recorded
          raw, converted,  \* what lies in lTmpDir and in lOutputDir
          stop,            \* fGetStopRequested
          missed,          \* items enqueued or taken for a timeout while nobody was woken
          requested,       \* the light was last switched by a request
          reconfigured,    \* the threshold was changed while the light was on
          edges, edits

vars == <<pin, edge, motion, sensor, threshold, light, recording, main, woken, darkness,
          worker, notified, file, queue, files, raw, converted, stop, missed, requested,
          reconfigured, edges, edits>>
detector == <<pin, edge, edges>>
lamp == <<sensor, threshold, light, darkness, requested, reconfigured, edits>>
post == <<worker, notified, file, queue, files, raw, converted, missed>>

Init == /\ pin = FALSE /\ edge = FALSE /\ motion = FALSE
        /\ sensor = 0
        /\ threshold = CHOOSE t \in Threshold : TRUE
        /\ light = FALSE /\ recording = FALSE
        /\ main = "wait" /\ woken = FALSE /\ darkness = 0
        /\ worker = "check" /\ notified = FALSE /\ file = 0
        /\ queue = <<>> /\ files = 0 /\ raw = {} /\ converted = <<>>
        /\ stop = FALSE
        /\ missed = 0 /\ requested = FALSE /\ reconfigured = FALSE
        /\ edges = 0 /\ edits = 0
-----------------------------------------------------------------------------
\* Outside: the pin changes, the daemon is stopped.
PinChanges ==
  /\ edges < MaxEdges
  /\ pin' = ~pin
  /\ edge' = TRUE
  /\ edges' = edges + 1
  /\ UNCHANGED <<motion, recording, main, woken, stop, lamp, post>>
StopRequested ==
  /\ ~stop
  /\ stop' = TRUE
  /\ UNCHANGED <<motion, recording, main, woken, detector, lamp, post>>

\* gpio::input_value::fProcessData, as a watched_poller: the level now, not the edge that
\* was reported; a new value that is true notifies.
fProcessData ==
  /\ edge
  /\ edge' = FALSE
  /\ motion' = pin
  /\ woken' = (woken \/ (main = "wait" /\ pin /\ ~motion))
  /\ UNCHANGED <<pin, edges, recording, main, stop, lamp, post>>

\* timediff_value::fReadCurrentValue: the light of the lamp is light, too.
fReadCurrentValue ==
  /\ \E d \in Darkness : sensor' = IF light THEN 0 ELSE d
  /\ UNCHANGED <<threshold, light, darkness, requested, reconfigured, edits>>
  /\ UNCHANGED <<motion, recording, main, woken, stop, detector, post>>

Reconfigure(t) ==
  /\ edits < MaxEdits
  /\ threshold' = t
  /\ reconfigured' = TRUE
  /\ edits' = edits + 1
  /\ UNCHANGED <<sensor, light, darkness, requested>>
  /\ UNCHANGED <<motion, recording, main, woken, stop, detector, post>>

\* output_value::fProcessRequest
fProcessRequest(b) ==
  /\ edits < MaxEdits
  /\ light' = b
  /\ requested' = TRUE
  /\ edits' = edits + 1
  /\ UNCHANGED <<sensor, threshold, darkness, reconfigured>>
  /\ UNCHANGED <<motion, recording, main, woken, stop, detector, post>>
-----------------------------------------------------------------------------
\* main: the wait may end without a notification and with one come too late.
fWaitForChange ==
  /\ main = "wait"
  /\ woken' = FALSE
  /\ \/ main' = IF stop THEN "stopped" ELSE "wait"     \* timeout
     \/ main' = "begin"
  /\ UNCHANGED <<motion, recording, stop, detector, lamp, post>>

BeginRecording ==
  /\ main = "begin"
  /\ darkness' = sensor
  /\ IF sensor > threshold THEN light' = TRUE /\ requested' = FALSE
                           ELSE UNCHANGED <<light, requested>>
  /\ recording' = TRUE
  /\ reconfigured' = (reconfigured /\ light)
  /\ main' = "look"
  /\ UNCHANGED <<sensor, threshold, edits, motion, woken, stop, detector, post>>

StillMoving ==
  /\ main = "look"
  /\ main' = IF motion /\ ~stop THEN "film" ELSE "end"
  /\ UNCHANGED <<motion, recording, woken, stop, detector, lamp, post>>

fRecordSilently ==
  /\ main = "film"
  /\ \/ /\ files < MaxFiles
        /\ files' = files + 1
        /\ raw' = raw \cup {files + 1}
        /\ queue' = Append(queue, files + 1)
        /\ missed' = IF worker = "wait" /\ ~notified THEN missed ELSE missed + 1
     \/ UNCHANGED <<files, raw, queue, missed>>
  /\ main' = "look"
  /\ UNCHANGED <<worker, file, notified, converted>>
  /\ UNCHANGED <<motion, recording, woken, stop, detector, lamp>>
\* fRecord: only a file that could be filmed is enqueued.  (A full disk may make raspivid
\* fail and leave a file, which nobody looks at.)
fRecord ==
  /\ main = "film"
  /\ \/ /\ files < MaxFiles
        /\ files' = files + 1
        /\ raw' = raw \cup {files + 1}
        /\ queue' = Append(queue, files + 1)
        /\ notified' = (notified \/ worker = "wait")
        /\ missed' = IF worker = "wait" /\ ~notified THEN missed ELSE missed + 1
     \/ UNCHANGED <<files, raw, queue, notified, missed>>
  /\ main' = "look"
  /\ UNCHANGED <<worker, file, converted, motion, recording, woken, stop, detector, lamp>>

EndLookingAgain ==
  /\ main = "end"
  /\ recording' = FALSE
  /\ light' = (light /\ ~(sensor > threshold))
  /\ requested' = (requested /\ ~(sensor > threshold))
  /\ main' = IF stop THEN "stopped" ELSE "wait"
  /\ UNCHANGED <<sensor, threshold, darkness, reconfigured, edits>>
  /\ UNCHANGED <<motion, woken, stop, detector, post>>
EndRecording ==
  /\ main = "end"
  /\ recording' = FALSE
  /\ light' = (light /\ ~(darkness > threshold))
  /\ requested' = (requested /\ ~(darkness > threshold))
  /\ main' = IF stop THEN "stopped" ELSE "wait"
  /\ UNCHANGED <<sensor, threshold, darkness, reconfigured, edits>>
  /\ UNCHANGED <<motion, woken, stop, detector, post>>
-----------------------------------------------------------------------------
\* fPostProcess
CheckStop ==
  /\ worker = "check"
  /\ worker' = IF stop THEN "stopped" ELSE "wait"
  /\ notified' = FALSE
  /\ UNCHANGED <<file, queue, files, raw, converted, missed>>
  /\ UNCHANGED <<motion, recording, main, woken, stop, detector, lamp>>

\* fDequeue: what is in the queue is not looked at before the wait, and not after a timeout.
fDequeue ==
  /\ worker = "wait"
  /\ \/ worker' = "check" /\ UNCHANGED <<file, queue>>
     \/ /\ queue # <<>>
        /\ file' = Head(queue)
        /\ queue' = Tail(queue)
        /\ worker' = "convert"
  /\ notified' = FALSE
  /\ missed' = IF notified /\ worker' = "check" THEN missed + 1 ELSE missed
  /\ UNCHANGED <<files, raw, converted>>
  /\ UNCHANGED <<motion, recording, main, woken, stop, detector, lamp>>

\* The file is removed only if MP4Box succeeded, and from /run/, wherever lTmpDir is.
Convert ==
  /\ worker = "convert"
  /\ \/ converted' = Append(converted, file) /\ raw' = raw \ {file}
     \/ UNCHANGED <<converted, raw>>
  /\ worker' = "check"
  /\ UNCHANGED <<notified, file, queue, files, missed>>
  /\ UNCHANGED <<motion, recording, main, woken, stop, detector, lamp>>

Next == \/ PinChanges \/ StopRequested \/ fProcessData \/ fReadCurrentValue
        \/ \E t \in Threshold : Reconfigure(t)
        \/ \E b \in BOOLEAN : fProcessRequest(b)
        \/ fWaitForChange \/ BeginRecording \/ StillMoving \/ fRecord \/ EndRecording
        \/ CheckStop \/ fDequeue \/ Convert
Spec == Init /\ [][Next]_vars
-----------------------------------------------------------------------------
TypeOK ==
  /\ {pin, edge, motion, light, recording, woken, notified, stop, requested, reconfigured}
       \subseteq BOOLEAN
  /\ {sensor, darkness} \subseteq Darkness \cup {0}
  /\ threshold \in Threshold
  /\ main \in {"wait", "begin", "look", "film", "end", "stopped"}
  /\ worker \in {"check", "wait", "convert", "stopped"}
  /\ raw \subseteq 1..files /\ {file, missed} \subseteq 0..(2 * MaxFiles)
  /\ \A s \in {queue, converted} : s \in Seq(1..files)
  /\ files \in 0..MaxFiles /\ edges \in 0..MaxEdges /\ edits \in 0..MaxEdits

\* The decision to switch the light on is taken again to switch it off, while the light
\* itself changes what the sensor reads: when main waits again the light is off, unless a
\* request switched it, or the threshold was changed in between (it may stay on then, and
\* for good, for the lit sensor never finds it dark).
LightIsReleased ==
  main \in {"wait", "stopped"} => ~recording /\ (light => requested \/ reconfigured)

\* No recording is lost, however the two threads and failing programs interleave: it lies
\* there as it was filmed or as it was converted, and is converted once and in order.
RecordingsKept ==
  /\ \A f \in 1..files : f \in raw <=> f \notin ToSet(converted)
  /\ \A i, j \in DOMAIN converted : i < j => converted[i] < converted[j]

\* fDequeue waits without looking at the queue: a file may stay there though the thread has
\* nothing to do, but not more files than there were notifications that met nobody waiting.
BacklogIsMissed ==
  worker = "wait" /\ ~notified => Len(queue) <= missed

\* A recording is in the end converted, or one knows why it is not.
RecordingsPass == RecordingsKept /\ BacklogIsMissed
=============================================================================
