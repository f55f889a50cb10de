------------------------------ MODULE MCDevices ------------------------------
(* The daemons for devices, and the firmware, for TLC. *)
EXTENDS DeviceParts, TLC

\* The channels that requests and encoders set, in both lamps.
MCTouched == {"red", "green", "white", "hue", "value", "saturation"}
MCYellowTouched == MCTouched \cup {"yellow"}
MCWhiteTouched == MCTouched \cup {"autoHue"}
MCLengths == 0..4
=============================================================================
