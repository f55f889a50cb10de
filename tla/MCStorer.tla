------------------------------ MODULE MCStorer ------------------------------
(* Storer for TLC: the clock skew, a door contact read by the poller, and the  *)
(* same contact as an output that the reader stores as well.                   *)
EXTENDS Storer, TLC
CONSTANTS door, skew, reader, poller
MCMeasurement == {door, skew}
MCBools == {door}
MCProducer == {reader, poller}
MCSharing == {reader :> {skew} @@ poller :> {door},
              reader :> {door, skew} @@ poller :> {door}}

\* One thread that stores both, for the liveness runs.
MCOneProducer == {reader}
MCOneOwner == {reader :> {door, skew}}
=============================================================================
