------------------------------- MODULE MCBase -------------------------------
(* The parts of base/ for TLC. *)
EXTENDS BaseParts, TLC

MCGaps == {1, 3}
\* Two daemons with a measurement of their own and one they share, in a compound.
MCProgram == [p |-> <<"daemonP", "ownP", "group", "shared">>,
              q |-> <<"daemonQ", "ownQ", "group", "shared">>]
MCProcess == DOMAIN MCProgram
MCKind == [daemonP |-> "daemon", daemonQ |-> "daemon", ownP |-> "measurement",
           ownQ |-> "measurement", shared |-> "measurement", group |-> "compound"]
MCKey == DOMAIN MCKind
\* A client, and requests of others for the same uid and for another.
MCUid == [a |-> "lamp", b |-> "lamp", c |-> "door"]
MCClientRequest == DOMAIN MCUid
MCIntervals == [slow |-> {6, 3}, fast |-> {1, 4}]
MCMeasurement == DOMAIN MCIntervals
=============================================================================
