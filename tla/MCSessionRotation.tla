------------------------- MODULE MCSessionRotation --------------------------
(* SessionRotation with a careful client on a good network that uses the     *)
(* routes that answer 202 Accepted.                                          *)
EXTENDS SessionRotation

CarefulOkOrAccepted ==
    {[inFlight |-> 1, statuses |-> {"ok", "accepted"}, lossy |-> FALSE]}
=============================================================================
