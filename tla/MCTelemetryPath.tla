-------------------------- MODULE MCTelemetryPath --------------------------
(* Constants of TelemetryPath for TLC.                                   *)
EXTENDS TelemetryPath, TLC

NoMessages == {}
SecondMessage == {2}
AllFaults == {"crash", "raise", "stall"}
=============================================================================
