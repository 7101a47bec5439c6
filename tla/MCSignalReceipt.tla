--------------------------- MODULE MCSignalReceipt ---------------------------
(* Constants of SignalReceipt for TLC.                                      *)
EXTENDS SignalReceipt, TLC

CONSTANTS c1, c2

\* A signal with a case and playbooks, with neither, and another under the same
\* id that wants a case alone.
MCSubmissions ==
    {[content |-> c1, correlate |-> TRUE, run_playbooks |-> TRUE, scopes |-> Scopes],
     [content |-> c1, correlate |-> FALSE, run_playbooks |-> FALSE, scopes |-> {}],
     [content |-> c2, correlate |-> TRUE, run_playbooks |-> FALSE,
      scopes |-> {"cases"}]}
=============================================================================
