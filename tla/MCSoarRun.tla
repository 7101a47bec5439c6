------------------------------ MODULE MCSoarRun ------------------------------
(* Constants of SoarRun for TLC.                                           *)
EXTENDS SoarRun, TLC

TwoStepPlans == {<<"webhook", "control">>, <<"control", "webhook">>}
ShortPlans == {<<"webhook", "unsupported">>, <<"control", "webhook">>}
=============================================================================
