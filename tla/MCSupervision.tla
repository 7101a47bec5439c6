---------------------------- MODULE MCSupervision ----------------------------
(* Constants of Supervision for TLC.                                       *)
EXTENDS Supervision

CONSTANTS p1, p2, h1
=============================================================================
