--------------------------- MODULE MCDurableExport ---------------------------
(* Constants of DurableExport for TLC.                                     *)
EXTENDS DurableExport, TLC
AllButStall == {"crash", "raise", "unheard"}
CrashRaiseStall == {"crash", "raise", "stall"}
Symmetry == Permutations(Workers)
=============================================================================
