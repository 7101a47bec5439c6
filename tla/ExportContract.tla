---------------------------- MODULE ExportContract ----------------------------
(***************************************************************************)
(* What an export promises to the tenant who asked for it: it is pending   *)
(* until it is either completed, with a file that stays until it may go,   *)
(* or failed for good.                                                     *)
(***************************************************************************)
VARIABLES
    phase,      \* "none", "pending", "completed", "failed", "expired", "deleted"
    file,       \* the completed export has a file to download
    void        \* that file may go: it is out of date or its removal began

contractVars == <<phase, file, void>>

Init == phase = "none" /\ file = FALSE /\ void = FALSE

Becomes(p) == phase' = p /\ file' = FALSE /\ void' = FALSE

Request == phase = "none" /\ Becomes("pending")
GiveUp == phase = "pending" /\ Becomes("failed")

\* A removal may have begun before the job is completed.
Deliver ==
    /\ phase = "pending"
    /\ phase' = "completed"
    /\ file' \in BOOLEAN
    /\ void' \in BOOLEAN
    /\ file' \/ void'

Invalidate ==
    /\ phase = "completed"
    /\ void' = TRUE
    /\ file' \in {file, FALSE}
    /\ UNCHANGED phase

Withdraw ==
    /\ phase = "completed"
    /\ void
    /\ file' = FALSE
    /\ UNCHANGED <<phase, void>>

\* An export expires only after its file is gone.
Expire == phase = "completed" /\ void /\ ~file /\ Becomes("expired")

Delete == phase \notin {"none", "deleted"} /\ Becomes("deleted")

Next ==
    \/ Request \/ GiveUp \/ Deliver \/ Invalidate \/ Withdraw \/ Expire
    \/ Delete

Spec == Init /\ [][Next]_contractVars
=============================================================================
