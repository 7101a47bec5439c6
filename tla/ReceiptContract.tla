-------------------------- MODULE ReceiptContract --------------------------
(***************************************************************************)
(* What the ingest API promises of the receipts it returns, with no        *)
(* worker, lease, cursor or dead letter in sight: accepting a request      *)
(* opens receipts for its new events; a receipt completes once, together   *)
(* with the results of all its events, or fails; a failed one may be       *)
(* reopened; and events may also be projected outside their receipt.       *)
(***************************************************************************)
CONSTANT Events

Batch == (SUBSET Events) \ {{}}

VARIABLES receipt, projected

contractVars == <<receipt, projected>>

Init == receipt = [b \in Batch |-> "absent"] /\ projected = {}

Known == {b \in Batch : receipt[b] # "absent"}

\* Move the receipts of S, all of them at stage "from", to stage "to".
Move(S, from, to) ==
    /\ \A b \in S : receipt[b] = from
    /\ receipt' = [b \in Batch |-> IF b \in S THEN to ELSE receipt[b]]

\* A request is accepted: its new events are in no receipt so far, and in one each.
Accept(S) ==
    /\ \A b, c \in S \cup Known : b # c => b \cap c = {}
    /\ Move(S, "absent", "open")
    /\ UNCHANGED projected

Complete(b) == Move({b}, "open", "completed") /\ projected' = projected \cup b
Fail(S)     == Move(S, "open", "failed") /\ UNCHANGED projected
Reopen(S)   == Move(S, "failed", "open") /\ UNCHANGED projected

\* Catch-up and dead-letter retries project accepted events only.
Project(E)  == /\ E \subseteq UNION Known
               /\ projected' = projected \cup E
               /\ UNCHANGED receipt

Next ==
    \/ \E S \in SUBSET Batch : Accept(S) \/ Fail(S) \/ Reopen(S)
    \/ \E b \in Batch : Complete(b)
    \/ \E E \in SUBSET Events : Project(E)

Spec == Init /\ [][Next]_contractVars
=============================================================================
