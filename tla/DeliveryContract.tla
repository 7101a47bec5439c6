--------------------------- MODULE DeliveryContract ---------------------------
(***************************************************************************)
(* What the data plane promises to whoever writes an outbox row, with no   *)
(* relay, lease, group or receipt in sight: the row ends as published,     *)
(* which it says only of an event it has handed over, or as a dead letter; *)
(* each copy handed over is done with only when it is stored or kept for   *)
(* inspection; and nothing of this is taken back.                          *)
(***************************************************************************)
CONSTANT Messages

VARIABLES
    phase,    \* of the row: "none", "open", "published", "dead"
    handed,   \* copies of the event that were put on the stream
    stored,   \* copies stored as observations
    kept,     \* copies kept for inspection
    settled   \* copies that nobody has to process again

contractVars == <<phase, handed, stored, kept, settled>>

Init == phase = "none" /\ handed = {} /\ stored = {} /\ kept = {} /\ settled = {}

Submit ==
    /\ phase = "none" /\ phase' = "open"
    /\ UNCHANGED <<handed, stored, kept, settled>>

\* Delivery is at least once: even a row that is decided may be sent again.
HandOver(m) ==
    /\ phase # "none"
    /\ handed' = handed \cup {m}
    /\ UNCHANGED <<phase, stored, kept, settled>>

Publish ==
    /\ phase = "open" /\ handed # {}
    /\ phase' = "published"
    /\ UNCHANGED <<handed, stored, kept, settled>>

GiveUp ==
    /\ phase = "open"
    /\ phase' = "dead"
    /\ UNCHANGED <<handed, stored, kept, settled>>

Observe(m) ==
    /\ m \in handed
    /\ stored' = stored \cup {m}
    /\ UNCHANGED <<phase, handed, kept, settled>>

Keep(m) ==
    /\ m \in handed
    /\ kept' = kept \cup {m}
    /\ UNCHANGED <<phase, handed, stored, settled>>

Settle(m) ==
    /\ m \in stored \cup kept
    /\ settled' = settled \cup {m}
    /\ UNCHANGED <<phase, handed, stored, kept>>

Next ==
    \/ Submit \/ Publish \/ GiveUp
    \/ \E m \in Messages : HandOver(m) \/ Observe(m) \/ Keep(m) \/ Settle(m)

Spec == Init /\ [][Next]_contractVars
=============================================================================
