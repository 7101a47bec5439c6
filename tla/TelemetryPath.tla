---------------------------- MODULE TelemetryPath ----------------------------
(***************************************************************************)
(* The data plane's way of one outbox row: relays put it on the stream,    *)
(* possibly more than once, and normalizers turn what they find there into *)
(* observations.                                                           *)
(***************************************************************************)
EXTENDS OutboxRelay, Normalizer

vars == <<relayVars, normVars, busVars, faults>>

Init == BusInit /\ RelayInit /\ NormInit

Next ==
    \/ RelayNext /\ UNCHANGED normVars
    \/ NormNext /\ UNCHANGED relayVars

Spec == Init /\ [][Next]_vars

\* Each runtime drives its tasks and time passes.
Fairness ==
    /\ \A r \in Relays : WF_vars(RelayStep(r) /\ UNCHANGED normVars)
    /\ WF_vars(Ripen /\ UNCHANGED <<faults, normVars>>)
    /\ \A c \in Consumers : WF_vars(NormStep(c) /\ UNCHANGED relayVars)
    /\ \A m \in Messages : WF_vars(Age(m) /\ UNCHANGED <<normVars, relayVars>>)

LiveSpec == Spec /\ Fairness

-----------------------------------------------------------------------------
(* Properties                                                              *)
\* Types of both halves; and a consumer processes messages exactly while it has some.
TypeOK == RelayTypes /\ NormTypeOK

\* The row's event is stored or kept for inspection.
Arrived == \E m \in Messages : observed[m] = 1 \/ m \in quarantined

\* Between relay and normalizer nothing gets lost: the event of a published
\* row has arrived, or a message of it still waits in the group.
PublishedIsOnItsWay ==
    published => Arrived \/ \E m \in Sent : entry[m] \in {"new", "pending"}

\* The contract's row and the copies of its event, as the code holds them.
Phase ==
    IF row = "none" THEN "none"
    ELSE IF published THEN "published" ELSE IF dead THEN "dead" ELSE "open"

Delivery == INSTANCE DeliveryContract WITH
    phase   <- Phase,
    handed  <- Sent,
    stored  <- {m \in Messages : observed[m] > 0},
    kept    <- quarantined,
    settled <- {m \in Messages : entry[m] = "acked"}

\* The way keeps its promise, whatever lapses, is recovered or sent again: what
\* is published was sent, what leaves the group has an outcome, and a decided
\* row stays decided.
ImplementsDelivery == Delivery!Spec

\* A row of the outbox ends as a dead letter, or its event arrives.
EventArrives == row = "present" ~> (dead \/ Arrived)
=============================================================================
