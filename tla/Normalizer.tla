------------------------------ MODULE Normalizer ------------------------------
(***************************************************************************)
(* The consumers of telemetry-raw (engine/src/data_plane/tasks/            *)
(* normalizer.rs): each recovers stale messages or reads new ones, stores  *)
(* one observation per message under a receipt in the same transaction,    *)
(* acknowledges, and quarantines what fails after a recovery.              *)
(*                                                                         *)
(* An action is one call of the stream or one transaction; a consumer may  *)
(* stop between any two.                                                   *)
(***************************************************************************)
EXTENDS StreamBus

CONSTANTS
    Consumers,  \* processes that run the normalizer role
    Poison      \* decodable messages that persist_event always refuses

ASSUME PoisonAssumption == Poison \subseteq Messages

VARIABLES
    receipts,     \* messages in telemetry_ingest_receipts
    observed,     \* observations ever stored for each message
    quarantined,  \* messages in telemetry-raw-dlq
    normAt,       \* where each consumer is
    batch,        \* messages it has still to process
    reclaimed     \* the batch comes from claim_stale

storeVars == <<receipts, observed, quarantined>>
consumerVars == <<normAt, batch, reclaimed>>
normVars == <<storeVars, consumerVars>>

NormInit ==
    /\ receipts = {}
    /\ observed = [m \in Messages |-> 0]
    /\ quarantined = {}
    /\ normAt = [c \in Consumers |-> "claim"]
    /\ batch = [c \in Consumers |-> {}]
    /\ reclaimed = [c \in Consumers |-> FALSE]

Goes(c, place) == normAt' = [normAt EXCEPT ![c] = place]

\* m is the message of the batch that is processed next.
Foremost(c, m) == m \in batch[c] /\ \A q \in batch[c] : m <= q

Receive(c, S, again, otherwise) ==
    /\ batch' = [batch EXCEPT ![c] = S]
    /\ reclaimed' = [reclaimed EXCEPT ![c] = again]
    /\ Goes(c, IF S = {} THEN otherwise ELSE "persist")

\* On to the next message of the batch.
Proceed(c, m) ==
    /\ batch' = [batch EXCEPT ![c] = batch[c] \ {m}]
    /\ Goes(c, IF batch[c] = {m} THEN "claim" ELSE "persist")
    /\ UNCHANGED reclaimed

-----------------------------------------------------------------------------
(* The loop of run                                                         *)
ClaimStale(c) ==
    /\ normAt[c] = "claim"
    /\ Reclaim
    /\ Receive(c, Decoded(Stale), TRUE, "read")
    /\ UNCHANGED <<storeVars, faults>>

ReadGroup(c) ==
    /\ normAt[c] = "read"
    /\ Deliver
    /\ Receive(c, Decoded(Unread), FALSE, "claim")
    /\ UNCHANGED <<storeVars, faults>>

\* Either call fails; the messages may be delivered all the same.
FetchRaises(c) ==
    /\ normAt[c] \in {"claim", "read"}
    /\ Fault("raise")
    /\ \/ UNCHANGED busVars
       \/ normAt[c] = "claim" /\ Reclaim
       \/ normAt[c] = "read" /\ Deliver
    /\ Goes(c, "claim")
    /\ UNCHANGED <<storeVars, batch, reclaimed>>

\* Mutant: the observation is stored whether or not there is a receipt.
StoreAlways(m) ==
    /\ receipts' = receipts \cup {m}
    /\ observed' = [observed EXCEPT ![m] = observed[m] + 1]

\* persist_event: ON CONFLICT (stream, message_id) DO NOTHING.
Store(m) ==
    /\ receipts' = receipts \cup {m}
    /\ observed' = IF m \in receipts THEN observed
                   ELSE [observed EXCEPT ![m] = observed[m] + 1]

Persist(c, m) ==
    /\ normAt[c] = "persist" /\ Foremost(c, m)
    /\ m \notin Poison
    /\ Store(m)
    /\ Goes(c, "ack")
    /\ UNCHANGED <<quarantined, batch, reclaimed, busVars, faults>>

\* Left pending at first, quarantined after a recovery.
AfterError(c, m) ==
    \/ ~reclaimed[c] /\ Proceed(c, m)
    \/ reclaimed[c] /\ Goes(c, "quarantine") /\ UNCHANGED <<batch, reclaimed>>

Refuse(c, m) ==
    /\ normAt[c] = "persist" /\ Foremost(c, m)
    /\ m \in Poison
    /\ AfterError(c, m)
    /\ UNCHANGED <<storeVars, busVars, faults>>

\* The transaction fails, or its commit succeeds unheard.
PersistRaises(c, m) ==
    /\ normAt[c] = "persist" /\ Foremost(c, m)
    /\ m \notin Poison
    /\ Fault("raise")
    /\ UNCHANGED <<receipts, observed>> \/ Store(m)
    /\ AfterError(c, m)
    /\ UNCHANGED <<quarantined, busVars>>

Ack(c, m) ==
    /\ normAt[c] = "ack" /\ Foremost(c, m)
    /\ Acknowledge(m)
    /\ Proceed(c, m)
    /\ UNCHANGED <<storeVars, faults>>

AckRaises(c, m) ==
    /\ normAt[c] = "ack" /\ Foremost(c, m)
    /\ Fault("raise")
    /\ Proceed(c, m)
    /\ UNCHANGED <<storeVars, busVars>>

\* To telemetry-raw-dlq; what that did not take remains pending.
Quarantine(c, m) ==
    /\ normAt[c] = "quarantine" /\ Foremost(c, m)
    /\ quarantined' = quarantined \cup {m}
    /\ Goes(c, "ack")
    /\ UNCHANGED <<receipts, observed, batch, reclaimed, busVars, faults>>

\* Mutant: it is acknowledged even if the dead letter was not written.
QuarantineUnnoticed(c, m) ==
    /\ normAt[c] = "quarantine" /\ Foremost(c, m)
    /\ Fault("raise")
    /\ Goes(c, "ack")
    /\ UNCHANGED <<storeVars, batch, reclaimed, busVars>>

QuarantineRaises(c, m) ==
    /\ normAt[c] = "quarantine" /\ Foremost(c, m)
    /\ Fault("raise")
    /\ quarantined' \in {quarantined, quarantined \cup {m}}
    /\ Proceed(c, m)
    /\ UNCHANGED <<receipts, observed, busVars>>

NormCrash(c) ==
    /\ Fault("crash")
    /\ batch' = [batch EXCEPT ![c] = {}]
    /\ Goes(c, "claim")
    /\ UNCHANGED <<storeVars, reclaimed, busVars>>

\* run_db_cleanup deletes receipts after 30 days: by then the message is
\* acknowledged, because a pending one is reclaimed within minutes.
Forgettable ==
    {m \in receipts : entry[m] = "acked" /\ \A c \in Consumers : m \notin batch[c]}

Forget ==
    /\ \E m \in Forgettable : receipts' = receipts \ {m}
    /\ UNCHANGED <<observed, quarantined, consumerVars, busVars, faults>>

NormStep(c) ==
    \/ ClaimStale(c) \/ ReadGroup(c)
    \/ \E m \in Messages : \/ Persist(c, m) \/ Refuse(c, m)
                          \/ Ack(c, m) \/ Quarantine(c, m)

NormFault(c) ==
    \/ FetchRaises(c) \/ NormCrash(c)
    \/ \E m \in Messages : \/ PersistRaises(c, m) \/ AckRaises(c, m)
                          \/ QuarantineRaises(c, m)

NormNext ==
    \/ \E c \in Consumers : NormStep(c) \/ NormFault(c)
    \/ (\E m \in Messages : Age(m)) /\ UNCHANGED normVars
    \/ Forget

\* Some producer, here or elsewhere.
Arrive == Add /\ UNCHANGED <<normVars, faults>>

\* The normalizers with any producer.
NormSpec ==
    BusInit /\ NormInit /\ [][NormNext \/ Arrive]_<<normVars, busVars, faults>>

-----------------------------------------------------------------------------
(* Properties                                                              *)
NormTypes ==
    /\ receipts \subseteq Messages
    /\ observed \in [Messages -> Nat]
    /\ quarantined \subseteq Messages
    /\ normAt \in [Consumers -> {"claim", "read", "persist", "ack", "quarantine"}]
    /\ batch \in [Consumers -> SUBSET Messages]
    /\ reclaimed \in [Consumers -> BOOLEAN]

\* Types; a consumer processes messages exactly while it has some.
NormTypeOK ==
    /\ BusTypes /\ NormTypes
    /\ \A c \in Consumers : (batch[c] = {}) <=> (normAt[c] \in {"claim", "read"})

\* However often a message is delivered, recovered and processed, and however
\* many consumers are at it, it yields one observation.
ObservedOnce == \A m \in Messages : observed[m] <= 1

\* A message leaves the group only after it was observed or quarantined.
NothingLost ==
    \A m \in Messages : entry[m] = "acked" => observed[m] = 1 \/ m \in quarantined

=============================================================================
