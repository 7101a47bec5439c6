------------------------------ MODULE StreamBus ------------------------------
(***************************************************************************)
(* The telemetry-raw stream of the internode bus and its consumer group    *)
(* (engine/src/data_plane/bus.rs): the operations that the outbox relay    *)
(* and the normalizer perform on it, each atomic in Dragonfly.             *)
(*                                                                         *)
(* Messages are numbered in the order of their stream ids.  That the       *)
(* stream is trimmed at about a million entries is left out.               *)
(***************************************************************************)
EXTENDS Naturals, FiniteSets

CONSTANTS
    MaxMessages,  \* messages there will ever be
    Garbled,      \* messages that decode_message cannot decode or decrypt
    BatchSize,    \* BATCH_SIZE
    Faults,       \* what may go wrong: "crash" (a process stops), "raise" (a
                  \* call fails, with or without effect), "stall" (an outbox
                  \* lease lapses under a working relay)
    MaxFaults     \* bound on how often

Messages == 1..MaxMessages

ASSUME BusAssumption == /\ MaxMessages \in Nat /\ Garbled \subseteq Messages
                        /\ BatchSize \in Nat \ {0}
ASSUME FaultAssumption == /\ MaxFaults \in Nat
                          /\ Faults \subseteq {"crash", "raise", "stall"}

VARIABLES
    entry,   \* each message for the group: "absent", "new", "pending", "acked"
    idle,    \* it is pending for longer than claim_stale's min_idle_ms
    faults   \* faults so far

busVars == <<entry, idle>>

BusInit ==
    /\ entry = [m \in Messages |-> "absent"]
    /\ idle = [m \in Messages |-> FALSE]
    /\ faults = 0

Fault(kind) == kind \in Faults /\ faults < MaxFaults /\ faults' = faults + 1

Sent == {m \in Messages : entry[m] # "absent"}

\* publish: XADD gives the message the next id.
Add ==
    \E m \in Messages \ Sent :
        /\ \A q \in Messages \ Sent : m <= q
        /\ entry' = [entry EXCEPT ![m] = "new"]
        /\ UNCHANGED idle

\* COUNT: the first messages of a set, at most a batch.
FirstOf(S) == {m \in S : Cardinality({q \in S : q < m}) < BatchSize}

\* read_group: XREADGROUP > delivers new messages, undecodable ones too.
Unread == FirstOf({m \in Messages : entry[m] = "new"})

Deliver ==
    /\ entry' = [m \in Messages |-> IF m \in Unread THEN "pending" ELSE entry[m]]
    /\ UNCHANGED idle

\* claim_stale: XAUTOCLAIM from the start of the pending entries.
Stale == FirstOf({m \in Messages : entry[m] = "pending" /\ idle[m]})

Reclaim ==
    /\ idle' = [m \in Messages |-> IF m \in Stale THEN FALSE ELSE idle[m]]
    /\ UNCHANGED entry

\* What of them reaches the caller.
Decoded(S) == S \ Garbled

\* ack: XACK does not ask whose pending entry it is.
Acknowledge(m) ==
    /\ entry' = [entry EXCEPT ![m] = "acked"]
    /\ idle' = [idle EXCEPT ![m] = FALSE]

\* A minute passes since the last delivery.
Age(m) ==
    /\ entry[m] = "pending"
    /\ ~idle[m]
    /\ idle' = [idle EXCEPT ![m] = TRUE]
    /\ UNCHANGED <<entry, faults>>

BusTypes ==
    /\ entry \in [Messages -> {"absent", "new", "pending", "acked"}]
    /\ idle \in [Messages -> BOOLEAN]
    /\ faults \in 0..MaxFaults
=============================================================================
