----------------------------- MODULE OutboxRelay -----------------------------
(***************************************************************************)
(* One row of outbox_events and the relays that move it to the stream      *)
(* (engine/src/data_plane/tasks/outbox_relay.rs, db.rs): lease the row,    *)
(* XADD its payload, mark it published, or record the failure.             *)
(*                                                                         *)
(* A relay waits for the whole batch before it claims again, so rows are   *)
(* independent and one is enough.  An action is one statement or one XADD. *)
(***************************************************************************)
EXTENDS StreamBus

CONSTANTS
    Relays,       \* processes that run the relay role
    Nobody,       \* lease_owner IS NULL
    Former,       \* the owner id of a process that has stopped
    MaxAttempts   \* MAX_ATTEMPTS

ASSUME RelayAssumption == /\ MaxAttempts \in Nat \ {0}
                          /\ Nobody \notin Relays /\ Former \notin Relays
                          /\ Nobody # Former

VARIABLES
    row,        \* "none" before, "present", "deleted" after the row
    published,  \* is_published
    dead,       \* dlq_at IS NOT NULL
    attempts,   \* attempts
    owner,      \* lease_owner
    ripe,       \* available_at has come and no lease is running
    relayAt     \* where each relay is

rowVars == <<row, published, dead, attempts, owner, ripe>>
relayVars == <<rowVars, relayAt>>

RelayInit ==
    /\ row = "none"
    /\ published = FALSE
    /\ dead = FALSE
    /\ attempts = 0
    /\ owner = Nobody
    /\ ripe = FALSE
    /\ relayAt = [r \in Relays |-> "tick"]

RelayGoes(r, place) == relayAt' = [relayAt EXCEPT ![r] = place]

\* A producer inserts the row.
Insert ==
    /\ row = "none"
    /\ row' = "present"
    /\ ripe' = TRUE
    /\ UNCHANGED <<published, dead, attempts, owner, relayAt, busVars, faults>>

-----------------------------------------------------------------------------
(* claim_pending, mark_published and record_failure                        *)
\* Mutant: a row whose lease was never given back is left alone.
PendingUnleased ==
    /\ row = "present" /\ ~published /\ ~dead
    /\ attempts < MaxAttempts
    /\ ripe /\ owner = Nobody

Pending ==
    /\ row = "present" /\ ~published /\ ~dead
    /\ attempts < MaxAttempts
    /\ ripe

Lease(r) ==
    /\ owner' = r
    /\ ripe' = FALSE
    /\ UNCHANGED <<row, published, dead, attempts>>

Owns(r) == row = "present" /\ owner = r

MarkPublished(r) ==
    \/ /\ Owns(r)
       /\ published' = TRUE
       /\ owner' = Nobody
       /\ ripe' = TRUE
       /\ UNCHANGED <<row, dead, attempts>>
    \/ ~Owns(r) /\ UNCHANGED rowVars

\* Mutant: the failure being recorded is not counted.
ExhaustedLate == attempts >= MaxAttempts

Exhausted == attempts + 1 >= MaxAttempts

RecordFailure(r) ==
    \/ /\ Owns(r)
       /\ attempts' = attempts + 1
       /\ dead' = (dead \/ Exhausted)
       /\ owner' = Nobody
       /\ ripe' = FALSE
       /\ UNCHANGED <<row, published>>
    \/ ~Owns(r) /\ UNCHANGED rowVars

-----------------------------------------------------------------------------
(* tick                                                                    *)
ClaimPending(r) ==
    /\ relayAt[r] = "tick"
    /\ Pending
    /\ Lease(r)
    /\ RelayGoes(r, "send")
    /\ UNCHANGED <<busVars, faults>>

\* The tick fails; the row may be leased all the same.
ClaimRaises(r) ==
    /\ relayAt[r] = "tick"
    /\ Pending /\ Lease(r)
    /\ Fault("raise")
    /\ UNCHANGED <<relayAt, busVars>>

Send(r) ==
    /\ relayAt[r] = "send"
    /\ Add
    /\ RelayGoes(r, "mark")
    /\ UNCHANGED <<rowVars, faults>>

SendRaises(r) ==
    /\ relayAt[r] = "send"
    /\ Fault("raise")
    /\ Add \/ UNCHANGED busVars
    /\ RelayGoes(r, "fail")
    /\ UNCHANGED rowVars

Mark(r) ==
    /\ relayAt[r] = "mark"
    /\ MarkPublished(r)
    /\ RelayGoes(r, "tick")
    /\ UNCHANGED <<busVars, faults>>

Fail(r) ==
    /\ relayAt[r] = "fail"
    /\ RecordFailure(r)
    /\ RelayGoes(r, "tick")
    /\ UNCHANGED <<busVars, faults>>

\* The completion or failure update is lost; that is only logged.
UpdateRaises(r) ==
    /\ relayAt[r] \in {"mark", "fail"}
    /\ Fault("raise")
    /\ RelayGoes(r, "tick")
    /\ UNCHANGED <<rowVars, busVars>>

\* The process restarts under another owner id.
RelayCrash(r) ==
    /\ Fault("crash")
    /\ owner' = IF owner = r THEN Former ELSE owner
    /\ RelayGoes(r, "tick")
    /\ UNCHANGED <<row, published, dead, attempts, ripe, busVars>>

\* The backoff or the lease ends.  A lease ends under a relay at work only
\* if that stalls.
AtWork(r) == owner = r /\ relayAt[r] # "tick"

Ripen ==
    /\ row = "present" /\ ~ripe
    /\ ripe' = TRUE
    /\ \/ (\A r \in Relays : ~AtWork(r)) /\ UNCHANGED faults
       \/ (\E r \in Relays : AtWork(r)) /\ Fault("stall")
    /\ UNCHANGED <<row, published, dead, attempts, owner, relayAt, busVars>>

\* run_db_cleanup, long after the row was settled.
Purge ==
    /\ row = "present" /\ (published \/ dead)
    /\ row' = "deleted"
    /\ owner' = Nobody
    /\ UNCHANGED <<published, dead, attempts, ripe, relayAt, busVars, faults>>

RelayStep(r) == ClaimPending(r) \/ Send(r) \/ Mark(r) \/ Fail(r)
RelayFault(r) == ClaimRaises(r) \/ SendRaises(r) \/ UpdateRaises(r) \/ RelayCrash(r)

RelayNext ==
    \/ \E r \in Relays : RelayStep(r) \/ RelayFault(r)
    \/ Insert \/ Ripen \/ Purge

\* The relays with nobody reading the stream.
RelaySpec ==
    BusInit /\ RelayInit /\ [][RelayNext]_<<relayVars, busVars, faults>>

-----------------------------------------------------------------------------
(* Properties                                                              *)
RelayTypes ==
    /\ row \in {"none", "present", "deleted"}
    /\ published \in BOOLEAN
    /\ dead \in BOOLEAN
    /\ attempts \in 0..MaxAttempts
    /\ owner \in Relays \cup {Nobody, Former}
    /\ ripe \in BOOLEAN
    /\ relayAt \in [Relays -> {"tick", "send", "mark", "fail"}]

\* A row that says published has reached the stream at least once.
PublishedIsSent == published => Sent # {}

\* A row is never both published and a dead letter, and one that is neither
\* can still be claimed: no row is stuck between the claim's limit and the
\* limit of record_failure.
RowsDecided ==
    /\ ~(published /\ dead)
    /\ row = "present" /\ ~published /\ ~dead => attempts < MaxAttempts

=============================================================================
