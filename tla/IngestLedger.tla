---------------------------- MODULE IngestLedger ----------------------------
(***************************************************************************)
(* Sealed-event acceptance, the durable processing receipts behind it, and *)
(* the projection of accepted events, for ONE tenant and ONE workflow (all *)
(* the rows below are keyed by that pair in the code).  Four kinds of      *)
(* actors share the database:                                              *)
(*                                                                         *)
(*   Handlers    an API request in ingest_events: acceptance transaction,  *)
(*               wake-up of earlier receipts, then a synchronous tick      *)
(*   Workers     the supervised loop run_ingest_processing_worker          *)
(*   Projectors  run_projection_core (catch-up worker or POST run)         *)
(*   Retriers    retry_dlq_item (POST of one dead-letter row) and          *)
(*               replay_events (POST of a range)                           *)
(*                                                                         *)
(* One action is one committed transaction (or one statement outside any   *)
(* transaction), so an actor may crash, and others may run, between any    *)
(* two of them.  Wall-clock deadlines (lease_expires_at, next_attempt_at)  *)
(* are the two-valued fields lease and due: time may pass at any moment.   *)
(***************************************************************************)
EXTENDS Naturals, FiniteSets

CONSTANTS
    Events,        \* client_event_id values; also the telemetry_events rows
    Groups,        \* (content_type, event_type) pairs of the workflow
    GroupOf,       \* [Events -> Groups]
    Handlers, Workers, Projectors, Retriers,
    Nobody,        \* SQL NULL in an owner column
    MaxAttempts,   \* ingest_processing_batches.max_attempts (10 in the code)
    MaxRetries     \* projection_dlq.max_attempts

Owners == Handlers \cup Workers

ASSUME GroupAssumption  == IsFiniteSet(Events) /\ GroupOf \in [Events -> Groups]
ASSUME BoundAssumption  == MaxAttempts \in Nat \ {0} /\ MaxRetries \in Nat
ASSUME ActorAssumption  == /\ Handlers \cap Workers = {}
                           /\ Nobody \notin Owners \cup Projectors \cup Retriers

\* A receipt is identified by the set of events it stands for: dedupe_key is a
\* hash of the event ids, and they never change afterwards (sql/024 trigger).
Batch == (SUBSET Events) \ {{}}
NoJob == [batch |-> {}, attempts |-> 0]

VARIABLES
    pos,      \* order of telemetry_events.created_at; 0 = not accepted
    fence,    \* holder of the acceptance fence (advisory transaction lock)
    phase,    \* where each request handler and worker is
    request,  \* the events of a handler's request
    stamp,    \* created_at of the rows a handler has inserted, uncommitted
    ids,      \* the receipts an actor's current tick may claim
    job,      \* the claim it is executing: receipt and attempt number
    receipts, \* ingest_processing_batches
    done,     \* events with their source rows in stream_results
    dlq,      \* the newest projection_dlq row of each event
    cursor,   \* projection_checkpoints: position of the last tuple
    lease,    \* holder of the projection lease (advisory session lock)
    snapshot, \* the page of events a projector is executing
    retrying  \* what each retry call is doing

acceptVars == <<pos, fence, request, stamp>>
tickVars   == <<phase, ids, job>>
projVars   == <<lease, snapshot>>
vars == <<acceptVars, tickVars, receipts, done, dlq, cursor, projVars, retrying>>

Phases   == {"idle", "inserting", "waking", "ticking", "claiming", "executing"}
Statuses == {"absent", "queued", "running", "retry_scheduled", "completed", "failed"}

Absent == [status |-> "absent", attempts |-> 0, owner |-> Nobody,
           lease |-> "none", due |-> FALSE, error |-> "none"]
Queued == [Absent EXCEPT !.status = "queued", !.due = TRUE]
NoRow  == [status |-> "none", attempts |-> 0, owner |-> Nobody, lease |-> "none"]
NotRetrying == [event |-> Nobody, step |-> "idle"]

Accepted(e) == pos[e] > 0
Exists(b)   == receipts[b].status # "absent"

Init ==
    /\ pos = [e \in Events |-> 0]
    /\ fence = Nobody
    /\ phase = [o \in Owners |-> "idle"]
    /\ request = [h \in Handlers |-> {}]
    /\ stamp = [h \in Handlers |-> [e \in Events |-> 0]]
    /\ ids = [o \in Owners |-> {}]
    /\ job = [o \in Owners |-> NoJob]
    /\ receipts = [b \in Batch |-> Absent]
    /\ done = {}
    /\ dlq = [e \in Events |-> NoRow]
    /\ cursor = 0
    /\ lease = Nobody
    /\ snapshot = [p \in Projectors |-> {}]
    /\ retrying = [r \in Retriers |-> NotRetrying]

-----------------------------------------------------------------------------
(* Acceptance: one transaction under the acceptance fence. *)

\* Mutant: the advisory lock is not taken.
UnlockedAlways(f) == TRUE

Unlocked(f) == fence = f

\* created_at is past every created_at handed out before, committed or not:
\* GREATEST(clock_timestamp(), MAX(existing) + 1 microsecond).
Used == {pos[e] : e \in Events} \cup {stamp[h][e] : h \in Handlers, e \in Events}
Stamps(new) ==
    {st \in UNION {[new -> (top + 1)..(top + Cardinality(new))] :
                    top \in {t \in Used : \A u \in Used : u <= t}} :
        \A e, f \in new : st[e] = st[f] => e = f}

\* ingest_events up to the end of the inserts: the duplicates of R keep their
\* row (ON CONFLICT DO NOTHING), the others are inserted, not yet committed.
BeginAcceptance(h, R) ==
    /\ phase[h] = "idle"
    /\ Unlocked(Nobody)
    /\ fence' = h
    /\ phase' = [phase EXCEPT ![h] = "inserting"]
    /\ request' = [request EXCEPT ![h] = R]
    /\ \E st \in Stamps({e \in R : ~Accepted(e)}) :
         stamp' = [stamp EXCEPT ![h] =
                     [e \in Events |-> IF e \in R /\ ~Accepted(e) THEN st[e] ELSE 0]]
    /\ UNCHANGED <<pos, ids, job, receipts, done, dlq, cursor, projVars, retrying>>

\* Mutant: receipts for the whole request, its duplicates included.
NewBatchesOfRequest(h) ==
    {b \in Batch : \E g \in Groups : b = {e \in request[h] : GroupOf[e] = g}}

\* The new events of one wire shape: one receipt each.
NewBatches(h) ==
    {b \in Batch : \E g \in Groups :
        b = {e \in Events : stamp[h][e] > 0 /\ GroupOf[e] = g}}

\* Commit: events and receipts become visible together and the fence is free.
CommitAcceptance(h) ==
    /\ phase[h] = "inserting"
    /\ fence' = Nobody
    /\ pos' = [e \in Events |-> IF stamp[h][e] > 0 THEN stamp[h][e] ELSE pos[e]]
    /\ receipts' = [b \in Batch |->
         IF b \in NewBatches(h) /\ ~Exists(b) THEN Queued ELSE receipts[b]]
    /\ ids' = [ids EXCEPT ![h] = NewBatches(h)]
    /\ phase' = [phase EXCEPT ![h] = IF NewBatches(h) = {} THEN "waking" ELSE "ticking"]
    /\ stamp' = [stamp EXCEPT ![h] = [e \in Events |-> 0]]
    /\ UNCHANGED <<request, job, done, dlq, cursor, projVars, retrying>>

\* A conflicting fingerprint, a reused nonce or a failed audit insert aborts
\* the whole transaction.
RollbackAcceptance(h) ==
    /\ phase[h] = "inserting"
    /\ fence' = Nobody
    /\ stamp' = [stamp EXCEPT ![h] = [e \in Events |-> 0]]
    /\ request' = [request EXCEPT ![h] = {}]
    /\ phase' = [phase EXCEPT ![h] = "idle"]
    /\ UNCHANGED <<pos, ids, job, receipts, done, dlq, cursor, projVars, retrying>>

\* An all-duplicate request finds the receipts it covers, group by group.
CoveredBy(h) ==
    {b \in Batch : Exists(b) /\ \E g \in Groups :
        b \subseteq {e \in request[h] : GroupOf[e] = g}}

\* Mutant: the wake-up revives settled receipts, not failed ones only.
RevivedSettled(r) ==
    IF r.status \in {"failed", "completed"}
    THEN [r EXCEPT !.status = "queued", !.attempts = 0, !.due = TRUE, !.error = "none"]
    ELSE [r EXCEPT !.due = @ \/ r.status = "retry_scheduled"]

Revived(r) ==
    IF r.status = "failed"
    THEN [r EXCEPT !.status = "queued", !.attempts = 0, !.due = TRUE, !.error = "none"]
    ELSE IF r.status \in {"queued", "retry_scheduled"} THEN [r EXCEPT !.due = TRUE] ELSE r

WakeReceipts(h) ==
    /\ phase[h] = "waking"
    /\ receipts' = [b \in Batch |->
         IF b \in CoveredBy(h) THEN Revived(receipts[b]) ELSE receipts[b]]
    /\ ids' = [ids EXCEPT ![h] = CoveredBy(h)]
    /\ phase' = [phase EXCEPT ![h] = IF CoveredBy(h) = {} THEN "idle" ELSE "ticking"]
    /\ request' = IF CoveredBy(h) = {} THEN [request EXCEPT ![h] = {}] ELSE request
    /\ UNCHANGED <<pos, fence, stamp, job, done, dlq, cursor, projVars, retrying>>

-----------------------------------------------------------------------------
(* tick_ingest_processing, run by workers over every receipt and by        *)
(* request handlers over the receipts of their own request.                *)

\* Mutant: recovery looks only for receipts that may be tried again.
LapsedRetryable(r) ==
    r.status = "running" /\ r.lease = "expired" /\ r.attempts < MaxAttempts

Lapsed(r) == r.status = "running" /\ r.lease = "expired"

\* _recover_expired_processing_leases: one UPDATE at the head of each tick.
Recovered(r) ==
    [r EXCEPT !.status = IF r.attempts >= MaxAttempts THEN "failed" ELSE "retry_scheduled",
              !.owner = Nobody, !.lease = "none", !.due = TRUE,
              !.error = "lease_expired"]

RecoverExpired ==
    receipts' = [b \in Batch |->
        IF Lapsed(receipts[b]) THEN Recovered(receipts[b]) ELSE receipts[b]]

StartTick(o) ==
    /\ phase[o] = IF o \in Workers THEN "idle" ELSE "ticking"
    /\ RecoverExpired
    /\ ids' = IF o \in Workers THEN [ids EXCEPT ![o] = Batch] ELSE ids
    /\ phase' = [phase EXCEPT ![o] = "claiming"]
    /\ UNCHANGED <<acceptVars, job, done, dlq, cursor, projVars, retrying>>

Claimable(b) ==
    /\ receipts[b].status \in {"queued", "retry_scheduled"}
    /\ receipts[b].due
    /\ receipts[b].attempts < MaxAttempts

ClaimedBy(r, o) ==
    [r EXCEPT !.status = "running", !.attempts = r.attempts + 1, !.owner = o,
              !.lease = "live", !.error = "none"]

Claim(o, b) ==
    /\ phase[o] = "claiming"
    /\ b \in ids[o]
    /\ Claimable(b)
    /\ receipts' = [receipts EXCEPT ![b] = ClaimedBy(receipts[b], o)]
    /\ job' = [job EXCEPT ![o] = [batch |-> b, attempts |-> receipts[b].attempts + 1]]
    /\ ids' = IF o \in Handlers THEN [ids EXCEPT ![o] = @ \ {b}] ELSE ids
    /\ phase' = [phase EXCEPT ![o] = "executing"]
    /\ UNCHANGED <<acceptVars, done, dlq, cursor, projVars, retrying>>

\* No row is left to claim: the tick ends and a handler answers its client.
EndTick(o) ==
    /\ phase[o] = "claiming"
    /\ \A b \in ids[o] : ~Claimable(b)
    /\ phase' = [phase EXCEPT ![o] = "idle"]
    /\ ids' = [ids EXCEPT ![o] = {}]
    /\ request' = IF o \in Handlers THEN [request EXCEPT ![o] = {}] ELSE request
    /\ UNCHANGED <<pos, fence, stamp, job, receipts, done, dlq, cursor, projVars, retrying>>

\* WHERE status = 'running' AND lease_owner = me AND attempts = my attempt
HoldsClaim(o) ==
    /\ phase[o] = "executing"
    /\ receipts[job[o].batch].status = "running"
    /\ receipts[job[o].batch].owner = o
    /\ receipts[job[o].batch].attempts = job[o].attempts

WithLease(r, l) == [r EXCEPT !.lease = l]

Heartbeat(o) ==
    LET b == job[o].batch IN
    /\ HoldsClaim(o)
    /\ receipts[b].lease = "expired"
    /\ receipts' = [receipts EXCEPT ![b] = WithLease(receipts[b], "live")]
    /\ UNCHANGED <<acceptVars, tickVars, done, dlq, cursor, projVars, retrying>>

\* upsert_projection_results: one row per source event, replaced on conflict.
UpsertResults(S) == done' = done \cup S

\* advance_checkpoint: to the last tuple of S, never backwards.
AdvanceCursor(S) ==
    \E last \in S :
        /\ \A e \in S : pos[e] <= pos[last]
        /\ cursor' = IF pos[last] > cursor THEN pos[last] ELSE cursor

\* Mutant: a row under retry is closed like any other.
ClosableLeased(d) == d.status = "open"

\* resolve_projection_dlq_for_events leaves rows alone while a retry has them.
Closable(d) == d.status = "open" /\ (d.owner = Nobody \/ d.lease = "expired")
Closed      == [NoRow EXCEPT !.status = "resolved"]
ResolveDlq(S) ==
    dlq' = [e \in Events |-> IF e \in S /\ Closable(dlq[e]) THEN Closed ELSE dlq[e]]

\* enqueue_projection_dlq: one open row per event, kept as it is if there is one.
EnqueueDlq(S) ==
    dlq' = [e \in Events |-> IF e \in S /\ dlq[e].status # "open"
                             THEN [NoRow EXCEPT !.status = "open"] ELSE dlq[e]]

FinishJob(o) ==
    /\ phase' = [phase EXCEPT ![o] = "claiming"]
    /\ job' = [job EXCEPT ![o] = NoJob]
    /\ UNCHANGED ids

Completed(r) ==
    [r EXCEPT !.status = "completed", !.owner = Nobody, !.lease = "none", !.error = "none"]

\* The success transaction: results, dead letters, cursor and receipt together;
\* a lost fence raises and rolls all of it back.
CompleteBatch(o) ==
    LET b == job[o].batch IN
    /\ HoldsClaim(o)
    /\ UpsertResults(b)
    /\ ResolveDlq(b)
    /\ AdvanceCursor(b)
    /\ receipts' = [receipts EXCEPT ![b] = Completed(receipts[b])]
    /\ FinishJob(o)
    /\ UNCHANGED <<acceptVars, projVars, retrying>>

Failed(r) ==
    [r EXCEPT !.status = IF r.attempts >= MaxAttempts THEN "failed" ELSE "retry_scheduled",
              !.owner = Nobody, !.lease = "none", !.due = FALSE, !.error = "processing"]

\* _persist_processing_failure: the flow raised or reported failure, the
\* heartbeat saw its lease go, or the success transaction raised.
FailBatch(o) ==
    LET b == job[o].batch IN
    /\ HoldsClaim(o)
    /\ EnqueueDlq(b)
    /\ receipts' = [receipts EXCEPT ![b] = Failed(receipts[b])]
    /\ FinishJob(o)
    /\ UNCHANGED <<acceptVars, done, cursor, projVars, retrying>>

\* Neither transaction goes through, because the fence is lost or because the
\* database refuses the second one too: the row is left as it is.
AbandonBatch(o) ==
    /\ phase[o] = "executing"
    /\ FinishJob(o)
    /\ UNCHANGED <<acceptVars, receipts, done, dlq, cursor, projVars, retrying>>

-----------------------------------------------------------------------------
(* run_projection_core: catch-up behind the cursor, one projector at a time. *)

\* The page after the cursor, read while no acceptance is in flight.
TakeSnapshot(p) ==
    /\ lease = Nobody
    /\ Unlocked(Nobody)
    /\ \E last \in Events :
         /\ pos[last] > cursor
         /\ snapshot' = [snapshot EXCEPT ![p] =
                           {e \in Events : cursor < pos[e] /\ pos[e] <= pos[last]}]
    /\ lease' = p
    /\ UNCHANGED <<acceptVars, tickVars, receipts, done, dlq, cursor, retrying>>

EndProjection(p) ==
    /\ lease' = Nobody
    /\ snapshot' = [snapshot EXCEPT ![p] = {}]

ProjectPage(p) ==
    /\ lease = p
    /\ UpsertResults(snapshot[p])
    /\ ResolveDlq(snapshot[p])
    /\ AdvanceCursor(snapshot[p])
    /\ EndProjection(p)
    /\ UNCHANGED <<acceptVars, tickVars, receipts, retrying>>

\* A failed page is handed to the dead letters and the cursor passes it.
FailPage(p) ==
    /\ lease = p
    /\ EnqueueDlq(snapshot[p])
    /\ AdvanceCursor(snapshot[p])
    /\ EndProjection(p)
    /\ UNCHANGED <<acceptVars, tickVars, receipts, done, retrying>>

-----------------------------------------------------------------------------
(* retry_dlq_item *)

LeasedBy(d, r) == [d EXCEPT !.attempts = d.attempts + 1, !.owner = r, !.lease = "live"]
Released(d)    == [d EXCEPT !.owner = Nobody, !.lease = "none"]

ClaimDlq(r, e) ==
    /\ retrying[r] = NotRetrying
    /\ dlq[e].status = "open"
    /\ dlq[e].attempts < MaxRetries
    /\ dlq[e].owner = Nobody \/ dlq[e].lease = "expired"
    /\ dlq' = [dlq EXCEPT ![e] = LeasedBy(dlq[e], r)]
    /\ retrying' = [retrying EXCEPT ![r] = [event |-> e, step |-> "executing"]]
    /\ UNCHANGED <<acceptVars, tickVars, receipts, done, cursor, projVars>>

\* The result rows are written in a transaction of their own.
ReprojectEvent(r) ==
    /\ retrying[r].step = "executing"
    /\ UpsertResults({retrying[r].event})
    /\ retrying' = [retrying EXCEPT ![r].step = "projected"]
    /\ UNCHANGED <<acceptVars, tickVars, receipts, dlq, cursor, projVars>>

HoldsRow(r) == retrying[r].step # "idle" /\ dlq[retrying[r].event].owner = r

\* Mutant: the row is closed without waiting for the results.
CloseDlqEarly(r) ==
    /\ HoldsRow(r)
    /\ dlq' = [dlq EXCEPT ![retrying[r].event] = Closed]
    /\ retrying' = [retrying EXCEPT ![r] = NotRetrying]
    /\ UNCHANGED <<acceptVars, tickVars, receipts, done, cursor, projVars>>

CloseDlq(r) ==
    /\ retrying[r].step = "projected"
    /\ HoldsRow(r)
    /\ dlq' = [dlq EXCEPT ![retrying[r].event] = Closed]
    /\ retrying' = [retrying EXCEPT ![r] = NotRetrying]
    /\ UNCHANGED <<acceptVars, tickVars, receipts, done, cursor, projVars>>

\* Any error, the lost lease included: release the row if it is still ours.
ReleaseDlq(r) ==
    LET e == retrying[r].event IN
    /\ retrying[r].step # "idle"
    /\ dlq' = IF HoldsRow(r) THEN [dlq EXCEPT ![e] = Released(dlq[e])] ELSE dlq
    /\ retrying' = [retrying EXCEPT ![r] = NotRetrying]
    /\ UNCHANGED <<acceptVars, tickVars, receipts, done, cursor, projVars>>

-----------------------------------------------------------------------------
(* replay_events: an operator runs a range of accepted events once more,    *)
(* beside whatever else happens to them.  What it reads of them before the  *)
(* flow never changes, so the reading is told with the writing.             *)

\* The rows are replaced; dead letters and checkpoint stay as they are.
ReplayRange(r, S) ==
    /\ retrying[r] = NotRetrying
    /\ S # {} /\ \A e \in S : Accepted(e)
    /\ UpsertResults(S)
    /\ UNCHANGED <<acceptVars, tickVars, receipts, dlq, cursor, projVars, retrying>>

\* A flow that failed leaves a dead letter per event, each in its own statement.
ReplayFails(r, e) ==
    /\ retrying[r] = NotRetrying
    /\ Accepted(e)
    /\ EnqueueDlq({e})
    /\ UNCHANGED <<acceptVars, tickVars, receipts, done, cursor, projVars, retrying>>

-----------------------------------------------------------------------------
(* The environment: crashes and the clock. *)

\* The process dies: its open transaction rolls back, its rows stay leased.
CrashOwner(o) ==
    /\ phase[o] # "idle"
    /\ phase' = [phase EXCEPT ![o] = "idle"]
    /\ ids' = [ids EXCEPT ![o] = {}]
    /\ job' = [job EXCEPT ![o] = NoJob]
    /\ fence' = IF fence = o THEN Nobody ELSE fence
    /\ request' = IF o \in Handlers THEN [request EXCEPT ![o] = {}] ELSE request
    /\ stamp' = IF o \in Handlers THEN [stamp EXCEPT ![o] = [e \in Events |-> 0]] ELSE stamp
    /\ UNCHANGED <<pos, receipts, done, dlq, cursor, projVars, retrying>>

\* Losing the connection releases the session lock with it.
CrashProjector(p) ==
    /\ lease = p
    /\ EndProjection(p)
    /\ UNCHANGED <<acceptVars, tickVars, receipts, done, dlq, cursor, retrying>>

CrashRetrier(r) ==
    /\ retrying[r].step # "idle"
    /\ retrying' = [retrying EXCEPT ![r] = NotRetrying]
    /\ UNCHANGED <<acceptVars, tickVars, receipts, done, dlq, cursor, projVars>>

ExpireLease(b) ==
    /\ receipts[b].lease = "live"
    /\ receipts' = [receipts EXCEPT ![b] = WithLease(receipts[b], "expired")]
    /\ UNCHANGED <<acceptVars, tickVars, done, dlq, cursor, projVars, retrying>>

BecomeDue(b) ==
    /\ receipts[b].status = "retry_scheduled" /\ ~receipts[b].due
    /\ receipts' = [receipts EXCEPT ![b] = [receipts[b] EXCEPT !.due = TRUE]]
    /\ UNCHANGED <<acceptVars, tickVars, done, dlq, cursor, projVars, retrying>>

ExpireDlqLease(e) ==
    /\ dlq[e].lease = "live"
    /\ dlq' = [dlq EXCEPT ![e] = WithLease(dlq[e], "expired")]
    /\ UNCHANGED <<acceptVars, tickVars, receipts, done, cursor, projVars, retrying>>

-----------------------------------------------------------------------------
HandlerStep(h) ==
    \/ \E R \in (SUBSET Events) \ {{}} : BeginAcceptance(h, R)
    \/ CommitAcceptance(h)
    \/ RollbackAcceptance(h)
    \/ WakeReceipts(h)

TickStep(o) ==
    \/ StartTick(o)
    \/ \E b \in Batch : Claim(o, b)
    \/ EndTick(o)
    \/ Heartbeat(o)
    \/ CompleteBatch(o)
    \/ FailBatch(o)
    \/ AbandonBatch(o)
    \/ CrashOwner(o)

ProjectorStep(p) ==
    \/ TakeSnapshot(p)
    \/ ProjectPage(p)
    \/ FailPage(p)
    \/ CrashProjector(p)

RetrierStep(r) ==
    \/ \E e \in Events : ClaimDlq(r, e)
    \/ ReprojectEvent(r)
    \/ CloseDlq(r)
    \/ ReleaseDlq(r)
    \/ CrashRetrier(r)
    \/ \E S \in SUBSET Events : ReplayRange(r, S)
    \/ \E e \in Events : ReplayFails(r, e)

ClockStep ==
    \/ \E b \in Batch : ExpireLease(b) \/ BecomeDue(b)
    \/ \E e \in Events : ExpireDlqLease(e)

Next ==
    \/ \E h \in Handlers : HandlerStep(h)
    \/ \E o \in Owners : TickStep(o)
    \/ \E p \in Projectors : ProjectorStep(p)
    \/ \E r \in Retriers : RetrierStep(r)
    \/ ClockStep

Spec == Init /\ [][Next]_vars

-----------------------------------------------------------------------------
(* Properties. *)

Columns == [status : Statuses, attempts : Nat, owner : Owners \cup {Nobody},
            lease : {"none", "live", "expired"}, due : BOOLEAN,
            error : {"none", "processing", "lease_expired"}]

\* The CHECK constraints of sql/024 on status, attempts and lease.
Row == {r \in Columns :
          /\ r.attempts <= MaxAttempts
          /\ r.status = "running" <=> r.owner # Nobody
          /\ r.status = "running" <=> r.lease # "none"}

\* Only an open dead letter is ever leased.
DlqRow == {d \in [status : {"none", "open", "resolved"}, attempts : Nat,
                  owner : Retriers \cup {Nobody}, lease : {"none", "live", "expired"}] :
             /\ d.status # "open" => d.owner = Nobody
             /\ d.owner = Nobody <=> d.lease = "none"}

\* Rows keep the shape the schema demands through every interleaving of claims,
\* lost leases and retries; the other variables have their types.
TypeOK ==
    /\ pos \in [Events -> Nat]
    /\ fence \in Handlers \cup {Nobody}
    /\ phase \in [Owners -> Phases]
    /\ request \in [Handlers -> SUBSET Events]
    /\ stamp \in [Handlers -> [Events -> Nat]]
    /\ ids \in [Owners -> SUBSET Batch]
    /\ job \in [Owners -> [batch : SUBSET Events, attempts : Nat]]
    /\ receipts \in [Batch -> Row]
    /\ done \subseteq Events
    /\ dlq \in [Events -> DlqRow]
    /\ cursor \in Nat
    /\ lease \in Projectors \cup {Nobody}
    /\ snapshot \in [Projectors -> SUBSET Events]
    /\ retrying \in [Retriers -> {NotRetrying} \cup
                                  [event : Events, step : {"executing", "projected"}]]

\* Acceptance is all or nothing: every accepted event is in exactly one durable
\* receipt and no receipt names an event that was not accepted, whatever the
\* duplicates in a request, the rollbacks and the crashes (ingest_events).
ReceiptsPartitionEvents ==
    /\ \A b \in Batch : Exists(b) => \A e \in b : Accepted(e)
    /\ \A e \in Events : Accepted(e) => \E b \in Batch : Exists(b) /\ e \in b
    /\ \A b, c \in Batch : Exists(b) /\ Exists(c) /\ b # c => b \cap c = {}

\* A client that polls a receipt and reads "completed" finds the results of all
\* its events (the success transaction of _process_claimed_batch).
CompletedIsProjected ==
    \A b \in Batch : receipts[b].status = "completed" => b \subseteq done

\* A dead letter is closed only once its event has results, whoever closes it:
\* a live batch, the projector or a retry that may have lost its lease.
ResolvedIsProjected ==
    \A e \in Events : dlq[e].status = "resolved" => e \in done

Replayable(e)   == e \in done \/ dlq[e].status = "open"
InProgress(b)   == receipts[b].status \in {"queued", "running", "retry_scheduled"}
LostItsLease(b) == receipts[b].status = "failed" /\ receipts[b].error = "lease_expired"

\* No accepted event is forgotten: it has results, or an open dead letter, or a
\* receipt some worker will still run, unless its receipt was failed by lease
\* recovery.  A failure that was persisted always left its dead letters behind
\* (_persist_processing_failure), however the cursor was moved meanwhile.
NoEventForgotten ==
    \A b \in Batch : Exists(b) =>
        \/ InProgress(b)
        \/ LostItsLease(b)
        \/ \A e \in b : Replayable(e)

\* What the comment in ingest_events promises of a crash ("a crash can no longer
\* orphan an accepted event because the leased recovery worker owns the durable
\* row"): an event the projection cursor has passed still has results, a dead
\* letter or a receipt in progress.
NoOrphan ==
    \A b \in Batch : Exists(b) =>
        \A e \in b : pos[e] <= cursor => Replayable(e) \/ InProgress(b)

\* The tuple checkpoint never moves back, whichever of the live batches and the
\* projector, finishing in any order, writes it (advance_checkpoint).
CursorOnlyAdvances == [][cursor' >= cursor]_vars

\* An acceptance never commits an event at or behind the checkpoint, where the
\* projector would not see it: the purpose of the acceptance fence.
NothingCommitsBehindCursor ==
    [][\A e \in Events : ~Accepted(e) /\ Accepted(e)' => pos'[e] > cursor']_vars

\* A running receipt is settled by the claim that runs it or, once its lease
\* has expired, by lease recovery: a worker that lost its claim changes nothing.
OnlyClaimantSettles ==
    [][\A b \in Batch :
         (receipts[b].status = "running" /\ receipts'[b].status # "running") =>
            \/ Lapsed(receipts[b]) /\ receipts'[b].error = "lease_expired"
            \/ \E o \in Owners : /\ receipts[b].owner = o
                                 /\ job[o] = [batch |-> b, attempts |-> receipts[b].attempts]
                                 /\ job'[o] = NoJob]_vars

\* Nothing brings a completed receipt back: neither a client retry, nor lease
\* recovery, nor a stale worker that reports failure late.
CompletedIsFinal ==
    [][\A b \in Batch : receipts[b].status = "completed" =>
                           receipts'[b].status = "completed"]_vars

\* While a dead-letter retry holds a live lease only that retry changes the
\* row: live batches and the projector leave it alone until the lease expires.
RetryLeaseRespected ==
    [][\A r \in Retriers, e \in Events :
         (dlq[e].owner = r /\ dlq[e].lease = "live" /\ dlq'[e] # dlq[e]) =>
            \/ dlq'[e] = WithLease(dlq[e], "expired")
            \/ retrying[r].event = e /\ retrying'[r] = NotRetrying]_vars

-----------------------------------------------------------------------------
(* The ledger implements the contract of its receipts. *)

Stage(r) ==
    CASE r.status \in {"queued", "running", "retry_scheduled"} -> "open"
      [] OTHER -> r.status

Contract == INSTANCE ReceiptContract WITH
                receipt <- [b \in Batch |-> Stage(receipts[b])], projected <- done

\* Every behaviour of the ledger, with its leases, crashes, retries and two
\* projection paths, is one the API contract allows: receipts open together
\* for disjoint sets of new events, complete once and with all their results,
\* and only events of a receipt are ever projected.
ImplementsContract == Contract!Spec

-----------------------------------------------------------------------------
(* Liveness, once flows stop dying and clients pause. *)

Settled(b) == receipts[b].status \in {"completed", "failed"}

\* The supervised loop keeps ticking, a flow returns (its engine calls have
\* timeouts), the ordered claim passes over no receipt for ever, and time passes.
Fairness ==
    /\ \A w \in Workers :
         /\ WF_vars(StartTick(w))
         /\ WF_vars(EndTick(w))
         /\ \A b \in Batch : SF_vars(Claim(w, b))
    /\ \A o \in Owners : WF_vars(CompleteBatch(o) \/ FailBatch(o) \/ AbandonBatch(o))
    /\ \A b \in Batch : WF_vars(ExpireLease(b)) /\ WF_vars(BecomeDue(b))

\* Crashes outside a flow may go on for ever.
Quiet == /\ ~ \E o \in Owners : phase[o] = "executing" /\ CrashOwner(o)
         /\ ~ \E h \in Handlers, R \in (SUBSET Events) \ {{}} : BeginAcceptance(h, R)

LiveSpec == Spec /\ Fairness /\ <>[][Quiet]_vars

\* Every receipt is eventually completed or failed, whatever happened to the
\* request that created it and however often its workers crashed before.
EveryReceiptSettles ==
    \A b \in Batch : Exists(b) ~> Settled(b)
=============================================================================
