---------------------------- MODULE DurableExport ----------------------------
(***************************************************************************)
(* One durable export job: the API request that queues it, the export      *)
(* workers of the backend replicas that lease it, render it and put the    *)
(* artifact into object storage, the sweep that deletes artifacts, and the *)
(* removals a tenant asks for (backend/app/services/exports.py,            *)
(* tenant_erase.py).                                                       *)
(*                                                                         *)
(* Jobs are independent, so one is enough.  An action is one SQL statement *)
(* or one call of the object store; a worker may stop between any two.     *)
(***************************************************************************)
EXTENDS Naturals

CONSTANTS
    Workers,        \* export workers, one per backend replica
    Removers,       \* requests deleting the job or erasing its tenant
    Nobody,         \* the lease owner of a row without lease
    MaxAttempts,    \* EXPORT_MAX_ATTEMPTS
    Faults,         \* what may go wrong: "crash" (the process or the request
                    \* stops), "raise" (a call fails, with or without
                    \* effect), "stall" (a lease lapses under its worker),
                    \* "unheard" (a statement commits, its answer is lost)
    MaxFaults       \* bound on how often

Actors == Workers \cup Removers
Waiting == {"queued", "retry_scheduled"}
Statuses == Waiting \cup {"running", "completed", "failed", "expired"}
AtWork == {"clean", "clear", "render", "plan", "renew", "store", "finish",
           "discard", "abort", "record"}
Places == AtWork \cup {"idle", "claim", "sweep", "drop", "mark", "defer",
                       "unlink", "delete"}

\* Mutant: all attempts at the job share a key.
ArtifactKeyPerJob(w, n) == <<1, CHOOSE v \in Workers : TRUE>>

\* _artifact_key: every attempt of every worker has a key of its own.
ArtifactKey(w, n) == <<n, w>>
NoKey == <<0, Nobody>>
ObjectKeys == (1..MaxAttempts) \X Workers

ASSUME AttemptAssumption == MaxAttempts \in Nat \ {0}
ASSUME FaultAssumption == /\ MaxFaults \in Nat
                          /\ Faults \subseteq {"crash", "raise", "stall", "unheard"}
ASSUME ActorAssumption == Workers \cap Removers = {} /\ Nobody \notin Actors

VARIABLES
    status,     \* export_jobs.status; "none" before, "deleted" after the row
    attempts,   \* export_jobs.attempts
    owner,      \* export_jobs.lease_owner
    key,        \* export_jobs.object_key
    ripe,       \* the lease ran out, or next_attempt_at has come
    old,        \* expires_at has come
    objects,    \* the artifacts in object storage
    asked,      \* artifacts somebody asked to remove
    at,         \* where each actor is
    num,        \* the attempt number of the row a worker claimed
    held,       \* the object key an actor works with
    cleaned,    \* cleanup_succeeded
    found,      \* the status the sweep read
    faults      \* faults so far

rowVars == <<status, attempts, owner, key, ripe, old>>
callVars == <<num, held, cleaned, found>>
vars == <<rowVars, objects, asked, at, callVars, faults>>

Init ==
    /\ status = "none"
    /\ attempts = 0
    /\ owner = Nobody
    /\ key = NoKey
    /\ ripe = FALSE
    /\ old = FALSE
    /\ objects = {}
    /\ asked = {}
    /\ at = [a \in Actors |-> "idle"]
    /\ num = [a \in Actors |-> 0]
    /\ held = [a \in Actors |-> NoKey]
    /\ cleaned = [a \in Actors |-> FALSE]
    /\ found = [a \in Actors |-> "none"]
    /\ faults = 0

Go(a, place) == at' = [at EXCEPT ![a] = place]
Holding(a, k) == held' = [held EXCEPT ![a] = k]
Fault(kind) == kind \in Faults /\ faults < MaxFaults /\ faults' = faults + 1

-----------------------------------------------------------------------------
(* create_export_job: a repeat under the idempotency key finds the job.    *)
Create ==
    /\ status = "none"
    /\ status' = "queued"
    /\ ripe' = TRUE
    /\ UNCHANGED <<attempts, owner, key, old, objects, asked, at, callVars,
                   faults>>

-----------------------------------------------------------------------------
(* tick_export_jobs                                                        *)
\* Mutant: one attempt too many is scheduled.
AfterFailureLate ==
    IF attempts > MaxAttempts THEN "failed" ELSE "retry_scheduled"

AfterFailure ==
    IF attempts >= MaxAttempts THEN "failed" ELSE "retry_scheduled"

\* A tick first takes back the jobs whose lease ran out.
StartTick(w) ==
    /\ at[w] = "idle"
    /\ Go(w, "claim")
    /\ \/ /\ status = "running" /\ ripe
          /\ status' = AfterFailure
          /\ owner' = Nobody
          /\ UNCHANGED <<attempts, key, ripe, old>>
       \/ ~(status = "running" /\ ripe) /\ UNCHANGED rowVars
    /\ UNCHANGED <<objects, asked, callVars, faults>>

Claimable == status \in Waiting /\ attempts < MaxAttempts /\ ripe

Claim(w) ==
    /\ at[w] = "claim"
    /\ Claimable
    /\ status' = "running"
    /\ owner' = w
    /\ ripe' = FALSE
    /\ attempts' = attempts + 1
    /\ num' = [num EXCEPT ![w] = attempts + 1]
    /\ Holding(w, key)
    /\ Go(w, IF key = NoKey THEN "render" ELSE "clean")
    /\ UNCHANGED <<key, old, objects, asked, cleaned, found, faults>>

EndClaims(w) ==
    /\ at[w] = "claim"
    /\ ~Claimable
    /\ Go(w, "sweep")
    /\ UNCHANGED <<rowVars, objects, asked, callVars, faults>>

-----------------------------------------------------------------------------
(* _process_claimed_job.  The flag lease_lost only repeats what the fenced *)
(* statements find out themselves, because a worker that lost its lease    *)
(* does not get it back before it has left the job.                        *)

CleanStale(w) ==
    /\ at[w] = "clean"
    /\ objects' = objects \ {held[w]}
    /\ Go(w, "clear")
    /\ UNCHANGED <<rowVars, asked, callVars, faults>>

Fenced(w) == owner = w

ClearPointer(w) ==
    /\ at[w] = "clear"
    /\ \/ /\ Fenced(w) /\ key = held[w]
          /\ key' = NoKey
          /\ Holding(w, NoKey)
          /\ Go(w, "render")
       \/ /\ ~(Fenced(w) /\ key = held[w])
          /\ Go(w, "claim")
          /\ UNCHANGED <<key, held>>
    /\ UNCHANGED <<status, attempts, owner, ripe, old, objects, asked, num,
                   cleaned, found, faults>>

Render(w) ==
    /\ at[w] = "render"
    /\ Holding(w, ArtifactKey(w, num[w]))
    /\ Go(w, "plan")
    /\ UNCHANGED <<rowVars, objects, asked, num, cleaned, found, faults>>

\* The key is written down before anything is stored under it.
PlanKey(w) ==
    /\ at[w] = "plan"
    /\ key' = IF Fenced(w) THEN held[w] ELSE key
    /\ Go(w, IF Fenced(w) THEN "renew" ELSE "claim")
    /\ UNCHANGED <<status, attempts, owner, ripe, old, objects, asked,
                   callVars, faults>>

Renewable(w) == status = "running" /\ owner = w

RenewLease(w) ==
    /\ at[w] = "renew"
    /\ ripe' = (ripe /\ ~Renewable(w))
    /\ Go(w, IF Renewable(w) THEN "store" ELSE "claim")
    /\ UNCHANGED <<status, attempts, owner, key, old, objects, asked,
                   callVars, faults>>

StoreArtifact(w) ==
    /\ at[w] = "store"
    /\ objects' = objects \cup {held[w]}
    /\ Go(w, "finish")
    /\ UNCHANGED <<rowVars, asked, callVars, faults>>

Complete(w) ==
    /\ status' = "completed"
    /\ owner' = Nobody
    /\ key' = held[w]
    /\ ripe' = TRUE
    /\ old' = FALSE
    /\ UNCHANGED attempts

Finish(w) ==
    /\ at[w] = "finish"
    /\ \/ Fenced(w) /\ Complete(w) /\ Go(w, "claim")
       \/ ~Fenced(w) /\ UNCHANGED rowVars /\ Go(w, "discard")
    /\ UNCHANGED <<objects, asked, callVars, faults>>

Discard(w) ==
    /\ at[w] = "discard"
    /\ objects' = objects \ {held[w]}
    /\ Go(w, "claim")
    /\ UNCHANGED <<rowVars, asked, callVars, faults>>

\* The exception handler deletes what the attempt may have stored ...
Abort(w) ==
    /\ at[w] = "abort"
    /\ objects' = objects \ {held[w]}
    /\ cleaned' = [cleaned EXCEPT ![w] = held[w] # NoKey]
    /\ Go(w, "record")
    /\ UNCHANGED <<rowVars, asked, num, held, found, faults>>

\* Mutant: the pointer is dropped whether or not the object is.
PointerAfterFailure(w) == NoKey

\* ... and keeps the pointer unless it knows that the object is gone.
PointerAfter(w) == IF cleaned[w] /\ key = held[w] THEN NoKey ELSE key

Record(w) ==
    /\ at[w] = "record"
    /\ Go(w, "claim")
    /\ \/ /\ Fenced(w)
          /\ status' = AfterFailure
          /\ key' = PointerAfter(w)
          /\ owner' = Nobody
          /\ ripe' = FALSE
          /\ UNCHANGED <<attempts, old>>
       \/ ~Fenced(w) /\ UNCHANGED rowVars
    /\ UNCHANGED <<objects, asked, callVars, faults>>

\* _heartbeat_export_lease: it even revives a lease nobody has recovered.
Heartbeat(w) ==
    /\ at[w] \in AtWork
    /\ Renewable(w)
    /\ ripe
    /\ ripe' = FALSE
    /\ UNCHANGED <<status, attempts, owner, key, old, objects, asked, at,
                   callVars, faults>>

-----------------------------------------------------------------------------
(* _expire_artifacts                                                       *)
\* Mutant: every artifact of a finished job is swept.
SweepableEarly == key # NoKey /\ ripe /\ status \in {"completed", "failed"}

\* Mutant: only what failed jobs left behind is swept.
SweepableFailed == key # NoKey /\ ripe /\ status = "failed"

Sweepable ==
    /\ key # NoKey
    /\ ripe
    /\ (status = "completed" /\ old) \/ status = "failed"

Sweep(w) ==
    /\ at[w] = "sweep"
    /\ \/ /\ Sweepable
          /\ Holding(w, key)
          /\ found' = [found EXCEPT ![w] = status]
          /\ Go(w, "drop")
       \/ ~Sweepable /\ Go(w, "idle") /\ UNCHANGED <<held, found>>
    /\ UNCHANGED <<rowVars, objects, asked, num, cleaned, faults>>

Drop(w) ==
    /\ at[w] = "drop"
    /\ objects' = objects \ {held[w]}
    /\ Go(w, "mark")
    /\ UNCHANGED <<rowVars, asked, callVars, faults>>

Mark(w) ==
    /\ at[w] = "mark"
    /\ Go(w, "idle")
    /\ \/ /\ found[w] = "completed" /\ status = "completed" /\ old
          /\ status' = "expired"
          /\ key' = NoKey
       \/ /\ found[w] = "failed" /\ status = "failed" /\ key = held[w]
          /\ key' = NoKey
          /\ UNCHANGED status
       \/ /\ ~(found[w] = "completed" /\ status = "completed" /\ old)
          /\ ~(found[w] = "failed" /\ status = "failed" /\ key = held[w])
          /\ UNCHANGED <<status, key>>
    /\ UNCHANGED <<attempts, owner, ripe, old, objects, asked, callVars,
                   faults>>

\* The sweep of this artifact failed; it is tried again later.
Defer(w) ==
    /\ at[w] = "defer"
    /\ ripe' = (ripe /\ key # held[w])
    /\ Go(w, "idle")
    /\ UNCHANGED <<status, attempts, owner, key, old, objects, asked,
                   callVars, faults>>

-----------------------------------------------------------------------------
(* delete_job, and the export part of erase_tenant: read the key, delete   *)
(* the object, delete the row whatever it says by then.                    *)
Exists == status \notin {"none", "deleted"}

Look(r) ==
    /\ at[r] = "idle"
    /\ Exists
    /\ Holding(r, key)
    /\ Go(r, IF key = NoKey THEN "delete" ELSE "unlink")
    /\ UNCHANGED <<rowVars, objects, asked, num, cleaned, found, faults>>

Unlink(r) ==
    /\ at[r] = "unlink"
    /\ objects' = objects \ {held[r]}
    /\ asked' = asked \cup {held[r]}
    /\ Go(r, "delete")
    /\ UNCHANGED <<rowVars, callVars, faults>>

DeleteRow(r) ==
    /\ at[r] = "delete"
    /\ Go(r, "idle")
    /\ \/ /\ Exists
          /\ status' = "deleted"
          /\ owner' = Nobody
          /\ key' = NoKey
          /\ ripe' = FALSE
          /\ old' = FALSE
       \/ ~Exists /\ UNCHANGED <<status, owner, key, ripe, old>>
    /\ UNCHANGED <<attempts, objects, asked, callVars, faults>>

-----------------------------------------------------------------------------
(* Faults                                                                  *)
\* What a call of the object store leaves behind when it raises.
Effects(a) ==
    CASE at[a] = "store" -> {objects, objects \cup {held[a]}}
      [] at[a] \in {"clean", "discard", "abort", "drop", "unlink"} ->
            {objects, objects \ {held[a]}}
      [] OTHER -> {objects}

Raise(a) ==
    /\ Fault("raise")
    /\ \/ at[a] \in AtWork \ {"abort", "record"} /\ Go(a, "abort")
             /\ UNCHANGED cleaned
       \/ at[a] = "abort" /\ Go(a, "record")
             /\ cleaned' = [cleaned EXCEPT ![a] = FALSE]
       \/ at[a] \in {"drop", "mark"} /\ Go(a, "defer") /\ UNCHANGED cleaned
       \/ at[a] = "unlink" /\ Go(a, "idle") /\ UNCHANGED cleaned
    /\ objects' \in Effects(a)
    /\ asked' = IF at[a] = "unlink" THEN asked \cup {held[a]} ELSE asked
    /\ UNCHANGED <<rowVars, num, held, found>>

\* The statement that completes the job commits, but the worker gets an
\* exception instead of its answer.
Unheard(w) ==
    /\ Fault("unheard")
    /\ at[w] = "finish"
    /\ Fenced(w)
    /\ Complete(w)
    /\ Go(w, "abort")
    /\ UNCHANGED <<objects, asked, callVars>>

\* The process dies or the request is cancelled.
Crash(a) ==
    /\ Fault("crash")
    /\ at[a] # "idle"
    /\ Go(a, "idle")
    /\ UNCHANGED <<rowVars, objects, asked, callVars>>

\* Time passes.  The lease of a worker that is at work lapses only when its
\* heartbeat stalls for longer than the lease.
Attended == owner # Nobody /\ at[owner] \in AtWork

Ripen ==
    /\ status \in {"running", "retry_scheduled", "completed", "failed"}
    /\ ~ripe
    /\ ripe' = TRUE
    /\ IF status = "running" /\ Attended THEN Fault("stall") ELSE UNCHANGED faults
    /\ UNCHANGED <<status, attempts, owner, key, old, objects, asked, at,
                   callVars>>

Age ==
    /\ status = "completed"
    /\ ~old
    /\ old' = TRUE
    /\ UNCHANGED <<status, attempts, owner, key, ripe, objects, asked, at,
                   callVars, faults>>

-----------------------------------------------------------------------------
TickStep(w) ==
    \/ StartTick(w) \/ Claim(w) \/ EndClaims(w)
    \/ Sweep(w) \/ Drop(w) \/ Mark(w) \/ Defer(w)

JobStep(w) ==
    \/ CleanStale(w) \/ ClearPointer(w) \/ Render(w) \/ PlanKey(w)
    \/ RenewLease(w) \/ StoreArtifact(w) \/ Finish(w) \/ Discard(w)
    \/ Abort(w) \/ Record(w)

RemovalStep(r) == Look(r) \/ Unlink(r) \/ DeleteRow(r)

Next ==
    \/ Create
    \/ \E w \in Workers : TickStep(w) \/ JobStep(w) \/ Heartbeat(w) \/ Unheard(w)
    \/ \E r \in Removers : RemovalStep(r)
    \/ \E a \in Actors : Raise(a) \/ Crash(a)
    \/ Ripen \/ Age

Spec == Init /\ [][Next]_vars

\* The event loop runs the workers, the supervisor restarts them, and time
\* passes; nobody has to ask for an export or for its removal.
Fairness ==
    /\ \A w \in Workers : WF_vars(TickStep(w) \/ JobStep(w))
    /\ WF_vars(Ripen /\ UNCHANGED faults)
    /\ WF_vars(Age)

LiveSpec == Spec /\ Fairness

-----------------------------------------------------------------------------
(* Properties                                                              *)

ColumnTypes ==
    /\ status \in Statuses \cup {"none", "deleted"}
    /\ attempts \in 0..MaxAttempts
    /\ owner \in Workers \cup {Nobody}
    /\ key \in ObjectKeys \cup {NoKey}
    /\ ripe \in BOOLEAN
    /\ old \in BOOLEAN
    /\ objects \subseteq ObjectKeys
    /\ asked \subseteq ObjectKeys
    /\ at \in [Actors -> Places]
    /\ num \in [Actors -> 0..MaxAttempts]
    /\ held \in [Actors -> ObjectKeys \cup {NoKey}]
    /\ cleaned \in [Actors -> BOOLEAN]
    /\ found \in [Actors -> Statuses \cup {"none"}]
    /\ faults \in 0..MaxFaults

\* Types, and the CHECK constraints of export_jobs: a job is leased exactly
\* while it runs, and a job that waits has an attempt left.
TypeOK ==
    /\ ColumnTypes
    /\ (status = "running") <=> (owner # Nobody)
    /\ status \in Waiting => attempts < MaxAttempts

\* A completed export can be downloaded until it expires, unless somebody
\* asked for its removal: no cleanup of another attempt, of a worker that lost
\* its lease or of the sweep takes the winning artifact away.
ReadyIsDownloadable ==
    status = "completed" /\ ~old => key \in objects \cup asked

\* Nothing is left in object storage that nobody will ever delete: the row
\* points at it, or the worker that stored it is about to deal with it.
NoOrphans ==
    \A k \in objects :
        \/ k = key
        \/ \E w \in Workers :
              held[w] = k /\ at[w] \in {"finish", "discard", "abort"}

\* A job leaves "running" through the worker that holds its current attempt,
\* through recovery after its lease ran out, or because it is removed; only
\* the former completes it.
OnlyLeaseHolderDecides ==
    [][status = "running" /\ status' # "running" =>
          \/ /\ at[owner] \in {"finish", "record"}
             /\ num[owner] = attempts
             /\ status' = "completed" => at[owner] = "finish"
          \/ ripe /\ status' \in {"retry_scheduled", "failed"}
          \/ status' = "deleted"]_vars

\* The job keeps the promise of ExportContract about its artifact.
Phase == IF status \in Waiting \cup {"running"} THEN "pending" ELSE status

Contract == INSTANCE ExportContract
    WITH phase <- Phase,
         file <- status = "completed" /\ key \in objects,
         void <- status = "completed" /\ (old \/ key \in asked)

ImplementsContract == Contract!Spec

\* Every export is eventually delivered or fails, whatever goes wrong.
JobSettles ==
    status = "queued" ~>
        status \in {"completed", "failed", "expired", "deleted"}

\* Whatever a worker stored does not stay in object storage for ever.
ArtifactsExpire == status = "completed" ~> objects = {}

\* Nobody is at work on the job.
Resting == \A a \in Actors : at[a] = "idle"

=============================================================================
