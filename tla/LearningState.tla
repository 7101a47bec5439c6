---------------------------- MODULE LearningState ----------------------------
(***************************************************************************)
(* What the platform stores of its results and learns from them: hourly    *)
(* rows and buckets, scores, models and their files; how all of this ages  *)
(* as time passes and results come in; and what must hold of it whatever   *)
(* workers and requests do.                                                *)
(***************************************************************************)
EXTENDS Naturals, FiniteSets

CONSTANTS Machines,
          Tenants,
          Faulty,      \* tenants whose data makes any step fail at any time
          Free,        \* the holder of a lease that nobody holds
          Deployments, \* the sets of activities, of machines at work and of families
                       \* whose files are followed, that are looked at together
          MaxRows,     \* bound on a tenant's results in an hour
          MaxFaults    \* bound on crashes, errors and lost connections

\* A worker, with the requests for the same work, can be switched off; so can
\* nobody be asking for the overview.
Activities == {"rollup", "training", "overview"}

\* A tenant's models, by where their files are kept: the uptime model is the
\* code's sla, the temporal one its norse_ssn.
Families == {"uptime", "threat", "forecast", "temporal"}

ASSUME LearningAssumption ==
    /\ Faulty \subseteq Tenants
    /\ Free \notin Machines
    /\ Deployments \subseteq SUBSET (Activities \cup Families \cup Machines)
    /\ MaxRows \in Nat
    /\ MaxFaults \in Nat

VARIABLES enabled,   \* the activities, machines and families there are
          rows,      \* per tenant, results of the current and the previous hour
          late,      \* a transaction of the previous hour is still to commit
          bucket,    \* per tenant and hour, what the rollup stored, or Missing
          past,      \* for the overview, the newest bucket of earlier hours: none, recent, old
          settled,   \* the previous hour was rolled up after it was complete
          enough,    \* there are results enough to learn from
          classical, \* a classical anomaly score inside its refresh window
          temporal,  \* age of the newest score of the temporal model
          noted,     \* a note that results are too few, inside the refresh window
          predicted, \* an uptime forecast was recorded
          disk,      \* per machine, tenant and family, the model's file
          hub,       \* per tenant and family, the copy of it that was published
          lease,     \* who holds the lease of the worker at work
          lost,      \* a machine goes on without the lease it had
          tick,      \* per machine, what its worker does
          request,   \* the request being served
          faults

hours  == <<rows, late, bucket, past, settled>>
models == <<enough, classical, temporal, noted, predicted, disk, hub>>
loops  == <<lease, lost, tick>>

Healthy == Tenants \ Faulty
Hours   == {"previous", "current"}
Idle    == [step |-> "idle"]

Missing == MaxRows + 1     \* there is no bucket

-----------------------------------------------------------------------------
(* Time and telemetry.                                                     *)

RowArrives(t) ==
    /\ "rollup" \in enabled
    /\ rows[t]["current"] < MaxRows
    /\ rows' = [rows EXCEPT ![t]["current"] = @ + 1]
    /\ UNCHANGED <<late, bucket, past, settled, models, loops, request, faults>>

\* A row carries the time its transaction began, and is seen at its commit.
LateRowCommits(t) ==
    /\ late[t]
    /\ late' = [late EXCEPT ![t] = FALSE]
    /\ rows' = [rows EXCEPT ![t]["previous"] = @ + 1]
    /\ UNCHANGED <<bucket, past, settled, models, loops, request, faults>>

\* A count of the hour under way is one of the previous hour from now on.
Older(j) ==
    IF j.step \in {"count", "write"} THEN [j EXCEPT !.hour = "previous"] ELSE j

OlderTick(j) ==
    IF j.step \in {"count", "write"}
    THEN [j EXCEPT !.hour = "previous", !.clean = FALSE] ELSE j

\* Workers tick every five minutes: an hour does not pass before the hour
\* before it, complete, was rolled up, nor while a count of it is under way.
HourTurns ==
    /\ "rollup" \in enabled
    /\ \A t \in Healthy : ~late[t] /\ (rows[t]["previous"] = 0 \/ settled[t])
    /\ \A m \in Machines :
           tick[m].step \in {"count", "write"} => tick[m].hour = "current"
    /\ request.step \in {"count", "write"} => request.hour = "current"
    /\ \E l \in [Healthy -> BOOLEAN] :
        /\ \A t \in Healthy : l[t] => rows[t]["current"] < MaxRows
        /\ late' = l
    /\ rows' = [t \in Healthy |->
                   [previous |-> rows[t]["current"], current |-> 0]]
    /\ bucket' = [t \in Healthy |->
                     [previous |-> bucket[t]["current"], current |-> Missing]]
    /\ past' = [t \in Healthy |->
                   IF "overview" \in enabled /\ bucket[t]["previous"] # Missing
                   THEN "recent" ELSE past[t]]
    /\ settled' = [t \in Healthy |-> FALSE]
    /\ tick' = [m \in Machines |-> OlderTick(tick[m])]
    /\ request' = Older(request)
    /\ UNCHANGED <<models, lease, lost, faults>>

\* Results add up, hour after hour, until there are enough.
HistoryGrows(t) ==
    /\ ~enough[t] /\ "training" \in enabled
    /\ enough' = [enough EXCEPT ![t] = TRUE]
    /\ UNCHANGED <<hours, classical, temporal, noted, predicted, disk, hub, loops,
                   request, faults>>

\* A day later earlier buckets are out of the window the overview looks at.
PastAges(t) ==
    /\ "overview" \in enabled
    /\ past[t] = "recent"
    /\ past' = [past EXCEPT ![t] = "old"]
    /\ UNCHANGED <<rows, late, bucket, settled, models, loops, request, faults>>

ClassicalAges(t) ==
    /\ classical[t]
    /\ classical' = [classical EXCEPT ![t] = FALSE]
    /\ UNCHANGED <<hours, enough, temporal, noted, predicted, disk, hub, loops,
                   request, faults>>

TemporalAges(t) ==
    /\ temporal[t] = "fresh"
    /\ temporal' = [temporal EXCEPT ![t] = "stale"]
    /\ UNCHANGED <<hours, enough, classical, noted, predicted, disk, hub, loops,
                   request, faults>>

NoteAges(t) ==
    /\ noted[t]
    /\ noted' = [noted EXCEPT ![t] = FALSE]
    /\ UNCHANGED <<hours, enough, classical, temporal, predicted, disk, hub,
                   loops, request, faults>>

Time ==
    \/ HourTurns
    \/ \E t \in Healthy :
        \/ RowArrives(t) \/ LateRowCommits(t) \/ HistoryGrows(t)
        \/ PastAges(t) \/ ClassicalAges(t) \/ TemporalAges(t) \/ NoteAges(t)

-----------------------------------------------------------------------------
(* Properties                                                              *)
\* The temporal model is never published half written, though a fit by hand may
\* be saving on the machine that publishes, or a crash cut one short: its file is
\* replaced whole (ml/norse_ssn.py: _save_checkpoint). The other families' files
\* are saved in place and published too: see NoneHalfPublished.
TemporalPublishedWhole == \A t \in Healthy : hub[t]["temporal"] # "part"

\* What the code does not keep: no model of any family is published half written
\* (training_worker.py: _publish_tenant_artifacts). The uptime, threat and forecast
\* files are written in place, so an upload can meet one that is being saved or
\* that a failure left (ml/sla_model.py, ml/threat_model.py, ml/forecasting.py).
NoneHalfPublished == \A t \in Healthy, f \in Families : hub[t][f] # "part"

\* Of all there was of a tenant when the overview was asked for, nothing is left
\* out but a forecast whose own read failed: a failed read hides neither the
\* series nor the other forecast ("optional ML store must not hide analytics"),
\* and no day without results, note of a short history, hour that turns or bucket
\* rewritten between two reads hides anything ("instead of a blank page after
\* quiet periods", services/analytics.py: overview).
NeverBlankAgain == request.step = "shown" => request.blank \subseteq request.failed

\* When an hour can no longer be rolled up, its bucket holds every row it had,
\* though several counts of it raced and the last one to be written won
\* (analytics_worker.py: the current and the previous hour).
ClosedHoursWhole ==
    [][HourTurns => \A t \in Healthy :
          rows[t]["previous"] > 0 => bucket[t]["previous"] = rows[t]["previous"]]_hours
=============================================================================
