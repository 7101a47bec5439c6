------------------------------- MODULE SoarRun -------------------------------
(***************************************************************************)
(* One durable playbook run: its frozen plan of actions, one row per       *)
(* started action, the API requests that execute, acknowledge or retry it  *)
(* and the supervised workers that claim due webhooks and resume a plan    *)
(* nobody is working on (backend/app/services/playbooks.py).               *)
(*                                                                         *)
(* Runs are independent (every row carries its run id), so one run is      *)
(* enough.  An action below is one SQL statement or one outbound call;     *)
(* other actors run, and a process may die, between any two.               *)
(***************************************************************************)
EXTENDS Naturals, Sequences

CONSTANTS
    Handlers,       \* API requests
    Workers,        \* retry workers, one per backend replica
    Nobody,         \* the lease owner of a row without lease
    Plans,          \* plans a playbook may have when the run is created
    PlanLimit,      \* longest plan (50 in the schema)
    MaxAttempts,    \* _WEBHOOK_MAX_ATTEMPTS
    MaxCrashes      \* bound on interrupted requests and worker ticks

Actors == Handlers \cup Workers
Keys == 1..PlanLimit
ActionTypes == {"webhook", "control", "unsupported"}
RowStatuses == {"running", "retry_scheduled", "awaiting_ack",
                "succeeded", "failed", "unsupported"}
OpenRuns == {"running", "retrying", "awaiting_ack"}
RunStatuses == OpenRuns \cup {"succeeded", "partial", "failed", "unsupported"}
Outcomes == {"ok", "retryable", "permanent"}
Places == {"idle", "insert", "post", "persist", "read", "write",
           "claim", "continue"}
Stages == {"idle", "claim", "continue"}

ASSUME PlanAssumption ==
    /\ PlanLimit \in Nat
    /\ \A p \in Plans : p \in Seq(ActionTypes) /\ Len(p) <= PlanLimit
ASSUME AttemptAssumption == MaxAttempts \in Nat \ {0} /\ MaxCrashes \in Nat
ASSUME ActorAssumption == Handlers \cap Workers = {} /\ Nobody \notin Actors

VARIABLES
    plan,       \* playbook_runs.action_plan_snapshot
    run,        \* playbook_runs.status, "none" before the run exists
    status,     \* playbook_action_results.status, "absent" without a row
    attempt,    \* playbook_action_results.attempt
    owner,      \* playbook_action_results.lease_owner
    ripe,       \* the time the row waits for (lease or next attempt) passed
    posted,     \* the attempts <<key, number>> sent to the receiver
    accepted,   \* the keys whose receiver answered 2xx
    at,         \* where each actor is
    stage,      \* where a worker's tick continues after a refresh
    step,       \* the plan key an actor is working on
    try,        \* the attempt number it inserted or claimed
    outcome,    \* what the webhook call returned
    view,       \* the statuses _refresh_run_status has read
    crashes     \* interrupted requests and ticks so far

rowVars == <<status, attempt, owner, ripe>>
wireVars == <<posted, accepted>>
callVars == <<stage, step, try, outcome, view>>
vars == <<plan, run, status, attempt, owner, ripe, posted, accepted,
          at, stage, step, try, outcome, view, crashes>>

Init ==
    /\ plan = << >>
    /\ run = "none"
    /\ status = [i \in Keys |-> "absent"]
    /\ attempt = [i \in Keys |-> 1]
    /\ owner = [i \in Keys |-> Nobody]
    /\ ripe = [i \in Keys |-> FALSE]
    /\ posted = {}
    /\ accepted = {}
    /\ at = [a \in Actors |-> "idle"]
    /\ stage = [a \in Actors |-> "idle"]
    /\ step = [a \in Actors |-> 1]
    /\ try = [a \in Actors |-> 1]
    /\ outcome = [a \in Actors |-> "ok"]
    /\ view = [a \in Actors |-> {}]
    /\ crashes = 0

Planned == 1..Len(plan)
Type(i) == plan[i]
Go(a, place) == at' = [at EXCEPT ![a] = place]
FromStart(a) == Go(a, "insert") /\ step' = [step EXCEPT ![a] = 1]

-----------------------------------------------------------------------------
(* execute_playbook: the first request under the idempotency key creates   *)
(* the run with the plan the playbook has at that moment; later ones, and  *)
(* the loser of a race, resume the stored plan.                            *)
Execute(h) ==
    /\ at[h] = "idle"
    /\ \/ run = "none" /\ run' = "running" /\ plan' \in Plans
       \/ run # "none" /\ UNCHANGED <<run, plan>>
    /\ FromStart(h)
    /\ UNCHANGED <<rowVars, wireVars, stage, try, outcome, view, crashes>>

-----------------------------------------------------------------------------
(* _execute_run_actions                                                    *)
InitialStatus(type) ==
    CASE type = "webhook" -> "running"
      [] type = "control" -> "awaiting_ack"
      [] OTHER -> "unsupported"

InsertAction(a) ==
    LET i == step[a]
        webhook == Type(i) = "webhook" IN
    /\ at[a] = "insert"
    /\ i \in Planned
    /\ status[i] = "absent"
    /\ status' = [status EXCEPT ![i] = InitialStatus(Type(i))]
    /\ attempt' = [attempt EXCEPT ![i] = 1]
    /\ owner' = [owner EXCEPT ![i] = IF webhook THEN a ELSE Nobody]
    /\ ripe' = [ripe EXCEPT ![i] = FALSE]
    /\ try' = [try EXCEPT ![a] = 1]
    /\ Go(a, IF webhook THEN "post" ELSE "read")
    /\ UNCHANGED <<plan, run, wireVars, stage, step, outcome, view, crashes>>

\* A row inserted before lets the plan pass only once it has succeeded.
LetsPass(i) == status[i] = "succeeded"

SkipAction(a) ==
    /\ at[a] = "insert"
    /\ step[a] \in Planned
    /\ LetsPass(step[a])
    /\ step' = [step EXCEPT ![a] = @ + 1]
    /\ UNCHANGED <<plan, run, rowVars, wireVars, at, stage, try, outcome,
                   view, crashes>>

LeavePlan(a) ==
    /\ at[a] = "insert"
    /\ step[a] \in Planned =>
          status[step[a]] # "absent" /\ ~LetsPass(step[a])
    /\ Go(a, "read")
    /\ UNCHANGED <<plan, run, rowVars, wireVars, callVars, crashes>>

\* _run_webhook.  A lost answer is "retryable" whatever the receiver did.
PostWebhook(a) ==
    /\ at[a] = "post"
    /\ posted' = posted \cup {<<step[a], try[a]>>}
    /\ \E o \in Outcomes :
          /\ outcome' = [outcome EXCEPT ![a] = o]
          /\ accepted' = IF o = "ok" THEN accepted \cup {step[a]}
                                     ELSE accepted
    /\ Go(a, "persist")
    /\ UNCHANGED <<plan, run, rowVars, stage, step, try, view, crashes>>

DurableOutcome(o, n) ==
    CASE o = "ok" -> "succeeded"
      [] o = "retryable" /\ n < MaxAttempts -> "retry_scheduled"
      [] OTHER -> "failed"

\* Mutant: the outcome is written to any running row.
HoldsLeaseOfAnyone(a, i) == status[i] = "running" /\ owner[i] # Nobody

HoldsLease(a, i) == status[i] = "running" /\ owner[i] = a

\* A first attempt carries on with the next action, a claimed one (its number
\* is at least 2) goes through the plan from the start.
PersistOutcome(a) ==
    LET i == step[a]
        s == DurableOutcome(outcome[a], try[a]) IN
    /\ at[a] = "persist"
    /\ HoldsLease(a, i)
    /\ status' = [status EXCEPT ![i] = s]
    /\ owner' = [owner EXCEPT ![i] = Nobody]
    /\ ripe' = [ripe EXCEPT ![i] = FALSE]
    /\ step' = [step EXCEPT ![a] = IF try[a] = 1 THEN i + 1 ELSE 1]
    /\ Go(a, IF s = "succeeded" THEN "insert" ELSE "read")
    /\ UNCHANGED <<plan, run, attempt, wireVars, stage, try, outcome, view,
                   crashes>>

\* The lease was lost: a first attempt still refreshes the run, a claimed one
\* leaves everything to the new owner.
LoseOutcome(a) ==
    /\ at[a] = "persist"
    /\ ~HoldsLease(a, step[a])
    /\ Go(a, IF try[a] = 1 THEN "read" ELSE stage[a])
    /\ UNCHANGED <<plan, run, rowVars, wireVars, callVars, crashes>>

-----------------------------------------------------------------------------
(* _refresh_run_status: one statement reads, another writes.               *)
Summary(S) ==
    CASE S = {} -> "succeeded"
      [] "running" \in S -> "running"
      [] "retry_scheduled" \in S -> "retrying"
      [] "awaiting_ack" \in S -> "awaiting_ack"
      [] S = {"succeeded"} -> "succeeded"
      [] S = {"unsupported"} -> "unsupported"
      [] S = {"failed"} -> "failed"
      [] OTHER -> "partial"

Statuses == {status[i] : i \in Keys} \ {"absent"}

ReadStatuses(a) ==
    /\ at[a] = "read"
    /\ view' = [view EXCEPT ![a] = Statuses]
    /\ Go(a, "write")
    /\ UNCHANGED <<plan, run, rowVars, wireVars, stage, step, try, outcome,
                   crashes>>

WriteStatus(a) ==
    /\ at[a] = "write"
    /\ run' = Summary(view[a])
    /\ view' = [view EXCEPT ![a] = {}]
    /\ Go(a, stage[a])
    /\ UNCHANGED <<plan, rowVars, wireVars, stage, step, try, outcome,
                   crashes>>

-----------------------------------------------------------------------------
(* acknowledge_action and retry_action                                     *)
\* A decision is taken once; the same decision again is an exact replay.
Acknowledgeable(i, decision) ==
    /\ i \in Planned
    /\ Type(i) = "control"
    /\ status[i] \in {"awaiting_ack", decision}

Acknowledge(h, i, decision) ==
    /\ at[h] = "idle"
    /\ run # "none"
    /\ Acknowledgeable(i, decision)
    /\ status' = [status EXCEPT ![i] = decision]
    /\ step' = [step EXCEPT ![h] = 1]
    /\ Go(h, IF decision = "succeeded" THEN "insert" ELSE "read")
    /\ UNCHANGED <<plan, run, attempt, owner, ripe, wireVars, stage, try,
                   outcome, view, crashes>>

\* Mutant: an operator may retry an action that has succeeded.
RetryAnyAction(h, i) ==
    /\ at[h] = "idle"
    /\ run # "none"
    /\ i \in Planned
    /\ Type(i) = "webhook"
    /\ status[i] \in {"failed", "retry_scheduled", "succeeded"}
    /\ attempt[i] < MaxAttempts
    /\ status' = [status EXCEPT ![i] = "retry_scheduled"]
    /\ owner' = [owner EXCEPT ![i] = Nobody]
    /\ ripe' = [ripe EXCEPT ![i] = TRUE]
    /\ Go(h, "read")
    /\ UNCHANGED <<plan, run, attempt, wireVars, callVars, crashes>>

RetryAction(h, i) ==
    /\ at[h] = "idle"
    /\ run # "none"
    /\ i \in Planned
    /\ Type(i) = "webhook"
    /\ status[i] \in {"failed", "retry_scheduled"}
    /\ attempt[i] < MaxAttempts
    /\ status' = [status EXCEPT ![i] = "retry_scheduled"]
    /\ owner' = [owner EXCEPT ![i] = Nobody]
    /\ ripe' = [ripe EXCEPT ![i] = TRUE]
    /\ Go(h, "read")
    /\ UNCHANGED <<plan, run, attempt, wireVars, callVars, crashes>>

-----------------------------------------------------------------------------
(* run_playbook_retry_worker: a tick fails the rows whose last attempt     *)
(* lost its lease, then claims and delivers due webhooks one at a time,    *)
(* then resumes the plan if nobody holds the baton.                        *)
\* Mutant: the last attempt is taken to be one too many.
ExhaustedNever ==
    {i \in Planned : /\ Type(i) = "webhook" /\ status[i] = "running"
                     /\ attempt[i] > MaxAttempts /\ ripe[i]}

Exhausted ==
    {i \in Planned : /\ Type(i) = "webhook" /\ status[i] = "running"
                     /\ attempt[i] >= MaxAttempts /\ ripe[i]}

StartTick(w) ==
    /\ at[w] = "idle"
    /\ status' = [i \in Keys |->
                     IF i \in Exhausted THEN "failed" ELSE status[i]]
    /\ owner' = [i \in Keys |->
                     IF i \in Exhausted THEN Nobody ELSE owner[i]]
    /\ ripe' = [i \in Keys |-> ripe[i] /\ i \notin Exhausted]
    /\ stage' = [stage EXCEPT ![w] = "claim"]
    /\ Go(w, IF Exhausted = {} THEN "claim" ELSE "read")
    /\ UNCHANGED <<plan, run, attempt, wireVars, step, try, outcome, view,
                   crashes>>

Due(i) ==
    /\ i \in Planned
    /\ Type(i) = "webhook"
    /\ attempt[i] < MaxAttempts
    /\ status[i] \in {"retry_scheduled", "running"}
    /\ ripe[i]

\* Mutant: reclaiming a running row continues its attempt.
NextAttemptOfSchedule(i) ==
    IF status[i] = "running" THEN attempt[i] ELSE attempt[i] + 1

NextAttempt(i) == attempt[i] + 1

ClaimDue(w, i) ==
    /\ at[w] = "claim"
    /\ Due(i)
    /\ status' = [status EXCEPT ![i] = "running"]
    /\ attempt' = [attempt EXCEPT ![i] = NextAttempt(i)]
    /\ owner' = [owner EXCEPT ![i] = w]
    /\ ripe' = [ripe EXCEPT ![i] = FALSE]
    /\ step' = [step EXCEPT ![w] = i]
    /\ try' = [try EXCEPT ![w] = NextAttempt(i)]
    /\ Go(w, "post")
    /\ UNCHANGED <<plan, run, wireVars, stage, outcome, view, crashes>>

EndClaims(w) ==
    /\ at[w] = "claim"
    /\ ~ \E i \in Planned : Due(i)
    /\ stage' = [stage EXCEPT ![w] = "continue"]
    /\ Go(w, "continue")
    /\ UNCHANGED <<plan, run, rowVars, wireVars, step, try, outcome, view,
                   crashes>>

\* The run is open and no action of it is in anybody's hands.
BatonDropped ==
    /\ run \in OpenRuns
    /\ Statuses \cap {"running", "retry_scheduled", "awaiting_ack"} = {}

ContinuePlan(w) ==
    /\ at[w] = "continue"
    /\ BatonDropped
    /\ FromStart(w)
    /\ stage' = [stage EXCEPT ![w] = "idle"]
    /\ UNCHANGED <<plan, run, rowVars, wireVars, try, outcome, view, crashes>>

EndTick(w) ==
    /\ at[w] = "continue"
    /\ ~BatonDropped
    /\ stage' = [stage EXCEPT ![w] = "idle"]
    /\ Go(w, "idle")
    /\ UNCHANGED <<plan, run, rowVars, wireVars, step, try, outcome, view,
                   crashes>>

-----------------------------------------------------------------------------
(* A process dies, a request is cancelled or a statement (an audit insert, *)
(* say) fails: whatever the actor held in memory is gone.  A worker whose  *)
(* retry part fails still runs its continuation part.                      *)
Interrupt(a) ==
    /\ crashes < MaxCrashes
    /\ crashes' = crashes + 1
    /\ at[a] \in {"insert", "post", "persist", "read", "write"}
    /\ \E s \in {"idle"} \cup
                (IF stage[a] = "claim" THEN {"continue"} ELSE {}) :
          /\ stage' = [stage EXCEPT ![a] = s]
          /\ Go(a, s)
    /\ view' = [view EXCEPT ![a] = {}]
    /\ UNCHANGED <<plan, run, rowVars, wireVars, step, try, outcome>>

\* The lease expires, or the backoff ends.
Ripen(i) ==
    /\ status[i] \in {"running", "retry_scheduled"}
    /\ ~ripe[i]
    /\ ripe' = [ripe EXCEPT ![i] = TRUE]
    /\ UNCHANGED <<plan, run, status, attempt, owner, wireVars, at, callVars,
                   crashes>>

-----------------------------------------------------------------------------
PlanStep(a) ==
    \/ InsertAction(a) \/ SkipAction(a) \/ LeavePlan(a)
    \/ PostWebhook(a) \/ PersistOutcome(a) \/ LoseOutcome(a)
    \/ ReadStatuses(a) \/ WriteStatus(a)

RequestStep(h) ==
    \/ Execute(h)
    \/ \E i \in Keys : RetryAction(h, i)
    \/ \E i \in Keys, d \in {"succeeded", "failed"} : Acknowledge(h, i, d)

TickStep(w) ==
    \/ StartTick(w) \/ EndClaims(w) \/ ContinuePlan(w) \/ EndTick(w)
    \/ \E i \in Keys : ClaimDue(w, i)

Next ==
    \/ \E a \in Actors : PlanStep(a) \/ Interrupt(a)
    \/ \E h \in Handlers : RequestStep(h)
    \/ \E w \in Workers : TickStep(w)
    \/ \E i \in Keys : Ripen(i)

Spec == Init /\ [][Next]_vars

\* The event loop runs every coroutine that can run, the supervisor restarts
\* the worker, and time passes.
Fairness ==
    /\ \A a \in Actors : WF_vars(PlanStep(a))
    /\ \A w \in Workers : WF_vars(TickStep(w))
    /\ \A i \in Keys : WF_vars(Ripen(i))

LiveSpec == Spec /\ Fairness

-----------------------------------------------------------------------------
(* Properties                                                              *)

ColumnTypes ==
    /\ plan \in Plans \cup {<< >>}
    /\ run \in RunStatuses \cup {"none"}
    /\ status \in [Keys -> RowStatuses \cup {"absent"}]
    /\ attempt \in [Keys -> 1..MaxAttempts]
    /\ owner \in [Keys -> Actors \cup {Nobody}]
    /\ ripe \in [Keys -> BOOLEAN]
    /\ posted \subseteq Keys \X (1..MaxAttempts)
    /\ accepted \subseteq Keys
    /\ at \in [Actors -> Places]
    /\ stage \in [Actors -> Stages]
    /\ step \in [Actors -> 1..(PlanLimit + 1)]
    /\ try \in [Actors -> 1..MaxAttempts]
    /\ outcome \in [Actors -> Outcomes]
    /\ view \in [Actors -> SUBSET RowStatuses]
    /\ crashes \in 0..MaxCrashes

RowShape ==
    \A i \in Keys :
        /\ status[i] # "absent" => i \in Planned /\ run # "none"
        /\ owner[i] # Nobody => status[i] = "running"
        /\ status[i] \in {"running", "retry_scheduled"} =>
              i \in Planned /\ Type(i) = "webhook"

\* Types, and the CHECK constraints of playbook_action_results: attempts are
\* bounded, only webhooks wait for a retry, and only a running row is leased.
TypeOK == ColumnTypes /\ RowShape

\* Ordered execution: an action is started only when every action before it
\* in the frozen plan has succeeded, whoever carries the plan on.
OrderedExecution ==
    \A i \in Keys, j \in Keys :
        j < i /\ status[i] # "absent" => status[j] = "succeeded"

\* A webhook is reported as succeeded only if the receiver answered 2xx.
SuccessIsReal ==
    \A i \in Planned :
        Type(i) = "webhook" /\ status[i] = "succeeded" => i \in accepted

\* No attempt is sent twice, so that a receiver sees at most MaxAttempts
\* deliveries, however often leases are lost, rows reclaimed and retried.
EachAttemptPostedOnce ==
    [][\A a \in Actors :
          at[a] = "post" /\ at'[a] = "persist" =>
             <<step[a], try[a]>> \notin posted]_vars

\* A running webhook leaves that state through the caller that sent its
\* current attempt, or because its last lease expired, in no other way.
OnlyLeaseHolderDecides ==
    [][\A i \in Keys :
          status[i] = "running" /\ status'[i] # "running" =>
             \/ \E a \in Actors :
                   /\ at[a] = "persist" /\ step[a] = i
                   /\ owner[i] = a /\ try[a] = attempt[i]
             \/ ripe[i] /\ attempt[i] = MaxAttempts
                /\ status'[i] = "failed"]_vars

\* A success is never taken back, and neither is the decision of an
\* acknowledgement, in either direction.
DecisionsFinal ==
    [][\A i \in Keys :
          (status[i] = "succeeded" \/ (status[i] = "failed" /\ Type(i) = "control"))
          => status'[i] = status[i]]_vars

\* The run keeps the promise of PlanContract: one action at a time, in order,
\* and nothing done is undone.
ActionState(s) ==
    CASE s = "absent" -> "closed"
      [] s \in {"running", "retry_scheduled", "awaiting_ack"} -> "open"
      [] s = "succeeded" -> "done"
      [] OTHER -> "failed"

Contract == INSTANCE PlanContract
    WITH Size <- PlanLimit,
         action <- [i \in Keys |-> ActionState(status[i])]

ImplementsPlan == Contract!Spec

\* A run never hangs: it reaches a terminal status or waits for a person.
RunSettles ==
    run # "none" ~> \/ run \notin OpenRuns
                    \/ \E i \in Keys : status[i] = "awaiting_ack"

\* Nobody is in the middle of anything.
Resting == \A a \in Actors : at[a] = "idle"

\* ARCHITECTURE.md: "later playbook edits cannot add, drop, or reorder" the
\* actions of a run.  A succeeded run at rest should then have executed all
\* of its plan.
SucceededRunsWhole ==
    Resting /\ run = "succeeded" => \A i \in Planned : LetsPass(i)

=============================================================================
