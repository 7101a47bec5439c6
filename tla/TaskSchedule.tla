----------------------------- MODULE TaskSchedule -----------------------------
(***************************************************************************)
(* The durable scheduler of the engine's data plane                        *)
(* (engine/src/data_plane/tasks/cron_publisher.rs, maintenance.rs): every  *)
(* replica materializes the current time bucket of each task as a row of   *)
(* scheduled_task_runs, leases due rows, and runs the task itself or puts  *)
(* a trigger on the internal-tasks stream.                                 *)
(*                                                                         *)
(* Rows are numbered by (scheduled_for, task_name), the order in which     *)
(* they are claimed.  An action is one statement, one XADD, or one native  *)
(* execution; a replica may stop between any two.  Time passes in ticks of *)
(* one scheduler pause (15 s), and a lease is the ticks it has left.       *)
(***************************************************************************)
EXTENDS Naturals, FiniteSets

CONSTANTS
    Schedulers,       \* replicas that run the scheduler role
    Nobody,           \* claimed_by IS NULL
    Gone,             \* the owner id of a process that has stopped
    NRuns,            \* rows there will ever be
    TaskOf,           \* the task of each row, tasks numbered as in CRON_TASKS
    NTasks,           \* length of CRON_TASKS
    Native,           \* RUST_NATIVE_TASKS
    Cleanup,          \* the native task db_cleanup
    MaxTaskAttempts,  \* MAX_TASK_ATTEMPTS
    PassClaims,       \* claims in one pass (20)
    ClaimLease, NativeLease, HeartbeatEvery,  \* 60 s, 30 min, 300 s
    PublishedLease, FailedLease,              \* 5 min, 15 min
    Punctual,         \* only a native execution takes time
    Faults,           \* what may go wrong: "crash", and "raise" (a call
                      \* fails, with or without effect)
    MaxFaults         \* bound on how often

Runs == 1..NRuns
States == {"none", "pending", "published", "completed", "failed", "deleted"}
WithRun == {"publish", "announce", "extend", "work", "complete", "fail"}
Places == WithRun \cup {"sleep", "wake", "claim"}

ASSUME TaskAssumption == /\ NRuns \in Nat /\ NTasks \in Nat
                         /\ TaskOf \in [Runs -> 1..NTasks]
                         /\ Native \subseteq 1..NTasks /\ Cleanup \in Native
ASSUME LeaseAssumption == /\ ClaimLease \in Nat \ {0}
                          /\ NativeLease \in Nat \ {0}
                          /\ PublishedLease \in Nat \ {0}
                          /\ FailedLease \in Nat \ {0}
                          /\ HeartbeatEvery \in 1..(NativeLease - 1)
ASSUME BoundAssumption == /\ MaxTaskAttempts \in Nat \ {0}
                          /\ PassClaims \in Nat \ {0} /\ MaxFaults \in Nat
ASSUME OwnerAssumption == /\ Nobody \notin Schedulers /\ Gone \notin Schedulers
                          /\ Nobody # Gone
ASSUME ModeAssumption == Punctual \in BOOLEAN /\ Faults \subseteq {"crash", "raise"}

VARIABLES
    state,      \* state of each row; "none" before, "deleted" after it
    attempts,   \* attempts of each row
    claimedBy,  \* claimed_by of each row
    lease,      \* ticks until lease_expires_at of each row; 0: none, or past
    clock,      \* rows whose scheduled_for has come
    at,         \* where each scheduler is
    claims,     \* claims in its current pass
    got,        \* the row it claimed; 0: none
    seen,       \* run.state as the claim returned it
    beat,       \* ticks since its last heartbeat
    triggered,  \* rows whose trigger is on the stream
    executed,   \* rows whose native task ran to its end
    faults      \* faults so far

rowVars == <<state, attempts, claimedBy, lease>>
callVars == <<claims, got, seen, beat>>
effectVars == <<triggered, executed>>
vars == <<rowVars, clock, at, callVars, effectVars, faults>>

Init ==
    /\ state = [r \in Runs |-> "none"]
    /\ attempts = [r \in Runs |-> 0]
    /\ claimedBy = [r \in Runs |-> Nobody]
    /\ lease = [r \in Runs |-> 0]
    /\ clock = 0
    /\ at = [s \in Schedulers |-> "wake"]
    /\ claims = [s \in Schedulers |-> 0]
    /\ got = [s \in Schedulers |-> 0]
    /\ seen = [s \in Schedulers |-> "none"]
    /\ beat = [s \in Schedulers |-> 0]
    /\ triggered = {}
    /\ executed = {}
    /\ faults = 0

Go(s, place) == at' = [at EXCEPT ![s] = place]
Fault(kind) == kind \in Faults /\ faults < MaxFaults /\ faults' = faults + 1

-----------------------------------------------------------------------------
(* ensure_current_buckets and claim_runs                                   *)

\* scheduled_for_timestamp: the newest bucket of every task.
Current == {r \in 1..clock : \A q \in (r + 1)..clock : TaskOf[q] # TaskOf[r]}

\* The rows of the first n tasks, ON CONFLICT DO NOTHING.
Missing(n) == {r \in Current : TaskOf[r] <= n /\ state[r] \in {"none", "deleted"}}

Insert(n) ==
    /\ state' = [r \in Runs |-> IF r \in Missing(n) THEN "pending" ELSE state[r]]
    /\ attempts' = [r \in Runs |-> IF r \in Missing(n) THEN 0 ELSE attempts[r]]
    /\ UNCHANGED <<claimedBy, lease>>

Materialize(s) ==
    /\ at[s] = "wake"
    /\ \/ Insert(NTasks) /\ UNCHANGED faults
       \/ Fault("raise") /\ \E n \in 0..NTasks : Insert(n)
    /\ claims' = [claims EXCEPT ![s] = 0]
    /\ Go(s, "claim")
    /\ UNCHANGED <<clock, got, seen, beat, effectVars>>

\* Mutant: what a stopped process had claimed is left alone.
ClaimableUnclaimed ==
    {r \in Runs : /\ \/ state[r] \in {"pending", "failed"}
                        /\ attempts[r] < MaxTaskAttempts
                     \/ state[r] = "published"
                  /\ lease[r] = 0 /\ claimedBy[r] = Nobody}

Claimable ==
    {r \in Runs : /\ \/ state[r] \in {"pending", "failed"}
                        /\ attempts[r] < MaxTaskAttempts
                     \/ state[r] = "published"
                  /\ lease[r] = 0}

\* ORDER BY scheduled_for, task_name.
Oldest(r) == r \in Claimable /\ \A q \in Claimable : r <= q

Take(s, r) ==
    /\ claimedBy' = [claimedBy EXCEPT ![r] = s]
    /\ lease' = [lease EXCEPT ![r] = ClaimLease]
    /\ UNCHANGED <<state, attempts>>

Claim(s) ==
    /\ at[s] = "claim" /\ claims[s] < PassClaims
    /\ \E r \in Runs :
          /\ Oldest(r)
          /\ Take(s, r)
          /\ got' = [got EXCEPT ![s] = r]
          /\ seen' = [seen EXCEPT ![s] = state[r]]
          /\ Go(s, IF TaskOf[r] \in Native THEN "extend" ELSE "publish")
    /\ claims' = [claims EXCEPT ![s] = claims[s] + 1]
    /\ UNCHANGED <<clock, beat, effectVars, faults>>

EndPass(s) ==
    /\ at[s] = "claim"
    /\ claims[s] = PassClaims \/ Claimable = {}
    /\ Go(s, "sleep")
    /\ UNCHANGED <<rowVars, clock, callVars, effectVars, faults>>

ClaimRaises(s) ==
    /\ at[s] = "claim" /\ claims[s] < PassClaims
    /\ Fault("raise")
    /\ UNCHANGED rowVars \/ \E r \in Runs : Oldest(r) /\ Take(s, r)
    /\ Go(s, "sleep")
    /\ UNCHANGED <<clock, callVars, effectVars>>

-----------------------------------------------------------------------------
(* execute_run.  Every statement is fenced by the claimer and by the state *)
(* the claim returned, none by the lease's end.                            *)

Fenced(s) == claimedBy[got[s]] = s /\ state[got[s]] = seen[s]

\* The run leaves its scheduler with the given state, attempt and lease.
Settle(s, outcome, count, ticks) ==
    LET r == got[s] IN
    \/ /\ Fenced(s)
       /\ state' = [state EXCEPT ![r] = outcome]
       /\ attempts' = [attempts EXCEPT ![r] = attempts[r] + count]
       /\ claimedBy' = [claimedBy EXCEPT ![r] = Nobody]
       /\ lease' = [lease EXCEPT ![r] = ticks]
    \/ ~Fenced(s) /\ UNCHANGED rowVars

\* On to the next claim of the pass.
Leave(s) ==
    /\ Go(s, "claim")
    /\ got' = [got EXCEPT ![s] = 0]
    /\ seen' = [seen EXCEPT ![s] = "none"]
    /\ beat' = [beat EXCEPT ![s] = 0]
    /\ UNCHANGED <<clock, claims, effectVars>>

Publish(s) ==
    /\ at[s] = "publish"
    /\ triggered' = triggered \cup {got[s]}
    /\ Go(s, "announce")
    /\ UNCHANGED <<rowVars, clock, callVars, executed, faults>>

PublishRaises(s) ==
    /\ at[s] = "publish"
    /\ Fault("raise")
    /\ triggered' \in {triggered, triggered \cup {got[s]}}
    /\ Go(s, "fail")
    /\ UNCHANGED <<rowVars, clock, callVars, executed>>

\* Publishing a published row again is not another attempt.
Announce(s) ==
    /\ at[s] = "announce"
    /\ Settle(s, "published", IF seen[s] = "published" THEN 0 ELSE 1, PublishedLease)
    /\ Leave(s)
    /\ UNCHANGED faults

-----------------------------------------------------------------------------
(* execute_native_with_heartbeat                                           *)

\* extend_native_lease
ExtendLease(s) ==
    /\ Fenced(s)
    /\ lease' = [lease EXCEPT ![got[s]] = NativeLease]
    /\ beat' = [beat EXCEPT ![s] = 0]
    /\ UNCHANGED <<state, attempts, claimedBy>>

LosesLease(s) == ~Fenced(s) /\ UNCHANGED <<rowVars, beat>>

Extend(s) ==
    /\ at[s] = "extend"
    /\ \/ ExtendLease(s) /\ Go(s, "work")
       \/ LosesLease(s) /\ Go(s, "fail")
    /\ UNCHANGED <<clock, claims, got, seen, effectVars, faults>>

\* Mutant: the heartbeat looks but does not extend.
HeartbeatKeepsLease(s) ==
    /\ at[s] = "work" /\ beat[s] = HeartbeatEvery
    /\ Fenced(s) /\ beat' = [beat EXCEPT ![s] = 0] /\ UNCHANGED rowVars
    /\ UNCHANGED <<clock, at, claims, got, seen, effectVars, faults>>

\* A heartbeat that finds the lease lost drops the execution.
Heartbeat(s) ==
    /\ at[s] = "work" /\ beat[s] = HeartbeatEvery
    /\ \/ ExtendLease(s) /\ UNCHANGED at
       \/ LosesLease(s) /\ Go(s, "fail")
    /\ UNCHANGED <<clock, claims, got, seen, effectVars, faults>>

\* Extending fails, with or without effect.
ExtendRaises(s) ==
    /\ at[s] = "extend" \/ (at[s] = "work" /\ beat[s] = HeartbeatEvery)
    /\ Fault("raise")
    /\ UNCHANGED <<rowVars, beat>> \/ ExtendLease(s)
    /\ Go(s, "fail")
    /\ UNCHANGED <<clock, claims, got, seen, effectVars>>

\* run_db_cleanup deletes rows that were settled 90 days ago, long after
\* their bucket passed and any lease on them ran out.
Deletable ==
    {r \in (1..clock) \ Current : state[r] \in {"completed", "failed"} /\ lease[r] = 0}

Delete(gone) ==
    /\ state' = [r \in Runs |-> IF r \in gone THEN "deleted" ELSE state[r]]
    /\ claimedBy' = [r \in Runs |-> IF r \in gone THEN Nobody ELSE claimedBy[r]]
    /\ UNCHANGED <<attempts, lease>>

\* execute_native_task
NativeTask(s) ==
    IF TaskOf[got[s]] = Cleanup THEN \E gone \in SUBSET Deletable : Delete(gone)
                                ELSE UNCHANGED rowVars

Execute(s) ==
    /\ at[s] = "work"
    /\ NativeTask(s)
    /\ executed' = executed \cup {got[s]}
    /\ Go(s, "complete")
    /\ UNCHANGED <<clock, callVars, triggered, faults>>

ExecuteRaises(s) ==
    /\ at[s] = "work"
    /\ Fault("raise")
    /\ NativeTask(s)
    /\ Go(s, "fail")
    /\ UNCHANGED <<clock, callVars, effectVars>>

\* mark_completed
Complete(s) ==
    /\ at[s] = "complete"
    /\ Settle(s, "completed", 1, 0)
    /\ Leave(s)
    /\ UNCHANGED faults

\* mark_failed
Fail(s) ==
    /\ at[s] = "fail"
    /\ Settle(s, "failed", 1, FailedLease)
    /\ Leave(s)
    /\ UNCHANGED faults

\* The last statement of a run fails: it is only logged, or not even that.
SettleRaises(s) ==
    /\ at[s] \in {"announce", "complete", "fail"}
    /\ Fault("raise")
    /\ Leave(s)
    /\ UNCHANGED rowVars

-----------------------------------------------------------------------------
\* The process restarts; its successor has another owner id.
Crash(s) ==
    /\ Fault("crash")
    /\ claimedBy' = [r \in Runs |-> IF claimedBy[r] = s THEN Gone ELSE claimedBy[r]]
    /\ Go(s, "wake")
    /\ claims' = [claims EXCEPT ![s] = 0]
    /\ got' = [got EXCEPT ![s] = 0]
    /\ seen' = [seen EXCEPT ![s] = "none"]
    /\ beat' = [beat EXCEPT ![s] = 0]
    /\ UNCHANGED <<state, attempts, lease, clock, effectVars>>

\* The time of the next bucket comes.
NextBucket ==
    /\ clock < NRuns
    /\ clock' = clock + 1
    /\ UNCHANGED <<rowVars, at, callVars, effectVars, faults>>

\* A scheduler that works lets time pass up to its next heartbeat.
MayWait(s) ==
    \/ at[s] = "sleep"
    \/ at[s] = "work" /\ beat[s] < HeartbeatEvery
    \/ ~Punctual

Tick ==
    /\ \A s \in Schedulers : MayWait(s)
    /\ lease' = [r \in Runs |-> IF lease[r] = 0 THEN 0 ELSE lease[r] - 1]
    /\ beat' = [s \in Schedulers |->
                  IF at[s] = "work" /\ beat[s] < HeartbeatEvery
                  THEN beat[s] + 1 ELSE beat[s]]
    /\ at' = [s \in Schedulers |-> IF at[s] = "sleep" THEN "wake" ELSE at[s]]
    /\ UNCHANGED <<state, attempts, claimedBy, clock, claims, got, seen,
                   effectVars, faults>>

\* What the process does when nothing goes wrong.
PassStep(s) == Materialize(s) \/ Claim(s) \/ EndPass(s)
RunStep(s) == \/ Publish(s) \/ Announce(s)
              \/ Extend(s) \/ Heartbeat(s) \/ Execute(s) \/ Complete(s) \/ Fail(s)
FaultStep(s) == \/ ClaimRaises(s) \/ PublishRaises(s) \/ ExtendRaises(s)
                \/ ExecuteRaises(s) \/ SettleRaises(s) \/ Crash(s)

Next ==
    \/ \E s \in Schedulers : PassStep(s) \/ RunStep(s) \/ FaultStep(s)
    \/ NextBucket
    \/ Tick

Spec == Init /\ [][Next]_vars

\* The runtime drives every scheduler task, a native task comes to its end,
\* and time passes.
Fairness ==
    /\ \A s \in Schedulers : WF_vars(PassStep(s) \/ RunStep(s))
    /\ \A s \in Schedulers : WF_vars(Execute(s))
    /\ WF_vars(NextBucket)
    /\ WF_vars(Tick)

LiveSpec == Spec /\ Fairness

-----------------------------------------------------------------------------
(* Properties                                                              *)

ColumnTypes ==
    /\ state \in [Runs -> States]
    /\ attempts \in [Runs -> Nat]
    /\ claimedBy \in [Runs -> Schedulers \cup {Nobody, Gone}]
    /\ lease \in [Runs -> Nat]

CallTypes ==
    /\ clock \in 0..NRuns
    /\ at \in [Schedulers -> Places]
    /\ claims \in [Schedulers -> 0..PassClaims]
    /\ got \in [Schedulers -> 0..NRuns]
    /\ seen \in [Schedulers -> States]
    /\ beat \in [Schedulers -> 0..HeartbeatEvery]
    /\ triggered \subseteq Runs
    /\ executed \subseteq Runs
    /\ faults \in 0..MaxFaults

\* Types; and whoever is at a run has claimed one and knows its state.
TypeOK ==
    /\ ColumnTypes
    /\ CallTypes
    /\ \A s \in Schedulers : (at[s] \in WithRun) <=> (got[s] # 0)

\* A row says that its trigger was published or its task completed only when
\* that has happened, whoever wrote the row and however long ago it claimed.
OutcomesTrue ==
    \A r \in Runs :
        /\ state[r] = "published" => r \in triggered
        /\ state[r] = "completed" => r \in executed

\* MAX_TASK_ATTEMPTS bounds the attempts counted for a row.  A published row
\* is claimed at any count, so one whose trigger is published again in vain
\* ends one above the bound.
AttemptsBounded ==
    \A r \in Runs :
        /\ attempts[r] <= MaxTaskAttempts + 1
        /\ state[r] \in {"pending", "published"} => attempts[r] <= MaxTaskAttempts

\* A row is decided by the scheduler that claimed it last, and then no longer
\* claimed; only the clean-up takes rows away.
OnlyClaimerDecides ==
    [][\A r \in Runs :
          state[r] # "none" /\ state'[r] # state[r] =>
             \/ state'[r] = "deleted" /\ lease[r] = 0
             \/ \E s \in Schedulers :
                   claimedBy[r] = s /\ got[s] = r /\ claimedBy'[r] = Nobody]_vars

\* A completed row stays completed until the clean-up deletes it, and nothing
\* is claimed after it was deleted.
CompletedIsFinal ==
    [][\A r \in Runs :
          state[r] \in {"completed", "deleted"} =>
             /\ state'[r] \in {state[r], "deleted"}
             /\ \A s \in Schedulers : got'[s] = r => got[s] = r]_vars

\* No two replicas are inside the same native task.
NativeExclusive ==
    \A s, t \in Schedulers :
        at[s] = "work" /\ at[t] = "work" /\ got[s] = got[t] => s = t

\* Every row that is materialized is eventually published, run or failed.
RunsSettle ==
    \A r \in Runs : (state[r] = "pending") ~> (state[r] # "pending")
=============================================================================
