------------------------------ MODULE Supervision ------------------------------
(***************************************************************************)
(* One API process: how it comes up without its dependencies, prepares the *)
(* database once it is there, starts and replaces its background workers   *)
(* when a readiness probe comes by, answers the probe, and goes down.      *)
(* Everything runs on one event loop: a step is what happens between two   *)
(* awaits.                                                                 *)
(***************************************************************************)
EXTENDS Naturals, FiniteSets, Sequences, Functions

CONSTANTS Workers,    \* the background workers that are enabled
          Probes,     \* readiness requests in flight at once
          Handlers,   \* other requests in flight at once
          MaxFailures, \* failures in a row that make a worker unhealthy
          MaxFaults   \* bound on what goes wrong

ASSUME SupervisionAssumption ==
    /\ Workers \subseteq {"ingest", "exports"}
    /\ "task" \notin Handlers /\ "none" \notin Handlers \cup Probes
    /\ MaxFailures \in Nat \ {0} /\ MaxFaults \in Nat

VARIABLES phase,      \* of the process
          up,         \* Postgres answers
          soft,       \* a local build, which creates what the schema lacks itself
          migrated,   \* the parts of the schema that are complete
          pools,      \* connection pools made; the last one is in use
          dialing,    \* the probe that holds the dependency lock
          schema,     \* the schema checks that passed, kept per pool
          checking,   \* per schema check, who holds its lock
          prepared,   \* the workflow catalogue was written for the pool
          verified,   \* the workers' own tables were checked for the pool
          task,       \* the readiness task that probes share
          known,      \* per worker, the state of the task in the registry
          live,       \* per worker, how many of its tasks run
          health,     \* per worker, what its ticks reported since it started
          proved,     \* workers that ever reported a successful tick
          probe,      \* per readiness request, where it is
          handler,    \* per other request, where it is
          faults

database == <<schema, checking, prepared, verified>>
workers  == <<known, live, health, proved>>
world    == <<up, soft, migrated, faults>>
vars     == <<phase, pools, dialing, database, task, workers, probe, handler, world>>

\* The check of the production schema, and the one that may first repair it.
Modes == {"assert", "ensure"}

Asleep == [step |-> "idle"]
NoTask == [step |-> "none"]
New    == [succeeded |-> FALSE, failures |-> 0, stale |-> FALSE]

Running == phase \in {"preparing", "up"}

\* A closed pool answers as little as a database that is down.
Reachable == up /\ phase # "stopped"

\* The one worker that is started before there is a connection pool.
PoolFree == {"ingest"}

\* What every component needs, in the order a local build creates it, and what the
\* exports add.
Groups == <<"tenancy", "directory", "processing", "products">>

Core == Range(Groups)

Parts == Core \cup {"exports"}

CoreTables == Reachable /\ Core \subseteq migrated

ExportTables == CoreTables /\ "exports" \in migrated

Tables(w) == IF w = "exports" THEN ExportTables
                             ELSE Reachable /\ Core \ {"products"} \subseteq migrated

-----------------------------------------------------------------------------
(* Workers.                                                                *)

Healthy(w) ==
    health[w].succeeded /\ health[w].failures < MaxFailures /\ ~health[w].stale

\* Mutant: a task that ended is taken for one that runs.
AbsentOnly(w) == known[w] = "absent"

Startable(w) == known[w] # "running"

\* Mutant: the stop signal is not looked at.
StartableEver(withPool) == {w \in Workers : Startable(w) /\ (withPool \/ w \in PoolFree)}

\* Mutant: every worker is started, the ones that run too.
StartAll(withPool) == {w \in Workers : Running /\ (withPool \/ w \in PoolFree)}

ToStart(withPool) ==
    {w \in Workers : Running /\ Startable(w) /\ (withPool \/ w \in PoolFree)}

\* Starting is one step; a worker that ended is replaced, one that runs stays.
EnsureWorkers(withPool) ==
    LET starting == ToStart(withPool) IN
    /\ known'  = [w \in Workers |-> IF w \in starting THEN "running" ELSE known[w]]
    /\ live'   = [w \in Workers |-> live[w] + (IF w \in starting THEN 1 ELSE 0)]
    /\ health' = [w \in Workers |-> IF w \in starting THEN New ELSE health[w]]
    /\ UNCHANGED proved

\* Without a pool the one worker that runs then reports nothing.
TickReports(w, ok) ==
    IF ok THEN [succeeded |-> TRUE, failures |-> 0, stale |-> FALSE]
    ELSE [health[w] EXCEPT !.failures = IF @ < MaxFailures THEN @ + 1 ELSE @]

Tick(w) ==
    /\ phase = "up" /\ live[w] > 0 /\ pools > 0
    /\ LET ok == Tables(w) IN
       /\ health' = [health EXCEPT ![w] = TickReports(w, ok)]
       /\ proved' = IF ok THEN proved \cup {w} ELSE proved
    /\ UNCHANGED <<phase, pools, dialing, database, task, known, live, probe, handler, world>>

EndOfTask(w, how) ==
    /\ known' = [known EXCEPT ![w] = how]
    /\ live' = [live EXCEPT ![w] = @ - 1]
    /\ UNCHANGED <<phase, pools, dialing, database, task, health, proved, probe, handler, up,
                   soft, migrated>>

\* A worker's loop outlives every error of a tick, yet its task may end: cancelled, or
\* with an error that the task then keeps.
Dies(w) ==
    /\ phase = "up" /\ known[w] = "running" /\ faults < MaxFaults
    /\ faults' = faults + 1
    /\ \E how \in {"over", "failed"} : EndOfTask(w, how)

\* Nothing was reported for longer than the worker's interval allows.
Hangs(w) ==
    /\ phase = "up" /\ known[w] = "running" /\ faults < MaxFaults
    /\ health[w].succeeded /\ ~health[w].stale
    /\ health' = [health EXCEPT ![w].stale = TRUE]
    /\ faults' = faults + 1
    /\ UNCHANGED <<phase, pools, dialing, database, task, known, live, proved, probe, handler,
                   up, soft, migrated>>

\* Shutdown cancels the tasks it finds in the registry; what a task has still to release
\* may go wrong.
Cancelled(w) ==
    /\ phase \in {"stopping", "aborted"} /\ known[w] = "running"
    /\ \/ EndOfTask(w, "over") /\ UNCHANGED faults
       \/ /\ faults < MaxFaults /\ faults' = faults + 1
          /\ EndOfTask(w, "failed")

-----------------------------------------------------------------------------
(* The schema check: once per pool and mode, one at a time, and only a       *)
(* success is kept.  The readiness task and the handlers all run it.         *)

\* Mutant: that the check ran is kept, not that it passed.
PassedAnyway(m) == TRUE

Passed(m) == CoreTables

Free(m) == m \notin schema /\ checking[m] = "none"

BeginCheck(m, who) ==
    checking' = [checking EXCEPT ![m] = who] /\ UNCHANGED <<schema, migrated>>

\* A check that may repair ends when there is nothing left to create, or with an error.
Repairing(m) == m = "ensure" /\ soft /\ Reachable /\ ~CoreTables

EndCheck(m) ==
    /\ ~Repairing(m)
    /\ checking' = [checking EXCEPT ![m] = "none"]
    /\ schema' = IF Passed(m) THEN schema \cup {m} ELSE schema
    /\ UNCHANGED migrated

\* A request that finds the check running waits for the result, then looks again.
Request(h) ==
    /\ phase = "up" /\ pools > 0 /\ handler[h] = "idle" /\ "ensure" \notin schema
    /\ IF Free("ensure")
       THEN BeginCheck("ensure", h) /\ handler' = [handler EXCEPT ![h] = "checking"]
       ELSE UNCHANGED <<schema, checking, migrated>> /\ handler' = [handler EXCEPT ![h] = "waiting"]
    /\ UNCHANGED <<phase, pools, dialing, prepared, verified, task, workers, probe, up, soft,
                   faults>>

Recheck(h) ==
    /\ handler[h] = "waiting"
    /\ IF "ensure" \in schema
       THEN UNCHANGED <<schema, checking, migrated>> /\ handler' = [handler EXCEPT ![h] = "idle"]
       ELSE /\ Free("ensure") /\ BeginCheck("ensure", h)
            /\ handler' = [handler EXCEPT ![h] = "checking"]
    /\ UNCHANGED <<phase, pools, dialing, prepared, verified, task, workers, probe, up, soft,
                   faults>>

Checked(h) ==
    /\ handler[h] = "checking" /\ EndCheck("ensure")
    /\ handler' = [handler EXCEPT ![h] = "idle"]
    /\ UNCHANGED <<phase, pools, dialing, prepared, verified, task, workers, probe, up, soft,
                   faults>>

\* A local build creates what is missing statement by statement, each one committed on
\* its own: Postgres may go away after any of the groups, and the next check goes on.
Create(group) ==
    /\ checking["ensure"] # "none" \/ (phase = "preparing" /\ pools > 0)
    /\ Repairing("ensure")
    /\ group \notin migrated
    /\ \A i \in DOMAIN Groups :
          Groups[i] = group => \A j \in 1..(i - 1) : Groups[j] \in migrated
    /\ migrated' = migrated \cup {group}
    /\ UNCHANGED <<phase, pools, dialing, database, task, workers, probe, handler, up, soft, faults>>

RepairTenancy    == Create("tenancy")
RepairDirectory  == Create("directory")
RepairProcessing == Create("processing")
RepairProducts   == Create("products")

RepairStep == RepairTenancy \/ RepairDirectory \/ RepairProcessing \/ RepairProducts

-----------------------------------------------------------------------------
(* The life of the process.                                                *)

Connect ==
    /\ phase = "boot"
    /\ pools' = IF up THEN 1 ELSE 0
    /\ phase' = "preparing"
    /\ UNCHANGED <<dialing, database, task, workers, probe, handler, world>>

\* What cannot be prepared is left to the probes; the workers start anyway.
Start ==
    /\ phase = "preparing"
    /\ IF pools > 0 THEN EndCheck("ensure") /\ prepared' = Passed("ensure")
                    ELSE UNCHANGED <<schema, checking, migrated, prepared>>
    /\ EnsureWorkers(pools > 0)
    /\ phase' = "up"
    /\ UNCHANGED <<pools, dialing, verified, task, probe, handler, up, soft, faults>>

\* The stop signal wakes the workers; their tasks are then cancelled.
Stop ==
    /\ phase = "up"
    /\ phase' = "stopping"
    /\ UNCHANGED <<pools, dialing, database, task, workers, probe, handler, world>>

\* With the workers gone, and no error of theirs, the pool is closed and what was known
\* of it forgotten.
Stopped ==
    /\ phase = "stopping" /\ \A w \in Workers : known[w] \notin {"running", "failed"}
    /\ phase' = "stopped" /\ pools' = 0 /\ schema' = {}
    /\ UNCHANGED <<dialing, checking, prepared, verified, task, workers, probe, handler, world>>

\* Waiting for a task that failed raises its error again, now or before the stop: the
\* shutdown ends there, with the pool open and other tasks perhaps still to end.
Aborted ==
    /\ phase = "stopping" /\ \E w \in Workers : known[w] = "failed"
    /\ phase' = "aborted"
    /\ UNCHANGED <<pools, dialing, database, task, workers, probe, handler, world>>

-----------------------------------------------------------------------------
(* A readiness request: the pool, the shared task, the workers, Redis.     *)

\* Probes that come while the task runs share it.
Joined(p) ==
    /\ probe' = [probe EXCEPT ![p] = [step |-> "joined"]]
    /\ task' = IF task = NoTask THEN [step |-> "connect", rls |-> FALSE] ELSE task

Ask(p) ==
    /\ phase = "up" /\ probe[p].step \in {"idle", "answered"}
    /\ \/ pools > 0 /\ Joined(p) /\ UNCHANGED dialing
       \/ /\ pools = 0 /\ dialing = "none"
          /\ dialing' = p /\ probe' = [probe EXCEPT ![p] = [step |-> "dial"]] /\ UNCHANGED task
       \/ /\ pools = 0 /\ dialing # "none"
          /\ probe' = [probe EXCEPT ![p] = [step |-> "queue"]] /\ UNCHANGED <<dialing, task>>
    /\ UNCHANGED <<phase, pools, database, workers, handler, world>>

StillNoPool == pools = 0

TakeLock(p) ==
    /\ probe[p].step = "queue" /\ dialing = "none" /\ phase # "stopped"
    /\ IF StillNoPool
       THEN dialing' = p /\ probe' = [probe EXCEPT ![p] = [step |-> "dial"]] /\ UNCHANGED task
       ELSE Joined(p) /\ UNCHANGED dialing
    /\ UNCHANGED <<phase, pools, database, workers, handler, world>>

Dialed(p) ==
    /\ probe[p].step = "dial" /\ phase # "stopped"
    /\ dialing' = "none"
    /\ IF up
       THEN pools' = pools + 1 /\ Joined(p)
       ELSE /\ probe' = [probe EXCEPT ![p] = [step |-> "told", ok |-> FALSE]]
            /\ UNCHANGED <<pools, task>>
    /\ UNCHANGED <<phase, database, workers, handler, world>>

\* The result is back: the workers are looked at, then Redis is asked, which
\* may not answer.
Look(p) ==
    /\ probe[p].step = "told"
    /\ LET ok == probe[p].ok /\ \A w \in Workers : known[w] = "running" /\ Healthy(w) IN
       probe' = [probe EXCEPT ![p] = [step |-> "ping", ok |-> ok]]
    /\ UNCHANGED <<phase, pools, dialing, database, task, workers, handler, world>>

Answer(p) ==
    /\ probe[p].step = "ping"
    /\ \/ probe' = [probe EXCEPT ![p] = [step |-> "answered", ready |-> @.ok]] /\ UNCHANGED faults
       \/ /\ faults < MaxFaults /\ faults' = faults + 1
          /\ probe' = [probe EXCEPT ![p] = [step |-> "answered", ready |-> FALSE]]
    /\ UNCHANGED <<phase, pools, dialing, database, task, workers, handler, up, soft, migrated>>

\* A request that is given up releases the lock; the shared task goes on without it.
GiveUp(p) ==
    /\ probe[p].step \in {"queue", "dial", "joined"} /\ faults < MaxFaults
    /\ faults' = faults + 1
    /\ probe' = [probe EXCEPT ![p] = Asleep]
    /\ dialing' = IF dialing = p THEN "none" ELSE dialing
    /\ UNCHANGED <<phase, pools, database, task, workers, handler, up, soft, migrated>>

-----------------------------------------------------------------------------
(* The readiness task.                                                     *)

Report(ok) ==
    /\ task' = NoTask
    /\ probe' = [p \in Probes |-> IF probe[p].step = "joined"
                                  THEN [step |-> "told", ok |-> ok] ELSE probe[p]]

GoOn(step) == task' = [task EXCEPT !.step = step] /\ UNCHANGED probe

PingPostgres ==
    /\ task.step = "connect"
    /\ IF Reachable THEN GoOn("assert") ELSE Report(FALSE)
    /\ UNCHANGED <<phase, pools, dialing, database, workers, handler, world>>

\* Row security is asked for where the schema comes from the migrations alone.  That the
\* production schema fails its check is reported, and stops nothing.
AssertSchema ==
    /\ task.step \in {"assert", "asserting"}
    /\ IF task.step = "assert" /\ ~soft /\ "assert" \notin schema
       THEN Free("assert") /\ BeginCheck("assert", "task") /\ GoOn("asserting")
       ELSE /\ IF task.step = "asserting" THEN EndCheck("assert")
                                          ELSE UNCHANGED <<schema, checking, migrated>>
            /\ task' = [step |-> "prepare", rls |-> task.step = "assert" \/ Passed("assert")]
            /\ UNCHANGED probe
    /\ UNCHANGED <<phase, pools, dialing, prepared, verified, workers, handler, up, soft, faults>>

EnsureSchema ==
    /\ task.step \in {"prepare", "ensuring"} /\ ~prepared
    /\ IF task.step = "ensuring"
       THEN EndCheck("ensure") /\ IF Passed("ensure") THEN GoOn("sync") ELSE Report(FALSE)
       ELSE IF "ensure" \in schema
            THEN UNCHANGED <<schema, checking, migrated>> /\ GoOn("sync")
            ELSE Free("ensure") /\ BeginCheck("ensure", "task") /\ GoOn("ensuring")
    /\ UNCHANGED <<phase, pools, dialing, prepared, verified, workers, handler, up, soft, faults>>

Synced == Reachable

SyncWorkflows ==
    /\ task.step = "sync"
    /\ prepared' = Synced
    /\ IF Synced THEN GoOn("verify") ELSE Report(FALSE)
    /\ UNCHANGED <<phase, pools, dialing, schema, checking, verified, workers, handler, world>>

RepairExports ==
    migrated' = IF "exports" \in Workers /\ CoreTables /\ soft THEN Parts ELSE migrated

Verified == verified \/ (\A w \in Workers : Tables(w)) \/ (soft /\ CoreTables)

\* A pool that was prepared before skips straight to the workers' own tables.
VerifyWorkers ==
    /\ task.step = "verify" \/ (task.step = "prepare" /\ prepared)
    /\ verified' = Verified
    /\ IF verified THEN UNCHANGED migrated ELSE RepairExports
    /\ IF Verified THEN GoOn("workers") ELSE Report(FALSE)
    /\ UNCHANGED <<phase, pools, dialing, schema, checking, prepared, workers, handler, up,
                   soft, faults>>

StartWorkers ==
    /\ task.step = "workers"
    /\ EnsureWorkers(TRUE)
    /\ Report(task.rls)
    /\ UNCHANGED <<phase, pools, dialing, database, handler, world>>

-----------------------------------------------------------------------------
(* The world around the process.                                           *)

Fails ==
    /\ up /\ faults < MaxFaults
    /\ up' = FALSE /\ faults' = faults + 1
    /\ UNCHANGED <<phase, pools, dialing, database, task, workers, probe, handler, soft, migrated>>

Returns ==
    /\ ~up /\ up' = TRUE
    /\ UNCHANGED <<phase, pools, dialing, database, task, workers, probe, handler, soft, migrated,
                   faults>>

Migrate ==
    /\ up /\ migrated # Parts
    /\ migrated' = IF Core \subseteq migrated THEN Parts ELSE migrated \cup Core
    /\ UNCHANGED <<phase, pools, dialing, database, task, workers, probe, handler, up, soft, faults>>

-----------------------------------------------------------------------------
Init ==
    /\ phase = "boot" /\ up \in BOOLEAN /\ soft \in BOOLEAN /\ migrated \in {{}, Core, Parts}
    /\ pools = 0 /\ dialing = "none" /\ schema = {}
    /\ checking = [m \in Modes |-> "none"]
    /\ prepared = FALSE /\ verified = FALSE /\ task = NoTask
    /\ known = [w \in Workers |-> "absent"] /\ live = [w \in Workers |-> 0]
    /\ health = [w \in Workers |-> New] /\ proved = {}
    /\ probe = [p \in Probes |-> Asleep] /\ handler = [h \in Handlers |-> "idle"]
    /\ faults = 0

TaskStep ==
    \/ PingPostgres \/ AssertSchema \/ EnsureSchema \/ SyncWorkflows \/ VerifyWorkers
    \/ StartWorkers

ProbeStep(p) == Ask(p) \/ TakeLock(p) \/ Dialed(p) \/ Look(p) \/ Answer(p)

HandlerStep(h) == Recheck(h) \/ Checked(h)

Next ==
    \/ Connect \/ Start \/ Stop \/ Stopped \/ Aborted \/ TaskStep \/ RepairStep
    \/ \E w \in Workers : Tick(w) \/ Dies(w) \/ Hangs(w) \/ Cancelled(w)
    \/ \E p \in Probes : ProbeStep(p) \/ GiveUp(p)
    \/ \E h \in Handlers : Request(h) \/ HandlerStep(h)
    \/ Fails \/ Returns \/ Migrate

\* The event loop runs every step that can run and the workers tick; the
\* platform keeps asking for readiness; what is down is brought back.
Fairness ==
    /\ WF_vars(Connect) /\ WF_vars(Start) /\ WF_vars(TaskStep) /\ WF_vars(RepairStep)
    /\ WF_vars(Returns) /\ WF_vars(Migrate)
    /\ \A w \in Workers : WF_vars(Tick(w)) /\ WF_vars(Cancelled(w))
    /\ \A p \in Probes : WF_vars(ProbeStep(p))
    /\ \A h \in Handlers : WF_vars(HandlerStep(h))

Spec == Init /\ [][Next]_vars

LiveSpec == Spec /\ Fairness

-----------------------------------------------------------------------------
(* Properties.                                                             *)

Probing == [step : {"idle", "queue", "dial", "joined"}]
               \cup [step : {"told", "ping"}, ok : BOOLEAN]
               \cup [step : {"answered"}, ready : BOOLEAN]
Tasks == {NoTask} \cup [step : {"connect", "assert", "asserting", "prepare", "ensuring", "sync",
                               "verify", "workers"},
                       rls : BOOLEAN]
States == [succeeded : BOOLEAN, failures : 0..MaxFailures, stale : BOOLEAN]

ProcessOK ==
    /\ phase \in {"boot", "preparing", "up", "stopping", "stopped", "aborted"}
    /\ pools \in Nat /\ dialing \in Probes \cup {"none"}

DatabaseOK ==
    /\ schema \subseteq Modes /\ prepared \in BOOLEAN /\ verified \in BOOLEAN
    /\ checking \in [Modes -> Handlers \cup {"task", "none"}]

WorkersOK ==
    /\ known \in [Workers -> {"absent", "running", "over", "failed"}] /\ live \in [Workers -> Int]
    /\ health \in [Workers -> States] /\ proved \subseteq Workers

CallsOK ==
    /\ probe \in [Probes -> Probing] /\ task \in Tasks
    /\ handler \in [Handlers -> {"idle", "waiting", "checking"}]

WorldOK ==
    /\ up \in BOOLEAN /\ soft \in BOOLEAN
    /\ migrated \subseteq Parts /\ faults \in 0..MaxFaults

\* Every variable stays within its type.
TypeOK == ProcessOK /\ DatabaseOK /\ WorkersOK /\ CallsOK /\ WorldOK

\* However many probes come at once, while the pool is still missing and after
\* a worker ended, the process opens one pool and runs each worker once.
OneOfEach == pools <= 1 /\ \A w \in Workers : live[w] <= 1

\* A check that failed leaves nothing behind, however far its repair came: what
\* the process takes for checked or prepared has the tables every component
\* needs, and what it takes for verified those of its workers too.
SchemaHonest ==
    /\ schema # {} \/ prepared => Core \subseteq migrated
    /\ verified => Core \subseteq migrated /\ ("exports" \in Workers => "exports" \in migrated)

\* Nothing survives the shutdown: no worker runs once the pool is closed, not
\* even one a probe was about to start when the stop signal came.  (The error of
\* a failed worker ends the shutdown before it closes the pool: see Aborted.)
NoneAfterStop == phase = "stopped" => \A w \in Workers : live[w] = 0

Well == [succeeded |-> TRUE, failures |-> 0, stale |-> FALSE]

\* A process that stays up gets well without a restart, whatever was down when
\* it came up and whatever ended since: every worker runs and reports success,
\* and readiness is answered again and again.
Recovers ==
    <>[](phase = "up") =>
        /\ <>[](\A w \in Workers : known[w] = "running" /\ health[w] = Well)
        /\ []<>(\E p \in Probes : probe[p].step = "answered" /\ probe[p].ready)
=============================================================================
