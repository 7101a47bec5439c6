-------------------------- MODULE Supervision_proofs --------------------------
(***************************************************************************)
(* Theorems about Supervision, for every set of workers, probes and        *)
(* handlers and every bound on failures and faults; then those about       *)
(* StatusPage, an instance of which over StatusTables follows them.        *)
(***************************************************************************)
EXTENDS Supervision, StatusTables, FiniteSetTheorems, TLAPS

\* The registry counts: a worker runs once if it is known to run, else not.
Counted == \A w \in Workers : live[w] = IF known[w] = "running" THEN 1 ELSE 0

\* A closed process has no worker that is known to run.
Shut == phase = "stopped" => \A w \in Workers : known[w] # "running"

\* Whoever dials holds the lock, and dials because there is no pool.
Dialing ==
    /\ \A p \in Probes : probe[p].step = "dial" <=> dialing = p
    /\ dialing # "none" => pools = 0
    /\ phase \in {"boot", "preparing"} => dialing = "none"
    /\ phase = "boot" => pools = 0
    /\ pools <= 1

\* What was concluded from a check that passed stays true, as parts of the schema are only
\* ever added.
Concluded ==
    /\ schema # {} \/ prepared \/ task.step \in {"sync", "verify"} => Core \subseteq migrated
    /\ verified => Core \subseteq migrated /\ ("exports" \in Workers => "exports" \in migrated)

\* No probe is answered before the process is up.
Early == phase \in {"boot", "preparing"} => \A p \in Probes : probe[p].step = "idle"

IInv == TypeOK /\ Counted /\ Shut /\ Early /\ Dialing /\ Concluded

-----------------------------------------------------------------------------
(* Which steps may change what.                                            *)

LEMMA ProcessWriters ==
    ASSUME Next
    PROVE  \/ UNCHANGED <<phase, pools, dialing>>
           \/ Connect \/ Start \/ Stop \/ Stopped \/ Aborted
           \/ \E p \in Probes : Ask(p) \/ TakeLock(p) \/ Dialed(p) \/ GiveUp(p)
BY DEF Next, TaskStep, RepairStep, ProbeStep, HandlerStep, PingPostgres, AssertSchema,
       EnsureSchema, SyncWorkflows, VerifyWorkers, StartWorkers, RepairTenancy,
       RepairDirectory, RepairProcessing, RepairProducts, Create, Tick, Dies, Hangs,
       Cancelled, EndOfTask, Look, Answer, Request, Recheck, Checked, Fails, Returns, Migrate

LEMMA WorkersWriters ==
    ASSUME Next
    PROVE  \/ UNCHANGED workers
           \/ Start \/ StartWorkers
           \/ \E w \in Workers : Tick(w) \/ Dies(w) \/ Hangs(w) \/ Cancelled(w)
BY DEF Next, TaskStep, RepairStep, ProbeStep, HandlerStep, PingPostgres, AssertSchema,
       EnsureSchema, SyncWorkflows, VerifyWorkers, RepairTenancy, RepairDirectory,
       RepairProcessing, RepairProducts, Create, Connect, Stop, Stopped, Aborted, Ask, TakeLock,
       Dialed, Look, Answer, GiveUp, Request, Recheck, Checked, Fails, Returns, Migrate

LEMMA DatabaseWriters ==
    ASSUME Next
    PROVE  \/ UNCHANGED database
           \/ Start \/ Stopped \/ AssertSchema \/ EnsureSchema \/ SyncWorkflows \/ VerifyWorkers
           \/ \E h \in Handlers : Request(h) \/ Recheck(h) \/ Checked(h)
BY DEF Next, TaskStep, RepairStep, ProbeStep, HandlerStep, PingPostgres, StartWorkers,
       RepairTenancy, RepairDirectory, RepairProcessing, RepairProducts, Create, Connect, Stop,
       Aborted, Tick, Dies, Hangs, Cancelled, EndOfTask, Ask, TakeLock, Dialed, Look, Answer,
       GiveUp, Fails, Returns, Migrate

LEMMA CallsWriters ==
    ASSUME Next
    PROVE  \/ UNCHANGED <<probe, task, handler>>
           \/ TaskStep
           \/ \E p \in Probes : ProbeStep(p) \/ GiveUp(p)
           \/ \E h \in Handlers : Request(h) \/ HandlerStep(h)
BY DEF Next, RepairStep, RepairTenancy, RepairDirectory, RepairProcessing, RepairProducts,
       Create, Connect, Start, Stop, Stopped, Aborted, Tick, Dies, Hangs, Cancelled, EndOfTask,
       Fails, Returns, Migrate

LEMMA WorldWriters ==
    ASSUME Next
    PROVE  \/ UNCHANGED world
           \/ RepairStep \/ VerifyWorkers \/ Fails \/ Returns \/ Migrate
           \/ \E w \in Workers : Dies(w) \/ Hangs(w) \/ Cancelled(w)
           \/ \E p \in Probes : Answer(p) \/ GiveUp(p)
BY DEF Next, TaskStep, ProbeStep, HandlerStep, PingPostgres, AssertSchema, EnsureSchema,
       SyncWorkflows, StartWorkers, Connect, Start, Stop, Stopped, Aborted, Tick,
       Ask, TakeLock, Dialed, Look, Request, Recheck, Checked, BeginCheck, EndCheck, world

-----------------------------------------------------------------------------
(* Types.                                                                  *)

LEMMA ProcessTyped == ASSUME ProcessOK, Next PROVE ProcessOK'
<1>1. CASE Connect \/ Start \/ Stop \/ Stopped \/ Aborted
  BY <1>1 DEF Connect, Start, Stop, Stopped, Aborted, ProcessOK
<1>2. ASSUME NEW p \in Probes, Ask(p) \/ TakeLock(p) \/ Dialed(p) \/ GiveUp(p)
      PROVE  ProcessOK'
  BY <1>2 DEF Ask, TakeLock, Dialed, GiveUp, ProcessOK
<1>3. CASE UNCHANGED <<phase, pools, dialing>>
  BY <1>3 DEF ProcessOK
<1>. QED
  BY <1>1, <1>2, <1>3, ProcessWriters

LEMMA NewHealth == New \in States
BY SupervisionAssumption DEF New, States

LEMMA WorkersTyped == ASSUME TypeOK, Next PROVE WorkersOK'
<1>1. ASSUME NEW withPool, EnsureWorkers(withPool)
      PROVE  WorkersOK'
  BY <1>1, NewHealth DEF TypeOK, WorkersOK, EnsureWorkers
<1>2. CASE Start \/ StartWorkers
  BY <1>1, <1>2 DEF Start, StartWorkers
<1>3. ASSUME NEW w \in Workers, Tick(w)
      PROVE  WorkersOK'
  <2>1. \A ok \in BOOLEAN : TickReports(w, ok) \in States
    BY SupervisionAssumption DEF TickReports, States, TypeOK, WorkersOK
  <2>2. Tables(w) \in BOOLEAN
    BY DEF Tables, ExportTables, CoreTables
  <2>. QED
    BY <1>3, <2>1, <2>2 DEF Tick, TypeOK, WorkersOK
<1>4. ASSUME NEW w \in Workers, Dies(w) \/ Cancelled(w)
      PROVE  WorkersOK'
  BY <1>4 DEF Dies, Cancelled, EndOfTask, TypeOK, WorkersOK
<1>5. ASSUME NEW w \in Workers, Hangs(w)
      PROVE  WorkersOK'
  BY <1>5 DEF Hangs, States, TypeOK, WorkersOK
<1>6. CASE UNCHANGED workers
  BY <1>6 DEF workers, TypeOK, WorkersOK
<1>. QED
  BY <1>2, <1>3, <1>4, <1>5, <1>6, WorkersWriters

LEMMA DatabaseTyped == ASSUME TypeOK, Next PROVE DatabaseOK'
<1>1. ASSUME NEW m \in Modes, EndCheck(m)
      PROVE  schema' \subseteq Modes /\ checking' \in [Modes -> Handlers \cup {"task", "none"}]
  BY <1>1 DEF EndCheck, TypeOK, DatabaseOK
<1>2. ASSUME NEW m \in Modes, NEW who \in Handlers \cup {"task"}, BeginCheck(m, who)
      PROVE  schema' \subseteq Modes /\ checking' \in [Modes -> Handlers \cup {"task", "none"}]
  BY <1>2 DEF BeginCheck, TypeOK, DatabaseOK
<1>3. "assert" \in Modes /\ "ensure" \in Modes
  BY DEF Modes
<1>4. CASE Start
  BY <1>1, <1>3, <1>4 DEF Start, Passed, CoreTables, TypeOK, DatabaseOK
<1>5. CASE Stopped
  BY <1>5 DEF Stopped, TypeOK, DatabaseOK
<1>6. CASE AssertSchema
  BY <1>1, <1>2, <1>3, <1>6 DEF AssertSchema, TypeOK, DatabaseOK
<1>7. CASE EnsureSchema
  BY <1>1, <1>2, <1>3, <1>7 DEF EnsureSchema, TypeOK, DatabaseOK
<1>8. CASE SyncWorkflows
  BY <1>8 DEF SyncWorkflows, Synced, Reachable, TypeOK, DatabaseOK, WorldOK
<1>9. CASE VerifyWorkers
  BY <1>9 DEF VerifyWorkers, Verified, TypeOK, DatabaseOK
<1>10. ASSUME NEW h \in Handlers, Request(h) \/ Recheck(h) \/ Checked(h)
       PROVE  DatabaseOK'
  BY <1>1, <1>2, <1>3, <1>10 DEF Request, Recheck, Checked, TypeOK, DatabaseOK
<1>11. CASE UNCHANGED database
  BY <1>11 DEF database, TypeOK, DatabaseOK
<1>. QED
  BY <1>4, <1>5, <1>6, <1>7, <1>8, <1>9, <1>10, <1>11, DatabaseWriters

LEMMA WorldTyped == ASSUME TypeOK, Next PROVE WorldOK'
<1>1. \A group \in Core : Create(group) => WorldOK'
  BY DEF Create, Parts, TypeOK, WorldOK
<1>2. {"tenancy", "directory", "processing", "products"} \subseteq Core
  BY DEF Core, Groups, Range
<1>3. CASE RepairStep
  BY <1>1, <1>2, <1>3
     DEF RepairStep, RepairTenancy, RepairDirectory, RepairProcessing, RepairProducts
<1>4. CASE VerifyWorkers
  BY <1>4 DEF VerifyWorkers, RepairExports, TypeOK, WorldOK
<1>5. CASE Returns \/ Migrate
  BY <1>5 DEF Returns, Migrate, Parts, TypeOK, WorldOK
<1>6. CASE Fails
  <2>1. faults' \in 0..MaxFaults
    BY <1>6, SupervisionAssumption DEF Fails, TypeOK, WorldOK
  <2>. QED
    BY <1>6, <2>1 DEF Fails, TypeOK, WorldOK
<1>7. ASSUME \/ \E w \in Workers : Dies(w) \/ Hangs(w) \/ Cancelled(w)
             \/ \E p \in Probes : Answer(p) \/ GiveUp(p)
      PROVE  WorldOK'
  <2>1. faults' \in 0..MaxFaults
    BY <1>7, SupervisionAssumption
       DEF Dies, Hangs, Cancelled, EndOfTask, Answer, GiveUp, TypeOK, WorldOK
  <2>2. UNCHANGED <<up, soft, migrated>>
    BY <1>7 DEF Dies, Hangs, Cancelled, Answer, GiveUp, EndOfTask
  <2>. QED
    BY <2>1, <2>2 DEF TypeOK, WorldOK
<1>8. CASE UNCHANGED world
  BY <1>8 DEF world, TypeOK, WorldOK
<1>. QED
  BY <1>3, <1>4, <1>5, <1>6, <1>7, <1>8, WorldWriters

TaskSteps == {"connect", "assert", "asserting", "prepare", "ensuring", "sync", "verify", "workers"}

TaskWell == probe \in [Probes -> Probing] /\ task \in Tasks

LEMMA GoesOn ==
    ASSUME CallsOK, task.step # "none", NEW step \in TaskSteps, GoOn(step)
    PROVE  TaskWell'
BY DEF GoOn, CallsOK, NoTask, Tasks, TaskSteps, TaskWell

LEMMA CallsReported ==
    ASSUME CallsOK, NEW ok \in BOOLEAN, Report(ok)
    PROVE  TaskWell'
<1>1. [step |-> "told", ok |-> ok] \in Probing /\ NoTask \in Tasks
  BY DEF Probing, Tasks
<1>. QED
  BY <1>1 DEF Report, CallsOK, TaskWell

LEMMA JoinsIn ==
    ASSUME CallsOK, NEW p \in Probes, Joined(p)
    PROVE  TaskWell'
<1>1. [step |-> "joined"] \in Probing /\ [step |-> "connect", rls |-> FALSE] \in Tasks
  BY DEF Probing, Tasks
<1>. QED
  BY <1>1 DEF Joined, CallsOK, TaskWell

LEMMA TaskTyped == ASSUME TypeOK, TaskStep PROVE CallsOK'
<1>1. CallsOK /\ task.step # "none" /\ UNCHANGED handler
  BY DEF TypeOK, TaskStep, PingPostgres, AssertSchema, EnsureSchema, SyncWorkflows,
         VerifyWorkers, StartWorkers
<1>2. ASSUME \/ \E step \in TaskSteps : GoOn(step)
             \/ \E ok \in BOOLEAN : Report(ok)
      PROVE  CallsOK'
  BY <1>1, <1>2, GoesOn, CallsReported DEF TaskWell, CallsOK
<1>3. CASE PingPostgres
  BY <1>2, <1>3 DEF PingPostgres, TaskSteps
<1>4. CASE AssertSchema
  <2>1. CASE task.step = "assert" /\ ~soft /\ "assert" \notin schema
    BY <1>2, <1>4, <2>1 DEF AssertSchema, TaskSteps
  <2>2. CASE ~(task.step = "assert" /\ ~soft /\ "assert" \notin schema)
    <3>1. PICK rls \in BOOLEAN : task' = [step |-> "prepare", rls |-> rls]
      BY <1>4, <2>2 DEF AssertSchema, Passed, CoreTables
    <3>2. task' \in Tasks /\ UNCHANGED probe
      BY <1>4, <2>2, <3>1 DEF AssertSchema, Tasks
    <3>. QED
      BY <1>1, <3>2 DEF CallsOK
  <2>. QED
    BY <2>1, <2>2
<1>5. CASE EnsureSchema
  BY <1>2, <1>5 DEF EnsureSchema, TaskSteps
<1>6. CASE SyncWorkflows
  BY <1>2, <1>6 DEF SyncWorkflows, TaskSteps
<1>7. CASE VerifyWorkers
  BY <1>2, <1>7 DEF VerifyWorkers, TaskSteps
<1>8. CASE StartWorkers
  <2>1. task.rls \in BOOLEAN
    BY <1>1, <1>8 DEF StartWorkers, Tasks, NoTask, CallsOK
  <2>. QED
    BY <1>2, <1>8, <2>1 DEF StartWorkers
<1>. QED
  BY <1>3, <1>4, <1>5, <1>6, <1>7, <1>8 DEF TaskStep

LEMMA CallsTyped == ASSUME TypeOK, Next PROVE CallsOK'
<1>1. CallsOK
  BY DEF TypeOK
<1>2. ASSUME NEW p \in Probes, ProbeStep(p) \/ GiveUp(p)
      PROVE  CallsOK'
  <2>1. [step |-> "dial"] \in Probing /\ [step |-> "queue"] \in Probing /\ Asleep \in Probing
    BY DEF Probing, Asleep
  <2>2. \A ok \in BOOLEAN : /\ [step |-> "told", ok |-> ok] \in Probing
                            /\ [step |-> "ping", ok |-> ok] \in Probing
                            /\ [step |-> "answered", ready |-> ok] \in Probing
    BY DEF Probing
  <2>3. CASE Ask(p) \/ TakeLock(p) \/ Dialed(p) \/ GiveUp(p)
    <3>1. CASE Joined(p) /\ UNCHANGED handler
      BY <1>1, <3>1, JoinsIn DEF TaskWell, CallsOK
    <3>2. CASE ~Joined(p)
      BY <1>1, <2>1, <2>2, <2>3, <3>2 DEF Ask, TakeLock, Dialed, GiveUp, CallsOK
    <3>. QED
      BY <2>3, <3>1, <3>2 DEF Ask, TakeLock, Dialed, GiveUp
  <2>4. CASE Look(p)
    BY <1>1, <2>2, <2>4 DEF Look, Probing, CallsOK
  <2>5. CASE Answer(p)
    <3>1. probe[p].ok \in BOOLEAN
      BY <1>1, <2>5 DEF Answer, Probing, CallsOK
    <3>2. \E ready \in BOOLEAN :
              probe' = [probe EXCEPT ![p] = [step |-> "answered", ready |-> ready]]
      BY <2>5, <3>1 DEF Answer
    <3>. QED
      BY <1>1, <2>2, <2>5, <3>2 DEF Answer, CallsOK
  <2>. QED
    BY <1>2, <2>3, <2>4, <2>5 DEF ProbeStep
<1>3. ASSUME NEW h \in Handlers, Request(h) \/ HandlerStep(h)
      PROVE  CallsOK'
  BY <1>1, <1>3 DEF Request, HandlerStep, Recheck, Checked, CallsOK
<1>4. CASE UNCHANGED <<probe, task, handler>>
  BY <1>1, <1>4 DEF CallsOK
<1>. QED
  BY <1>2, <1>3, <1>4, TaskTyped, CallsWriters

LEMMA TypeStep == TypeOK /\ [Next]_vars => TypeOK'
<1>1. CASE UNCHANGED vars
  BY <1>1 DEF TypeOK, ProcessOK, DatabaseOK, WorkersOK, CallsOK, WorldOK, vars, database,
              workers, world
<1>2. CASE Next
  <2>1. TypeOK => ProcessOK
    BY DEF TypeOK
  <2>. QED
    BY <1>2, <2>1, ProcessTyped, DatabaseTyped, WorkersTyped, CallsTyped, WorldTyped
       DEF TypeOK
<1>. QED
  BY <1>1, <1>2

LEMMA InitTyped == Init => TypeOK
<1>. SUFFICES ASSUME Init PROVE TypeOK
  OBVIOUS
<1>1. ProcessOK /\ DatabaseOK
  BY DEF Init, ProcessOK, DatabaseOK
<1>2. WorkersOK
  BY NewHealth DEF Init, WorkersOK
<1>3. CallsOK
  BY DEF Init, CallsOK, Asleep, NoTask, Probing, Tasks
<1>4. WorldOK
  <2>1. faults \in 0..MaxFaults
    BY SupervisionAssumption DEF Init
  <2>2. migrated \subseteq Parts
    BY DEF Init, Parts
  <2>. QED
    BY <2>1, <2>2 DEF Init, WorldOK
<1>. QED
  BY <1>1, <1>2, <1>3, <1>4 DEF TypeOK

\* Every variable keeps its type, whatever fails and in whatever order.
THEOREM Typed == Spec => []TypeOK
BY InitTyped, TypeStep, PTL DEF Spec

-----------------------------------------------------------------------------
(* Workers.                                                                *)

LEMMA CountedStep == ASSUME TypeOK, Counted, Next PROVE Counted'
<1>. USE DEF TypeOK, WorkersOK, Counted
<1>1. ASSUME NEW withPool, EnsureWorkers(withPool)
      PROVE  Counted'
  BY <1>1 DEF EnsureWorkers, ToStart, Startable
<1>2. CASE Start \/ StartWorkers
  BY <1>1, <1>2 DEF Start, StartWorkers
<1>3. ASSUME NEW w \in Workers, Tick(w) \/ Hangs(w)
      PROVE  Counted'
  BY <1>3 DEF Tick, Hangs
<1>4. ASSUME NEW w \in Workers, Dies(w) \/ Cancelled(w)
      PROVE  Counted'
  BY <1>4 DEF Dies, Cancelled, EndOfTask
<1>5. CASE UNCHANGED workers
  BY <1>5 DEF workers
<1>. QED
  BY <1>2, <1>3, <1>4, <1>5, WorkersWriters

LEMMA ShutStep == ASSUME TypeOK, Shut, Next PROVE Shut'
<1>. USE DEF Shut
<1>1. CASE phase' = "stopped" /\ phase # "stopped"
  <2>1. Stopped
    BY <1>1, ProcessWriters DEF Connect, Start, Stop, Aborted, Ask, TakeLock, Dialed, GiveUp
  <2>. QED
    BY <2>1 DEF Stopped, workers
<1>2. CASE phase' = "stopped" /\ phase = "stopped"
  <2>1. ASSUME EnsureWorkers(TRUE)
        PROVE  known' = [w \in Workers |-> known[w]]
    BY <1>2, <2>1 DEF EnsureWorkers, ToStart, Running
  <2>2. UNCHANGED workers \/ StartWorkers
    BY <1>2, WorkersWriters, Shut DEF Start, Tick, Dies, Hangs, Cancelled
  <2>. QED
    BY <1>2, <2>1, <2>2 DEF StartWorkers, workers
<1>. QED
  BY <1>1, <1>2

-----------------------------------------------------------------------------
(* The pool.                                                               *)

LEMMA EarlyStep == ASSUME TypeOK, Early, Next PROVE Early'
<1>. SUFFICES ASSUME phase' \in {"boot", "preparing"}, NEW p \in Probes
              PROVE  probe'[p].step = "idle"
  BY DEF Early
<1>1. phase \in {"boot", "preparing"}
  BY ProcessWriters DEF Connect, Start, Stop, Stopped, Aborted, Ask, TakeLock, Dialed, GiveUp
<1>2. \A q \in Probes : probe[q].step = "idle"
  BY <1>1 DEF Early
<1>3. CASE TaskStep
  BY <1>2, <1>3
     DEF TaskStep, PingPostgres, AssertSchema, EnsureSchema, SyncWorkflows, VerifyWorkers,
         StartWorkers, GoOn, Report, TypeOK, CallsOK
<1>4. ASSUME NEW q \in Probes, ProbeStep(q) \/ GiveUp(q)
      PROVE  FALSE
  BY <1>1, <1>2, <1>4 DEF ProbeStep, Ask, TakeLock, Dialed, Look, Answer, GiveUp
<1>5. ASSUME NEW h \in Handlers, Request(h) \/ HandlerStep(h)
      PROVE  UNCHANGED probe
  BY <1>5 DEF Request, HandlerStep, Recheck, Checked
<1>. QED
  BY <1>2, <1>3, <1>4, <1>5, CallsWriters

LEMMA DialingStep == ASSUME TypeOK, Early, Dialing, Next PROVE Dialing'
<1>. USE DEF TypeOK, ProcessOK, CallsOK
<1>1. ASSUME UNCHANGED <<phase, pools, dialing>>,
             \A p \in Probes : probe'[p].step = "dial" <=> probe[p].step = "dial"
      PROVE  Dialing'
  BY <1>1 DEF Dialing
<1>2. CASE UNCHANGED probe /\ UNCHANGED <<phase, pools, dialing>>
  BY <1>1, <1>2
<1>3. ASSUME NEW ok, Report(ok), UNCHANGED <<phase, pools, dialing>>
      PROVE  Dialing'
  BY <1>1, <1>3 DEF Report
<1>4. CASE TaskStep
  BY <1>2, <1>3, <1>4
     DEF TaskStep, PingPostgres, AssertSchema, EnsureSchema, SyncWorkflows, VerifyWorkers,
         StartWorkers, GoOn
<1>5. ASSUME NEW h \in Handlers, Request(h) \/ HandlerStep(h)
      PROVE  Dialing'
  BY <1>2, <1>5 DEF Request, HandlerStep, Recheck, Checked
<1>6. CASE Connect \/ Start \/ Stop \/ Stopped \/ Aborted
  BY <1>6 DEF Connect, Start, Stop, Stopped, Aborted, Dialing
<1>7. ASSUME NEW p \in Probes, Look(p) \/ Answer(p)
      PROVE  Dialing'
  BY <1>1, <1>7 DEF Look, Answer
<1>8. ASSUME NEW p \in Probes, Ask(p)
      PROVE  Dialing'
  BY <1>8, SupervisionAssumption DEF Ask, Joined, Dialing
<1>9. ASSUME NEW p \in Probes, TakeLock(p)
      PROVE  Dialing'
  <2>1. CASE pools = 0
    <3>1. /\ dialing = "none" /\ dialing' = p /\ UNCHANGED <<phase, pools>>
          /\ probe' = [probe EXCEPT ![p] = [step |-> "dial"]]
          /\ probe[p].step = "queue"
      BY <1>9, <2>1 DEF TakeLock, StillNoPool
    <3>2. phase \notin {"boot", "preparing"}
      BY <3>1 DEF Early
    <3>. QED
      BY <2>1, <3>1, <3>2, SupervisionAssumption DEF Dialing
  <2>2. CASE pools # 0
    <3>1. UNCHANGED <<phase, pools, dialing>> /\ Joined(p) /\ probe[p].step = "queue"
      BY <1>9, <2>2 DEF TakeLock, StillNoPool
    <3>. QED
      BY <1>1, <3>1 DEF Joined
  <2>. QED
    BY <2>1, <2>2
<1>10. ASSUME NEW p \in Probes, Dialed(p)
       PROVE  Dialing'
  BY <1>10, SupervisionAssumption DEF Dialed, Joined, Dialing
<1>11. ASSUME NEW p \in Probes, GiveUp(p)
       PROVE  Dialing'
  BY <1>11, SupervisionAssumption DEF GiveUp, Asleep, Dialing
<1>12. CASE UNCHANGED <<probe, task, handler>>
  BY <1>2, <1>6, <1>8, <1>9, <1>10, <1>11, <1>12, ProcessWriters
<1>. QED
  BY <1>4, <1>5, <1>7, <1>8, <1>9, <1>10, <1>11, <1>12, CallsWriters DEF ProbeStep

-----------------------------------------------------------------------------
(* The schema.                                                             *)

LEMMA SchemaGrows == ASSUME TypeOK, Next PROVE migrated \subseteq migrated'
<1>1. CASE RepairStep
  BY <1>1 DEF RepairStep, RepairTenancy, RepairDirectory, RepairProcessing, RepairProducts,
              Create
<1>2. CASE VerifyWorkers
  BY <1>2 DEF VerifyWorkers, RepairExports, TypeOK, WorldOK
<1>3. CASE Migrate
  BY <1>3 DEF Migrate, TypeOK, WorldOK
<1>. QED
  BY <1>1, <1>2, <1>3, WorldWriters
     DEF world, Fails, Returns, Dies, Hangs, Cancelled, Answer, GiveUp, EndOfTask

LEMMA ConcludedStep == ASSUME TypeOK, Concluded, Next PROVE Concluded'
<1>1. migrated \subseteq migrated'
  BY SchemaGrows
<1>2. ASSUME NEW m \in Modes, EndCheck(m)
      PROVE  schema' # {} => Core \subseteq migrated
  BY <1>2 DEF EndCheck, Passed, CoreTables, Concluded
<1>3. "assert" \in Modes /\ "ensure" \in Modes
  BY DEF Modes
<1>4. ASSUME schema' # {} => Core \subseteq migrated,
             prepared' => Core \subseteq migrated,
             task'.step \in {"sync", "verify"} => Core \subseteq migrated,
             UNCHANGED verified
      PROVE  Concluded'
  BY <1>1, <1>4 DEF Concluded
<1>. DEFINE Told == \E ok : Report(ok)
<1>5. Told => task'.step = "none"
  BY DEF Report, NoTask
<1>6. \A step \in TaskSteps : GoOn(step) => task'.step = step
  BY DEF GoOn, TypeOK, CallsOK, Tasks, NoTask
<1>7. ASSUME UNCHANGED database,
             task'.step \in {"sync", "verify"} => task.step = task'.step
      PROVE  Concluded'
  BY <1>4, <1>7 DEF Concluded, database
<1>8. CASE Start
  BY <1>2, <1>3, <1>4, <1>8 DEF Start, Passed, CoreTables, Concluded
<1>9. CASE Stopped
  BY <1>4, <1>9 DEF Stopped, Concluded
<1>10. ASSUME NEW h \in Handlers, Request(h) \/ Recheck(h) \/ Checked(h)
      PROVE  Concluded'
  BY <1>2, <1>3, <1>4, <1>10 DEF Request, Recheck, Checked, BeginCheck, Concluded
<1>11. CASE AssertSchema
  <2>1. task'.step \in {"asserting", "prepare"}
    BY <1>11, <1>6 DEF AssertSchema, TaskSteps
  <2>2. (schema' # {} => Core \subseteq migrated) /\ UNCHANGED <<prepared, verified>>
    BY <1>2, <1>3, <1>11 DEF AssertSchema, BeginCheck, Concluded
  <2>. QED
    BY <1>4, <2>1, <2>2 DEF Concluded
<1>12. CASE EnsureSchema
  <2>1. task'.step \in {"sync", "verify"} => Core \subseteq migrated
    BY <1>12, <1>5, <1>6 DEF EnsureSchema, TaskSteps, Passed, CoreTables, Concluded
  <2>2. (schema' # {} => Core \subseteq migrated) /\ UNCHANGED <<prepared, verified>>
    BY <1>2, <1>3, <1>12 DEF EnsureSchema, BeginCheck, Concluded
  <2>. QED
    BY <1>4, <2>1, <2>2 DEF Concluded
<1>13. CASE SyncWorkflows
  BY <1>4, <1>13 DEF SyncWorkflows, Concluded
<1>14. CASE VerifyWorkers
  <2>1. Core \subseteq migrated
    BY <1>14 DEF VerifyWorkers, Concluded
  <2>2. verified' => ("exports" \in Workers => "exports" \in migrated')
    BY <1>1, <1>14 DEF VerifyWorkers, Verified, RepairExports, Tables, ExportTables, Parts,
                       Concluded
  <2>. QED
    BY <1>1, <1>14, <2>1, <2>2 DEF VerifyWorkers, Concluded
<1>15. CASE PingPostgres \/ StartWorkers
  <2>1. task'.step \in {"assert", "none"} /\ UNCHANGED database
    BY <1>15, <1>5, <1>6 DEF PingPostgres, StartWorkers, TaskSteps
  <2>. QED
    BY <1>7, <2>1
<1>16. ASSUME UNCHANGED database, ~TaskStep
       PROVE  Concluded'
  <2>1. ASSUME NEW p \in Probes, ProbeStep(p) \/ GiveUp(p)
        PROVE  task'.step \in {"sync", "verify"} => task.step = task'.step
    BY <2>1 DEF ProbeStep, Ask, TakeLock, Dialed, Look, Answer, GiveUp, Joined
  <2>2. ASSUME NEW h \in Handlers, Request(h) \/ HandlerStep(h)
        PROVE  UNCHANGED task
    BY <2>2 DEF Request, HandlerStep, Recheck, Checked
  <2>. QED
    BY <1>7, <1>16, <2>1, <2>2, CallsWriters
<1>. QED
  BY <1>8, <1>9, <1>10, <1>11, <1>12, <1>13, <1>14, <1>15, <1>16, DatabaseWriters DEF TaskStep

-----------------------------------------------------------------------------
LEMMA InitInvariant == Init => IInv
<1>. SUFFICES ASSUME Init PROVE IInv
  OBVIOUS
<1>1. Counted /\ Shut /\ Early
  BY DEF Init, Counted, Shut, Early, Asleep
<1>2. Dialing
  BY SupervisionAssumption DEF Init, Dialing, Asleep
<1>3. Concluded
  BY DEF Init, Concluded, NoTask
<1>. QED
  BY <1>1, <1>2, <1>3, InitTyped DEF IInv

LEMMA Inductive == IInv /\ [Next]_vars => IInv'
<1>1. CASE UNCHANGED vars
  BY <1>1, TypeStep DEF IInv, vars, workers, database, world, Counted, Shut, Early,
              Dialing, Concluded
<1>2. CASE Next
  BY <1>2, TypeStep, CountedStep, ShutStep, EarlyStep, DialingStep, ConcludedStep DEF IInv
<1>. QED
  BY <1>1, <1>2

LEMMA Invariant == Spec => []IInv
BY InitInvariant, Inductive, PTL DEF Spec

\* One pool and one task of each worker, however many probes race to make them.
THEOREM Single == Spec => []OneOfEach
<1>1. IInv => OneOfEach
  BY DEF IInv, Counted, Dialing, OneOfEach
<1>. QED
  BY <1>1, Invariant, PTL

\* What the process takes for checked, prepared or verified has its tables.
THEOREM Honest == Spec => []SchemaHonest
<1>1. IInv => SchemaHonest
  BY DEF IInv, Concluded, SchemaHonest
<1>. QED
  BY <1>1, Invariant, PTL

\* A closed process runs no worker.
THEOREM NoneLeft == Spec => []NoneAfterStop
<1>1. IInv => NoneAfterStop
  BY DEF IInv, Counted, Shut, NoneAfterStop
<1>. QED
  BY <1>1, Invariant, PTL

-----------------------------------------------------------------------------
(* Status pages, which show the health of the tenants' own services: the   *)
(* theorems about StatusPage, for every set of tenants, pages, services    *)
(* and incidents and every bound.                                          *)
Page == INSTANCE StatusPage

-----------------------------------------------------------------------------
(* Which steps of the status pages may change what.                        *)

LEMMA PageWriters ==
    ASSUME Page!Next
    PROVE  \/ UNCHANGED page
           \/ \E t \in Tenants, p \in Pages :
                 \/ \E s \in Slugs, b \in BOOLEAN : Page!CreatePage(t, p, s, b)
                 \/ Page!SeedPlatform(t, p)
           \/ \E c \in Callers : Page!UpdatePage(c) \/ Page!DeletePage(c) \/ Page!MovePage(c)
BY DEF Page!Next, Page!Asking, Page!SingleWrite, Page!Request, Page!Handling, Page!Probing,
       Page!Reads, Page!PatchPage, Page!RemovePage, Page!RequirePage, Page!PostService,
       Page!FindService, Page!SaveService, Page!UpdateService, Page!DeleteService,
       Page!PostIncident, Page!CreateIncident, Page!UpdateIncident, Page!DeleteIncident,
       Page!StartMove, Page!EndMove, Page!StartCycle, Page!PersistResult, Page!CycleFails,
       Page!NextBucket, Page!PurgeObservations, Page!Lookup, Page!TryCandidate, Page!TryStem,
       Page!ListPages, Page!ListPublished, Page!ListServices, Page!Reading, Page!HydratePage,
       Page!ReadUptime, Page!ReadLatency, Page!EndRead, Page!rows

\* A handler moves on only by its own steps.
LEMMA CallWriters ==
    ASSUME Page!Next
    PROVE  \/ UNCHANGED call
           \/ \E c \in Callers : Page!Request(c) \/ Page!Handling(c)
BY DEF Page!Next, Page!Asking, Page!SingleWrite, Page!Probing,
       Page!Reads, Page!CreatePage, Page!SeedPlatform,
       Page!UpdateService, Page!DeleteService,
       Page!UpdateIncident, Page!DeleteIncident,
       Page!StartCycle, Page!PersistResult, Page!CycleFails,
       Page!NextBucket, Page!PurgeObservations, Page!Lookup, Page!TryCandidate, Page!TryStem,
       Page!ListPages, Page!ListPublished, Page!ListServices, Page!Reading, Page!HydratePage,
       Page!ReadUptime, Page!ReadLatency, Page!EndRead, Page!rows

\* The reader moves on only by its own queries.
LEMMA ReaderWriters ==
    ASSUME Page!Next
    PROVE  UNCHANGED reader \/ Page!Reads
BY DEF Page!Next, Page!Asking, Page!SingleWrite, Page!Request, Page!Handling, Page!Probing,
       Page!CreatePage, Page!SeedPlatform, Page!UpdatePage, Page!DeletePage, Page!MovePage,
       Page!PatchPage, Page!RemovePage, Page!RequirePage, Page!PostService,
       Page!FindService, Page!SaveService, Page!UpdateService, Page!DeleteService,
       Page!PostIncident, Page!CreateIncident, Page!UpdateIncident, Page!DeleteIncident,
       Page!StartMove, Page!EndMove, Page!StartCycle, Page!PersistResult, Page!CycleFails,
       Page!NextBucket, Page!PurgeObservations

\* The statements that write any table at all.
LEMMA RowWriters ==
    ASSUME Page!Next
    PROVE  \/ UNCHANGED Page!rows
           \/ \E t \in Tenants, p \in Pages :
                 \/ \E s \in Slugs, b \in BOOLEAN : Page!CreatePage(t, p, s, b)
                 \/ Page!SeedPlatform(t, p)
           \/ \E t \in Tenants, s \in Services :
                 \/ \E n \in Names, st \in Reported : Page!UpdateService(t, s, n, st)
                 \/ Page!DeleteService(t, s)
           \/ \E t \in Tenants, i \in Incidents :
                 \/ \E st \in {"monitoring", "resolved"} : Page!UpdateIncident(t, i, st)
                 \/ Page!DeleteIncident(t, i)
           \/ \E c \in Callers :
                 \/ Page!UpdatePage(c) \/ Page!DeletePage(c) \/ Page!MovePage(c)
                 \/ Page!SaveService(c) \/ Page!CreateIncident(c)
           \/ \E target \in prober.batch, answer \in {"2xx", "4xx", "5xx"} :
                 Page!PersistResult(target, answer)
           \/ Page!PurgeObservations
<1> USE DEF Page!rows
<1>1. ASSUME NEW c \in Callers, Page!Handling(c)
      PROVE  \/ UNCHANGED Page!rows
             \/ Page!UpdatePage(c) \/ Page!DeletePage(c) \/ Page!MovePage(c)
             \/ Page!SaveService(c) \/ Page!CreateIncident(c)
  BY <1>1 DEF Page!Handling, Page!RequirePage, Page!FindService, Page!EndMove
<1>2. ASSUME NEW c \in Callers, Page!Request(c) PROVE UNCHANGED Page!rows
  BY <1>2 DEF Page!Request, Page!PatchPage, Page!RemovePage, Page!PostService,
       Page!PostIncident, Page!StartMove
<1>3. Page!Reads => UNCHANGED Page!rows
  BY DEF Page!Reads, Page!Lookup, Page!TryCandidate, Page!TryStem,
       Page!ListPages, Page!ListPublished, Page!ListServices, Page!Reading, Page!HydratePage,
       Page!ReadUptime, Page!ReadLatency, Page!EndRead
<1>4. ASSUME Page!Probing
      PROVE  \/ UNCHANGED Page!rows \/ Page!PurgeObservations
             \/ \E target \in prober.batch, answer \in {"2xx", "4xx", "5xx"} :
                   Page!PersistResult(target, answer)
  BY <1>4 DEF Page!Probing, Page!StartCycle, Page!CycleFails, Page!NextBucket
<1> QED
  BY <1>1, <1>2, <1>3, <1>4 DEF Page!Next, Page!Asking, Page!SingleWrite

\* Ids in use were once given out, so the next id given out is not in use.
IdsSpent == DOMAIN page \cup DOMAIN service \cup DOMAIN incident \subseteq spent

RowsTyped == Page!PagesOK /\ Page!ServicesOK /\ Page!IncidentsOK /\ Page!ObservedOK

\* Children, table by table.
Follow ==
    /\ \A s \in DOMAIN service : Page!PageKey(service[s].page, service[s].tenant)
    /\ \A i \in DOMAIN incident : Page!PageKey(incident[i].page, incident[i].tenant)
    /\ \A o \in observed : Page!ServiceKey(o.service, o.tenant)

\* Table by table, it is what the foreign keys promise.
LEMMA FollowSame == Follow <=> ChildrenFollowPage
BY DEF Follow, ChildrenFollowPage, Page!PageKey, Page!ServiceKey, Values

\* Every statement keeps children with a page, and a tenant, that is there: ids are
\* never used twice, and deletes and moves look at the children first.
LEMMA FollowStep ==
    ASSUME RowsTyped, IdsSpent, Follow, Page!Next
    PROVE  Follow'
<1> USE DEF Page!PageKey, Page!ServiceKey
<1>1. ASSUME NEW t, NEW p, NEW s, NEW b,
             Page!CreatePage(t, p, s, b) \/ Page!SeedPlatform(t, p)
      PROVE  Follow'
  <2>1. PICK row : page' = Page!Put(page, p, row)
    BY <1>1 DEF Page!CreatePage, Page!SeedPlatform
  <2>2. p \notin spent /\ UNCHANGED <<service, incident, observed>>
    BY <1>1 DEF Page!CreatePage, Page!SeedPlatform
  <2> QED
    BY <2>1, <2>2 DEF Page!Put, Follow, IdsSpent
<1>2. ASSUME NEW t, NEW s, NEW n, NEW st, Page!UpdateService(t, s, n, st) PROVE Follow'
  BY <1>2 DEF Page!UpdateService, Follow, RowsTyped, Page!ServicesOK
<1>3. ASSUME NEW gone, Page!CascadeServices(gone), UNCHANGED <<page, incident>>
      PROVE  Follow'
  <2>1. /\ DOMAIN service' = DOMAIN service \ gone
        /\ \A s \in DOMAIN service \ gone : service'[s] = service[s]
    BY <1>3 DEF Page!CascadeServices, Page!Restrict
  <2> QED
    BY <1>3, <2>1 DEF Page!CascadeServices, Follow
<1>4. ASSUME NEW t, NEW i, NEW st, Page!UpdateIncident(t, i, st) PROVE Follow'
  BY <1>4 DEF Page!UpdateIncident, Follow, RowsTyped, Page!IncidentsOK
<1>5. ASSUME NEW t, NEW i, Page!DeleteIncident(t, i) PROVE Follow'
  BY <1>5 DEF Page!DeleteIncident, Page!Restrict, Follow
<1>6. ASSUME NEW c, Page!UpdatePage(c) PROVE Follow'
  <2>1. DOMAIN page' = DOMAIN page /\ \A p \in DOMAIN page : page'[p].tenant = page[p].tenant
    BY <1>6 DEF Page!UpdatePage, RowsTyped, Page!PagesOK
  <2> QED
    BY <1>6, <2>1 DEF Page!UpdatePage, Follow
<1>7. ASSUME NEW c, Page!DeletePage(c) PROVE Follow'
  <2> DEFINE p == call[c].page
             gone == {s \in DOMAIN service : service[s].page = p}
  <2>1. CASE UNCHANGED <<page, service, incident, observed>>
    BY <2>1 DEF Follow
  <2>2. CASE Page!CascadePage(p)
    <3>1. /\ DOMAIN page' = DOMAIN page \ {p}
          /\ \A q \in DOMAIN page \ {p} : page'[q] = page[q]
          /\ DOMAIN service' = DOMAIN service \ gone
          /\ \A s \in DOMAIN service \ gone : service'[s] = service[s]
          /\ observed' = {o \in observed : o.service \notin gone}
      BY <2>2 DEF Page!CascadePage, Page!CascadeServices, Page!Restrict
    <3>2. /\ DOMAIN incident' = {i \in DOMAIN incident : incident[i].page # p}
          /\ \A i \in DOMAIN incident' : incident'[i] = incident[i]
      BY <2>2 DEF Page!CascadePage, Page!Restrict
    <3> QED
      BY <3>1, <3>2 DEF Follow
  <2> QED
    BY <1>7, <2>1, <2>2 DEF Page!DeletePage
<1>8. ASSUME NEW c, Page!MovePage(c) PROVE Follow'
  <2> DEFINE p == call[c].page
  <2>1. \/ UNCHANGED page
        \/ ~Page!Referenced(p) /\ page' = [page EXCEPT ![p].tenant = call[c].target]
    BY <1>8 DEF Page!MovePage
  <2>2. UNCHANGED <<service, incident, observed>>
    BY <1>8 DEF Page!MovePage
  <2>3. ASSUME ~Page!Referenced(p), page' = [page EXCEPT ![p].tenant = call[c].target]
        PROVE  Follow'
    <3>1. DOMAIN page' = DOMAIN page /\ \A q \in DOMAIN page \ {p} : page'[q] = page[q]
      BY <2>3 DEF RowsTyped, Page!PagesOK
    <3> QED
      BY <2>2, <2>3, <3>1 DEF Follow, Page!Referenced
  <2> QED
    BY <2>1, <2>2, <2>3 DEF Follow
<1>9. ASSUME NEW c, Page!SaveService(c) PROVE Follow'
  <2> DEFINE k == call[c]
  <2>1. UNCHANGED <<page, incident, observed>>
    BY <1>9 DEF Page!SaveService
  <2>2. CASE UNCHANGED service
    BY <2>1, <2>2 DEF Follow
  <2>3. ASSUME NEW s, service' = [service EXCEPT ![s].status = k.status] PROVE Follow'
    <3>1. /\ DOMAIN service' = DOMAIN service
          /\ \A x \in DOMAIN service : /\ service'[x].page = service[x].page
                                       /\ service'[x].tenant = service[x].tenant
      BY <2>3 DEF RowsTyped, Page!ServicesOK
    <3> QED
      BY <2>1, <3>1 DEF Follow
  <2>4. ASSUME NEW s \in Services \ spent, Page!PageKey(k.page, k.tenant),
               service' = Page!Put(service, s, [page |-> k.page, tenant |-> k.tenant,
                                                name |-> k.name, status |-> k.status])
        PROVE Follow'
    <3>1. /\ DOMAIN service' = DOMAIN service \cup {s}
          /\ service'[s].page = k.page /\ service'[s].tenant = k.tenant
          /\ \A x \in DOMAIN service : x # s /\ service'[x] = service[x]
      BY <2>4 DEF Page!Put, IdsSpent
    <3> QED
      BY <2>1, <2>4, <3>1 DEF Follow
  <2> QED
    BY <1>9, <2>2, <2>3, <2>4 DEF Page!SaveService
<1>10. ASSUME NEW c, Page!CreateIncident(c) PROVE Follow'
  <2> DEFINE k == call[c]
  <2>1. UNCHANGED <<page, service, observed>>
    BY <1>10 DEF Page!CreateIncident
  <2>2. CASE UNCHANGED incident
    BY <2>1, <2>2 DEF Follow
  <2>3. ASSUME NEW i \in Incidents \ spent, Page!PageKey(k.page, k.tenant),
               incident' = Page!Put(incident, i, [page |-> k.page, tenant |-> k.tenant,
                                                  status |-> k.status,
                                                  resolved |-> k.status = "resolved"])
        PROVE Follow'
    <3>1. /\ DOMAIN incident' = DOMAIN incident \cup {i}
          /\ incident'[i].page = k.page /\ incident'[i].tenant = k.tenant
          /\ \A x \in DOMAIN incident : x # i /\ incident'[x] = incident[x]
      BY <2>3 DEF Page!Put, IdsSpent
    <3> QED
      BY <2>1, <2>3, <3>1 DEF Follow
  <2> QED
    BY <1>10, <2>2, <2>3 DEF Page!CreateIncident
<1>11. ASSUME NEW target, NEW answer, Page!PersistResult(target, answer) PROVE Follow'
  <2>1. UNCHANGED <<page, incident>>
    BY <1>11 DEF Page!PersistResult
  <2>2. CASE UNCHANGED <<service, observed>>
    BY <2>1, <2>2 DEF Follow
  <2>3. ASSUME Page!ServiceKey(target.service, target.tenant),
               observed' = observed \cup
                  {[service |-> target.service, tenant |-> target.tenant,
                    bucket |-> prober.bucket, active |-> answer = "2xx"]},
               service' = [service EXCEPT ![target.service].status = Page!StatusOf(answer)]
        PROVE  Follow'
    <3>1. /\ DOMAIN service' = DOMAIN service
          /\ \A x \in DOMAIN service : /\ service'[x].page = service[x].page
                                       /\ service'[x].tenant = service[x].tenant
      BY <2>3 DEF RowsTyped, Page!ServicesOK
    <3> QED
      BY <2>1, <2>3, <3>1 DEF Follow
  <2> QED
    BY <1>11, <2>2, <2>3 DEF Page!PersistResult
<1>12. CASE Page!PurgeObservations
  BY <1>12 DEF Page!PurgeObservations, Follow
<1>13. CASE UNCHANGED Page!rows
  BY <1>13 DEF Page!rows, Follow
<1>14. ASSUME NEW t, NEW s, Page!DeleteService(t, s) PROVE Follow'
  BY <1>14, <1>3 DEF Page!DeleteService
<1> HIDE DEF Page!PageKey, Page!ServiceKey
<1> QED
  BY RowWriters, <1>1, <1>2, <1>4, <1>5, <1>6, <1>7, <1>8, <1>9, <1>10, <1>11, <1>12, <1>13,
     <1>14

-----------------------------------------------------------------------------
(* Carried hold what their next statement needs.                           *)

Identified == /\ DOMAIN page \subseteq Pages /\ DOMAIN service \subseteq Services
              /\ DOMAIN incident \subseteq Incidents

Carried == call \in [Callers -> Page!Calls]

\* A caller may be idle.
LEMMA Idling == Page!Idle \in Page!Calls
BY DEF Page!Calls

\* A request that comes in names what its handler needs.
LEMMA Entered ==
    ASSUME Carried, RowsTyped, Identified, NEW c \in Callers, Page!Request(c)
    PROVE  Carried'
<1>1. ASSUME NEW record \in Page!Calls, Page!Enter(c, record) PROVE Carried'
  BY <1>1 DEF Page!Enter, Carried
<1>2. ASSUME NEW t \in Tenants, NEW p \in Pages, NEW s \in Slugs, NEW b \in BOOLEAN
      PROVE  [op |-> "update", step |-> "check", tenant |-> t, page |-> p, slug |-> s,
              published |-> b] \in Page!Calls
  BY DEF Page!Calls
<1>3. ASSUME NEW t \in Tenants, NEW p \in Pages
      PROVE  [op |-> "delete", step |-> "check", tenant |-> t, page |-> p] \in Page!Calls
  BY DEF Page!Calls
<1>4. ASSUME NEW t \in Tenants, NEW p \in Pages, NEW n \in Names, NEW s \in Reported
      PROVE  [op |-> "upsert", step |-> "check", tenant |-> t, page |-> p, name |-> n,
              status |-> s, row |-> {}] \in Page!Calls
  BY DEF Page!Calls
<1>5. ASSUME NEW t \in Tenants, NEW p \in Pages, NEW s \in {"investigating", "resolved"}
      PROVE  [op |-> "incident", step |-> "check", tenant |-> t, page |-> p,
              status |-> s] \in Page!Calls
  BY DEF Page!Calls
<1>6. ASSUME NEW t \in Tenants, NEW p \in DOMAIN page
      PROVE  [op |-> "move", step |-> "write", page |-> p, source |-> page[p].tenant,
              target |-> t] \in Page!Calls
  <2>1. page[p].tenant \in Tenants /\ p \in Pages
    BY DEF RowsTyped, Page!PagesOK, Identified
  <2> QED
    BY <2>1 DEF Page!Calls
<1> QED
  BY <1>1, <1>2, <1>3, <1>4, <1>5, <1>6 DEF Page!Request, Page!PatchPage, Page!RemovePage,
     Page!PostService, Page!PostIncident, Page!StartMove, Identified

\* A handler's next statement has what it needs, or the handler is done.
LEMMA Handled ==
    ASSUME Carried, Identified, NEW c \in Callers, Page!Handling(c)
    PROVE  Carried'
<1> DEFINE k == call[c]
<1>1. k \in Page!Calls
  BY DEF Carried
<1>2. Page!Leave(c) => Carried'
  BY Idling DEF Page!Leave, Carried
<1>3. ASSUME NEW step, [k EXCEPT !.step = step] \in Page!Calls, Page!Advance(c, step)
      PROVE  Carried'
  BY <1>3 DEF Page!Advance, Carried
<1>4. CASE Page!RequirePage(c)
  <2>1. k.step = "check" /\ k.op # "upsert" => [k EXCEPT !.step = "write"] \in Page!Calls
    BY <1>1 DEF Page!Calls, Page!Idle
  <2>2. k.step = "check" /\ k.op = "upsert" => [k EXCEPT !.step = "find"] \in Page!Calls
    BY <1>1 DEF Page!Calls, Page!Idle
  <2> QED
    BY <1>2, <1>3, <1>4, <2>1, <2>2 DEF Page!RequirePage
<1>5. CASE Page!FindService(c)
  <2> DEFINE Upserts == [op: {"upsert"}, step: {"check", "find", "write"}, tenant: Tenants,
                         page: Pages, name: Names, status: Reported, row: SUBSET Services]
  <2>1. k.step = "find"
    BY <1>5 DEF Page!FindService
  <2>2. k \in Upserts
    BY <1>1, <2>1 DEF Page!Calls, Page!Idle
  <2>3. [k EXCEPT !.step = "write"] \in Upserts
    BY <2>2
  <2>4. ASSUME NEW S \in SUBSET Services
        PROVE  [k EXCEPT !.step = "write", !.row = S] \in Upserts
    BY <2>2
  <2>5. Upserts \subseteq Page!Calls
    BY DEF Page!Calls
  <2>6. \A s \in Page!Named(k) : {s} \in SUBSET Services
    BY DEF Page!Named, Identified
  <2> HIDE DEF Upserts
  <2>7. CASE call' = [call EXCEPT ![c].step = "write"]
    <3>1. call' = [call EXCEPT ![c] = [k EXCEPT !.step = "write"]]
      BY <2>7
    <3> QED
      BY <2>3, <2>5, <3>1 DEF Carried
  <2>8. ASSUME NEW s \in Page!Named(k),
               call' = [call EXCEPT ![c].step = "write", ![c].row = {s}]
        PROVE  Carried'
    <3>1. call' = [call EXCEPT ![c] = [k EXCEPT !.step = "write", !.row = {s}]]
      BY <2>8 DEF Carried
    <3>2. [k EXCEPT !.step = "write", !.row = {s}] \in Page!Calls
      BY <2>4, <2>5, <2>6
    <3> QED
      BY <3>1, <3>2 DEF Carried
  <2> QED
    BY <1>5, <2>7, <2>8 DEF Page!FindService
<1>6. CASE Page!MovePage(c)
  <2>1. ASSUME NEW step \in {"moved", "refused"}, k.op = "move"
        PROVE  [k EXCEPT !.step = step] \in Page!Calls
    BY <1>1, <2>1 DEF Page!Calls, Page!Idle
  <2> QED
    BY <1>3, <1>6, <2>1 DEF Page!MovePage
<1> QED
  BY <1>2, <1>4, <1>5, <1>6 DEF Page!Handling, Page!UpdatePage, Page!DeletePage,
     Page!SaveService, Page!CreateIncident, Page!EndMove

\* So every step keeps the handlers as they must be.
LEMMA HandlersStep ==
    ASSUME Carried, RowsTyped, Identified, Page!Next
    PROVE  Carried'
BY CallWriters, Entered, Handled DEF Carried

\* What a handler of an operation holds.
LEMMA Holds ==
    ASSUME Carried, NEW c \in Callers
    PROVE  /\ call[c].op = "update" => /\ call[c].slug \in Slugs
                                       /\ call[c].published \in BOOLEAN
           /\ call[c].op = "upsert" => /\ call[c].page \in Pages /\ call[c].tenant \in Tenants
                                       /\ call[c].name \in Names
                                       /\ call[c].status \in Reported
           /\ call[c].op = "incident" => /\ call[c].page \in Pages
                                         /\ call[c].tenant \in Tenants
                                         /\ call[c].status \in {"investigating", "resolved"}
           /\ call[c].op = "move" => call[c].target \in Tenants
<1>1. call[c] \in Page!Calls
  BY DEF Carried
<1> QED
  BY <1>1 DEF Page!Calls, Page!Idle

-----------------------------------------------------------------------------
(* The tables keep their types.                                            *)

\* Whatever is written to the table of pages is a row of it.
LEMMA PagesTyped ==
    ASSUME Page!StatusAssumption, Carried, RowsTyped, Identified, Page!Next
    PROVE  Page!PagesOK' /\ DOMAIN page' \subseteq Pages
<1> DEFINE Rows == [tenant: Tenants, slug: Slugs, published: BOOLEAN]
<1>1. page \in [DOMAIN page -> Rows] /\ DOMAIN page \subseteq Pages
  BY DEF RowsTyped, Page!PagesOK, Identified
<1>2. SUFFICES page' \in [DOMAIN page' -> Rows] /\ DOMAIN page' \subseteq Pages
  BY DEF Page!PagesOK
<1>3. ASSUME NEW t \in Tenants, NEW p \in Pages, NEW s \in Slugs, NEW b \in BOOLEAN,
             page' = Page!Put(page, p, [tenant |-> t, slug |-> s, published |-> b])
      PROVE  page' \in [DOMAIN page' -> Rows] /\ DOMAIN page' \subseteq Pages
  <2>1. [tenant |-> t, slug |-> s, published |-> b] \in Rows
    OBVIOUS
  <2> HIDE DEF Rows
  <2> QED
    BY <1>1, <1>3, <2>1 DEF Page!Put
<1>4. ASSUME NEW t \in Tenants, NEW p \in Pages, NEW s \in Slugs, NEW b \in BOOLEAN,
             Page!CreatePage(t, p, s, b) \/ Page!SeedPlatform(t, p)
      PROVE  page' \in [DOMAIN page' -> Rows] /\ DOMAIN page' \subseteq Pages
  <2>1. Platform \in Slugs
    BY DEF Page!StatusAssumption
  <2> HIDE DEF Rows
  <2> QED
    BY <1>3, <1>4, <2>1 DEF Page!CreatePage, Page!SeedPlatform
<1>5. ASSUME NEW c \in Callers, Page!UpdatePage(c)
      PROVE  page' \in [DOMAIN page' -> Rows] /\ DOMAIN page' \subseteq Pages
  <2> DEFINE k == call[c]
  <2>1. k.slug \in Slugs /\ k.published \in BOOLEAN
    BY <1>5, Holds DEF Page!UpdatePage
  <2>2. \/ page' = page
        \/ page' = [page EXCEPT ![k.page].slug = k.slug, ![k.page].published = k.published]
    BY <1>5 DEF Page!UpdatePage
  <2> HIDE DEF k
  <2> QED
    BY <1>1, <2>1, <2>2
<1>6. ASSUME NEW c \in Callers, Page!DeletePage(c)
      PROVE  page' \in [DOMAIN page' -> Rows] /\ DOMAIN page' \subseteq Pages
  <2>1. page' = page \/ page' = Page!Restrict(page, DOMAIN page \ {call[c].page})
    BY <1>6 DEF Page!DeletePage, Page!CascadePage
  <2> HIDE DEF Rows
  <2> QED
    BY <1>1, <2>1 DEF Page!Restrict
<1>7. ASSUME NEW c \in Callers, Page!MovePage(c)
      PROVE  page' \in [DOMAIN page' -> Rows] /\ DOMAIN page' \subseteq Pages
  <2> DEFINE k == call[c]
  <2>1. k.target \in Tenants
    BY <1>7, Holds DEF Page!MovePage
  <2>2. page' = page \/ page' = [page EXCEPT ![k.page].tenant = k.target]
    BY <1>7 DEF Page!MovePage
  <2> HIDE DEF k
  <2> QED
    BY <1>1, <2>1, <2>2
<1> HIDE DEF Rows
<1>8. CASE UNCHANGED page
  BY <1>1, <1>8
<1>9. ASSUME NEW t \in Tenants, NEW p \in Pages, Page!SeedPlatform(t, p)
      PROVE  page' \in [DOMAIN page' -> Rows] /\ DOMAIN page' \subseteq Pages
  BY <1>4, <1>9 DEF Page!StatusAssumption
<1> QED
  BY PageWriters, <1>4, <1>5, <1>6, <1>7, <1>8, <1>9

\* So it is for services.
LEMMA ServicesTyped ==
    ASSUME Page!StatusAssumption, Carried, RowsTyped, Identified, Page!Next
    PROVE  Page!ServicesOK' /\ DOMAIN service' \subseteq Services
<1> DEFINE Rows == [page: Pages, tenant: Tenants, name: Names, status: Page!Statuses]
           Good == service' \in [DOMAIN service' -> Rows] /\ DOMAIN service' \subseteq Services
<1>1. service \in [DOMAIN service -> Rows] /\ DOMAIN service \subseteq Services
  BY DEF RowsTyped, Page!ServicesOK, Identified
<1>2. SUFFICES Good
  BY DEF Page!ServicesOK
<1>3. Reported \subseteq Page!Statuses
  BY DEF Page!StatusAssumption
<1>4. ASSUME NEW s, NEW st \in Page!Statuses, service' = [service EXCEPT ![s].status = st]
      PROVE  Good
  BY <1>1, <1>4
<1>5. ASSUME NEW t, NEW s, NEW n \in Names, NEW st \in Reported,
             Page!UpdateService(t, s, n, st)
      PROVE  Good
  <2>1. service' = [service EXCEPT ![s].name = n, ![s].status = st]
    BY <1>5 DEF Page!UpdateService
  <2> QED
    BY <1>1, <1>3, <2>1
<1>6. ASSUME NEW gone, Page!CascadeServices(gone) PROVE Good
  <2> HIDE DEF Rows
  <2> QED
    BY <1>1, <1>6 DEF Page!CascadeServices, Page!Restrict
<1>7. ASSUME NEW c \in Callers, Page!SaveService(c) PROVE Good
  <2> DEFINE k == call[c]
             new == [page |-> k.page, tenant |-> k.tenant, name |-> k.name,
                     status |-> k.status]
  <2>1. /\ k.page \in Pages /\ k.tenant \in Tenants /\ k.name \in Names
        /\ k.status \in Page!Statuses
    BY <1>3, <1>7, Holds DEF Page!SaveService
  <2>2. new \in Rows
    BY <2>1
  <2>3. \/ service' = service
        \/ \E s : service' = [service EXCEPT ![s].status = k.status]
        \/ \E s \in Services : service' = Page!Put(service, s, new)
    BY <1>7 DEF Page!SaveService
  <2> HIDE DEF k, new, Rows
  <2>4. ASSUME NEW s \in Services, service' = Page!Put(service, s, new) PROVE Good
    BY <1>1, <2>2, <2>4 DEF Page!Put
  <2> QED
    BY <1>1, <1>4, <2>1, <2>3, <2>4
<1>8. ASSUME NEW target, NEW answer, Page!PersistResult(target, answer) PROVE Good
  <2>1. Page!StatusOf(answer) \in Page!Statuses
    BY DEF Page!StatusOf, Page!Statuses
  <2>2. \/ service' = service
        \/ service' = [service EXCEPT ![target.service].status = Page!StatusOf(answer)]
    BY <1>8 DEF Page!PersistResult
  <2> HIDE DEF Good
  <2>3. CASE service' = service
    BY <1>1, <2>3 DEF Good
  <2> QED
    BY <1>4, <2>1, <2>2, <2>3
<1>9. ASSUME UNCHANGED service PROVE Good
  BY <1>1, <1>9
<1> HIDE DEF Good
<1>10. ASSUME NEW c \in Callers, Page!DeletePage(c) PROVE Good
  BY <1>6, <1>9, <1>10 DEF Page!DeletePage, Page!CascadePage
<1>11. ASSUME NEW t, NEW s, Page!DeleteService(t, s) PROVE Good
  BY <1>6, <1>11 DEF Page!DeleteService
<1> QED
  BY RowWriters, <1>5, <1>7, <1>8, <1>9, <1>10, <1>11 DEF Page!CreatePage, Page!SeedPlatform,
     Page!UpdateIncident, Page!DeleteIncident, Page!UpdatePage, Page!MovePage,
     Page!CreateIncident, Page!PurgeObservations, Page!rows

\* And for incidents.
LEMMA IncidentsTyped ==
    ASSUME Carried, RowsTyped, Identified, Page!Next
    PROVE  Page!IncidentsOK' /\ DOMAIN incident' \subseteq Incidents
<1> DEFINE Rows == [page: Pages, tenant: Tenants, resolved: BOOLEAN,
                    status: {"investigating", "monitoring", "resolved"}]
           Good == incident' \in [DOMAIN incident' -> Rows]
                   /\ DOMAIN incident' \subseteq Incidents
<1>1. incident \in [DOMAIN incident -> Rows] /\ DOMAIN incident \subseteq Incidents
  BY DEF RowsTyped, Page!IncidentsOK, Identified
<1>2. SUFFICES Good
  BY DEF Page!IncidentsOK
<1>3. ASSUME NEW t, NEW i, NEW st \in {"monitoring", "resolved"}, Page!UpdateIncident(t, i, st)
      PROVE  Good
  <2>1. incident' = [incident EXCEPT ![i].status = st, ![i].resolved = (st = "resolved")]
    BY <1>3 DEF Page!UpdateIncident
  <2> QED
    BY <1>1, <2>1
<1>4. ASSUME NEW D \in SUBSET DOMAIN incident, incident' = Page!Restrict(incident, D)
      PROVE  Good
  <2> HIDE DEF Rows
  <2> QED
    BY <1>1, <1>4 DEF Page!Restrict
<1>5. ASSUME NEW c \in Callers, Page!CreateIncident(c) PROVE Good
  <2> DEFINE k == call[c]
             new == [page |-> k.page, tenant |-> k.tenant, status |-> k.status,
                     resolved |-> k.status = "resolved"]
  <2>1. /\ k.page \in Pages /\ k.tenant \in Tenants
        /\ k.status \in {"investigating", "resolved"}
    BY <1>5, Holds DEF Page!CreateIncident
  <2>2. new \in Rows
    BY <2>1
  <2>3. \/ incident' = incident
        \/ \E i \in Incidents : incident' = Page!Put(incident, i, new)
    BY <1>5 DEF Page!CreateIncident
  <2> HIDE DEF k, new, Rows
  <2> QED
    BY <1>1, <2>2, <2>3 DEF Page!Put
<1>6. ASSUME UNCHANGED incident PROVE Good
  BY <1>1, <1>6
<1> HIDE DEF Good
<1>7. ASSUME NEW c \in Callers, Page!DeletePage(c) PROVE Good
  BY <1>4, <1>6, <1>7 DEF Page!DeletePage, Page!CascadePage
<1>8. ASSUME NEW t, NEW i, Page!DeleteIncident(t, i) PROVE Good
  BY <1>4, <1>8 DEF Page!DeleteIncident
<1> QED
  BY RowWriters, <1>3, <1>5, <1>6, <1>7, <1>8 DEF Page!CreatePage, Page!SeedPlatform,
     Page!UpdateService, Page!DeleteService, Page!UpdatePage, Page!MovePage,
     Page!SaveService, Page!PersistResult, Page!PurgeObservations, Page!rows

\* The prober asks about services there were, in a bucket there was.
Probed == /\ bucket \in 0..MaxBucket
          /\ prober \in [batch: SUBSET [service: Services, tenant: Tenants],
                         bucket: 0..MaxBucket]

\* The prober's batch is made of services and tenants.
LEMMA ProberStep ==
    ASSUME Page!StatusAssumption, RowsTyped, Identified, Probed, Page!Next
    PROVE  Probed'
<1>1. CASE UNCHANGED <<bucket, prober>>
  BY <1>1 DEF Probed
<1>2. CASE Page!StartCycle
  <2>1. \A s \in DOMAIN service : service[s].tenant \in Tenants
    BY DEF RowsTyped, Page!ServicesOK
  <2> QED
    BY <1>2, <2>1 DEF Page!StartCycle, Probed, Identified
<1>3. CASE Page!NextBucket
  BY <1>3 DEF Page!NextBucket, Probed, Page!StatusAssumption
<1>4. ASSUME NEW target, NEW answer, Page!PersistResult(target, answer) PROVE Probed'
  BY <1>4 DEF Page!PersistResult, Probed
<1>5. CASE Page!CycleFails
  BY <1>5 DEF Page!CycleFails, Probed
<1> QED
  BY <1>1, <1>2, <1>3, <1>4, <1>5
  DEF Page!Next, Page!Asking, Page!SingleWrite, Page!Request, Page!Handling, Page!Probing,
      Page!CreatePage, Page!SeedPlatform, Page!UpdatePage, Page!DeletePage, Page!MovePage,
      Page!PatchPage, Page!RemovePage, Page!RequirePage, Page!PostService, Page!FindService,
      Page!SaveService, Page!UpdateService, Page!DeleteService, Page!PostIncident,
      Page!CreateIncident, Page!UpdateIncident, Page!DeleteIncident, Page!StartMove,
      Page!EndMove, Page!PurgeObservations, Page!Reads, Page!Lookup, Page!TryCandidate,
      Page!TryStem, Page!ListPages, Page!ListPublished, Page!ListServices, Page!Reading,
      Page!HydratePage, Page!ReadUptime, Page!ReadLatency, Page!EndRead, Page!rows

\* There are only ever finitely many observations, so that counting them tells
\* whether there are any.
Countable == Page!ObservedOK /\ IsFiniteSet(observed)

\* Observations are added one at a time.
LEMMA CountableStep ==
    ASSUME Countable, Probed, Page!Next
    PROVE  Countable'
<1>1. ASSUME observed' \subseteq observed PROVE Countable'
  BY <1>1, FS_Subset DEF Countable, Page!ObservedOK
<1>2. ASSUME NEW target \in prober.batch, NEW answer, Page!PersistResult(target, answer)
      PROVE  Countable'
  <2> DEFINE new == [service |-> target.service, tenant |-> target.tenant,
                     bucket |-> prober.bucket, active |-> answer = "2xx"]
  <2>1. observed' = observed \/ observed' = observed \cup {new}
    BY <1>2 DEF Page!PersistResult
  <2>2. new \in Page!Observations
    BY DEF Probed, Page!Observations
  <2> HIDE DEF new
  <2>3. IsFiniteSet(observed \cup {new})
    BY FS_AddElement DEF Countable
  <2> QED
    BY <1>1, <2>1, <2>2, <2>3 DEF Countable, Page!ObservedOK
<1> QED
  BY RowWriters, <1>1, <1>2 DEF Page!CreatePage, Page!SeedPlatform, Page!UpdateService,
     Page!DeleteService, Page!UpdateIncident, Page!DeleteIncident, Page!UpdatePage,
     Page!DeletePage, Page!MovePage, Page!SaveService, Page!CreateIncident,
     Page!CascadePage, Page!CascadeServices, Page!PurgeObservations, Page!rows

\* Nothing was observed after today.
Timely == /\ prober.bucket <= bucket
          /\ \A o \in observed : o.bucket <= bucket

\* The clock does not go back.
LEMMA ClockStep ==
    ASSUME Probed, Page!Next
    PROVE  bucket' >= bucket /\ bucket' \in Nat /\ bucket \in Nat
<1>1. UNCHANGED bucket \/ bucket' = bucket + 1
  BY DEF Page!Next, Page!Asking, Page!SingleWrite, Page!Request, Page!Handling, Page!Probing,
      Page!CreatePage, Page!SeedPlatform, Page!UpdatePage, Page!DeletePage, Page!MovePage,
      Page!PatchPage, Page!RemovePage, Page!RequirePage, Page!PostService, Page!FindService,
      Page!SaveService, Page!UpdateService, Page!DeleteService, Page!PostIncident,
      Page!CreateIncident, Page!UpdateIncident, Page!DeleteIncident, Page!StartMove,
      Page!EndMove, Page!StartCycle, Page!PersistResult, Page!CycleFails, Page!NextBucket,
      Page!PurgeObservations, Page!Reads, Page!Lookup, Page!TryCandidate,
      Page!TryStem, Page!ListPages, Page!ListPublished, Page!ListServices, Page!Reading,
      Page!HydratePage, Page!ReadUptime, Page!ReadLatency, Page!EndRead, Page!rows
<1> QED
  BY <1>1 DEF Probed

\* A result is recorded under the day its cycle began, today or before.
LEMMA TimelyStep ==
    ASSUME Timely, Probed, Countable, Page!Next
    PROVE  Timely'
<1>1. \A o \in observed : o.bucket \in Nat
  BY DEF Countable, Page!ObservedOK, Page!Observations
<1>2. \/ UNCHANGED prober \/ Page!StartCycle \/ Page!CycleFails
      \/ \E target \in prober.batch, answer \in {"2xx", "4xx", "5xx"} :
            Page!PersistResult(target, answer)
  BY DEF Page!Next, Page!Asking, Page!SingleWrite, Page!Request, Page!Handling,
      Page!Probing, Page!CreatePage, Page!SeedPlatform, Page!UpdatePage,
      Page!DeletePage, Page!MovePage, Page!PatchPage, Page!RemovePage,
      Page!RequirePage, Page!PostService, Page!FindService, Page!SaveService,
      Page!UpdateService, Page!DeleteService, Page!PostIncident,
      Page!CreateIncident, Page!UpdateIncident, Page!DeleteIncident, Page!StartMove,
      Page!EndMove, Page!NextBucket, Page!PurgeObservations, Page!Reads,
      Page!Lookup, Page!TryCandidate, Page!TryStem, Page!ListPages,
      Page!ListPublished, Page!ListServices, Page!Reading, Page!HydratePage,
      Page!ReadUptime, Page!ReadLatency, Page!EndRead, Page!rows
<1>3. prober'.bucket \in {prober.bucket, bucket}
  <2>1. CASE Page!StartCycle
    BY <2>1 DEF Page!StartCycle
  <2>2. ASSUME NEW batch, prober' = [prober EXCEPT !.batch = batch]
        PROVE  prober'.bucket = prober.bucket
    BY <2>2 DEF Probed
  <2>3. CASE Page!CycleFails
    BY <2>2, <2>3 DEF Page!CycleFails
  <2>4. ASSUME NEW target, NEW answer, Page!PersistResult(target, answer)
        PROVE  prober'.bucket = prober.bucket
    BY <2>2, <2>4 DEF Page!PersistResult
  <2> QED
    BY <1>2, <2>1, <2>3, <2>4
<1>4. \A o \in observed' : o \in observed \/ o.bucket = prober.bucket
  <2> DEFINE Follows == \A o \in observed' : o \in observed \/ o.bucket = prober.bucket
  <2>1. ASSUME observed' \subseteq observed PROVE Follows
    BY <2>1
  <2>2. ASSUME NEW target, NEW answer, Page!PersistResult(target, answer)
        PROVE  Follows
    BY <2>2 DEF Page!PersistResult
  <2> HIDE DEF Follows
  <2>3. Follows
    BY RowWriters, <2>1, <2>2 DEF Page!CreatePage, Page!SeedPlatform, Page!UpdateService,
       Page!DeleteService, Page!UpdateIncident, Page!DeleteIncident, Page!UpdatePage,
       Page!DeletePage, Page!MovePage, Page!SaveService, Page!CreateIncident,
       Page!CascadePage, Page!CascadeServices, Page!PurgeObservations, Page!rows
  <2> QED
    BY <2>3 DEF Follows
<1>5. prober.bucket \in Nat
  BY DEF Probed
<1> QED
  BY <1>1, <1>3, <1>4, <1>5, ClockStep DEF Timely

\* Ids given out are ids there are.
Spending == IdsSpent /\ spent \subseteq Pages \cup Services \cup Incidents

\* An id is spent with the row it is first given to.
LEMMA SpendingStep ==
    ASSUME Spending, RowsTyped, Page!Next
    PROVE  Spending'
<1>1. ASSUME NEW id \in Pages \cup Services \cup Incidents, spent' = spent \cup {id},
             DOMAIN page' \subseteq DOMAIN page \cup {id},
             DOMAIN service' \subseteq DOMAIN service \cup {id},
             DOMAIN incident' \subseteq DOMAIN incident \cup {id}
      PROVE  Spending'
  BY <1>1 DEF Spending, IdsSpent
<1>2. ASSUME UNCHANGED spent, DOMAIN page' \subseteq DOMAIN page,
             DOMAIN service' \subseteq DOMAIN service,
             DOMAIN incident' \subseteq DOMAIN incident
      PROVE  Spending'
  BY <1>2 DEF Spending, IdsSpent
<1>3. ASSUME NEW table, NEW id, NEW row
      PROVE  DOMAIN Page!Put(table, id, row) \subseteq DOMAIN table \cup {id}
  BY DEF Page!Put
<1>4. ASSUME NEW t, NEW p \in Pages, NEW s, NEW b,
             Page!CreatePage(t, p, s, b) \/ Page!SeedPlatform(t, p)
      PROVE  Spending'
  BY <1>1, <1>3, <1>4 DEF Page!CreatePage, Page!SeedPlatform
<1>5. ASSUME NEW c \in Callers, Page!SaveService(c) PROVE Spending'
  <2>1. UNCHANGED <<page, incident>>
    BY <1>5 DEF Page!SaveService
  <2>2. ASSUME NEW s \in Services, NEW row, service' = Page!Put(service, s, row),
               spent' = spent \cup {s}
        PROVE  Spending'
    BY <1>1, <1>3, <2>1, <2>2
  <2>3. ASSUME NEW s, NEW st, service' = [service EXCEPT ![s].status = st], UNCHANGED spent
        PROVE  Spending'
    BY <1>2, <2>1, <2>3
  <2> QED
    BY <1>2, <1>5, <2>1, <2>2, <2>3 DEF Page!SaveService
<1>6. ASSUME NEW c \in Callers, Page!CreateIncident(c) PROVE Spending'
  <2>1. UNCHANGED <<page, service>>
    BY <1>6 DEF Page!CreateIncident
  <2>2. ASSUME NEW i \in Incidents, NEW row, incident' = Page!Put(incident, i, row),
               spent' = spent \cup {i}
        PROVE  Spending'
    BY <1>1, <1>3, <2>1, <2>2
  <2> QED
    BY <1>2, <1>6, <2>1, <2>2 DEF Page!CreateIncident
<1>7. ASSUME NEW c \in Callers, Page!DeletePage(c) PROVE Spending'
  BY <1>2, <1>7 DEF Page!DeletePage, Page!CascadePage, Page!CascadeServices, Page!Restrict
<1>8. ASSUME NEW t, NEW s, Page!DeleteService(t, s) PROVE Spending'
  BY <1>2, <1>8 DEF Page!DeleteService, Page!CascadeServices, Page!Restrict
<1>9. ASSUME NEW t, NEW i, Page!DeleteIncident(t, i) PROVE Spending'
  BY <1>2, <1>9 DEF Page!DeleteIncident, Page!Restrict
<1>10. ASSUME NEW c \in Callers, Page!UpdatePage(c) \/ Page!MovePage(c) PROVE Spending'
  BY <1>2, <1>10 DEF Page!UpdatePage, Page!MovePage
<1>11. ASSUME NEW t, NEW s, NEW n, NEW st, Page!UpdateService(t, s, n, st) PROVE Spending'
  BY <1>2, <1>11 DEF Page!UpdateService
<1>12. ASSUME NEW t, NEW i, NEW st, Page!UpdateIncident(t, i, st) PROVE Spending'
  BY <1>2, <1>12 DEF Page!UpdateIncident
<1>13. ASSUME NEW target, NEW answer, Page!PersistResult(target, answer) PROVE Spending'
  BY <1>2, <1>13 DEF Page!PersistResult
<1>14. CASE Page!PurgeObservations
  BY <1>2, <1>14 DEF Page!PurgeObservations
<1>15. CASE UNCHANGED Page!rows
  BY <1>2, <1>15 DEF Page!rows
<1> QED
  BY RowWriters, <1>4, <1>5, <1>6, <1>7, <1>8, <1>9, <1>10, <1>11, <1>12, <1>13, <1>14, <1>15

\* No two pages have one slug.
Unique == \A p, q \in DOMAIN page : page[p].slug = page[q].slug => p = q

\* No two pages get the same slug: every writer looks for it first, in the statement
\* that writes.
LEMMA UniqueStep ==
    ASSUME Unique, RowsTyped, Spending, Page!Next
    PROVE  Unique'
<1>1. ASSUME NEW p, NEW s, NEW row, p \notin spent, Page!SlugFree(s, p), row.slug = s,
             page' = Page!Put(page, p, row)
      PROVE  Unique'
  BY <1>1 DEF Unique, Page!Put, Page!SlugFree, Spending, IdsSpent
<1>2. ASSUME NEW t, NEW p, NEW s, NEW b, Page!CreatePage(t, p, s, b) PROVE Unique'
  <2> DEFINE row == [tenant |-> t, slug |-> s, published |-> b]
  <2>1. row.slug = s
    OBVIOUS
  <2> HIDE DEF row
  <2> QED
    BY <1>1, <1>2, <2>1 DEF Page!CreatePage, row
<1>3. ASSUME NEW t, NEW p, Page!SeedPlatform(t, p) PROVE Unique'
  <2> DEFINE row == [tenant |-> t, slug |-> Platform, published |-> TRUE]
  <2>1. row.slug = Platform
    OBVIOUS
  <2> HIDE DEF row
  <2> QED
    BY <1>1, <1>3, <2>1 DEF Page!SeedPlatform, row
<1>4. ASSUME NEW c \in Callers, Page!UpdatePage(c) PROVE Unique'
  BY <1>4 DEF Page!UpdatePage, Page!PageKey, Page!SlugFree, Unique, RowsTyped, Page!PagesOK
<1>5. ASSUME NEW c \in Callers, Page!DeletePage(c) PROVE Unique'
  BY <1>5 DEF Page!DeletePage, Page!CascadePage, Page!Restrict, Unique
<1>6. ASSUME NEW c \in Callers, Page!MovePage(c) PROVE Unique'
  <2>1. page' = page \/ page' = [page EXCEPT ![call[c].page].tenant = call[c].target]
    BY <1>6 DEF Page!MovePage
  <2> QED
    BY <2>1 DEF Unique, RowsTyped, Page!PagesOK
<1>7. CASE UNCHANGED page
  BY <1>7 DEF Unique
<1> QED
  BY PageWriters, <1>2, <1>3, <1>4, <1>5, <1>6, <1>7

\* A page stands under the slug it had and is published.
Stands == standing \subseteq DOMAIN page /\ \A p \in standing : page[p].published

\* Once the reader is at work pages may cease to stand, but none begins to.
LEMMA StandingShrinks ==
    ASSUME Page!Next, reader # Page!Asleep, reader' # Page!Asleep
    PROVE  /\ standing' \subseteq standing
           /\ \A p \in standing' : p \in DOMAIN page' /\ page'[p].slug = page[p].slug
BY DEF Page!Next, Page!Stand, Page!Public

\* What stands when a read begins are pages that are there.
LEMMA StandsStep ==
    ASSUME Stands, Page!Next
    PROVE  Stands'
<1>1. CASE reader = Page!Asleep /\ reader' # Page!Asleep
  <2>1. UNCHANGED page
    BY <1>1, ReaderWriters DEF Page!Reads, Page!Lookup, Page!TryCandidate, Page!TryStem,
       Page!ListPages, Page!ListPublished, Page!ListServices, Page!Reading, Page!HydratePage,
       Page!ReadUptime, Page!ReadLatency, Page!EndRead, Page!rows
  <2> QED
    BY <1>1, <2>1 DEF Page!Next, Page!Stand, Stands
<1>2. CASE ~(reader = Page!Asleep /\ reader' # Page!Asleep)
  BY <1>2 DEF Page!Next, Page!Stand, Page!Public, Stands
<1> QED
  BY <1>1, <1>2

-----------------------------------------------------------------------------
(* The reader.                                                             *)

\* Counting inside the model is counting.
LEMMA SameCount == ASSUME NEW S PROVE Page!Cardinality(S) = Cardinality(S)
BY DEF Page!Cardinality, Cardinality

\* There are only ever finitely many pages.
Finite == IsFiniteSet(DOMAIN page)

\* There are finitely many pages, as they are made one at a time.
LEMMA FiniteStep ==
    ASSUME Finite, Page!Next
    PROVE  Finite'
<1>1. ASSUME NEW p, DOMAIN page' \subseteq DOMAIN page \cup {p} PROVE Finite'
  BY <1>1, FS_AddElement, FS_Subset DEF Finite
<1>2. ASSUME NEW t, NEW p, NEW s, NEW b,
             Page!CreatePage(t, p, s, b) \/ Page!SeedPlatform(t, p)
      PROVE  Finite'
  BY <1>1, <1>2 DEF Page!CreatePage, Page!SeedPlatform, Page!Put
<1>3. ASSUME NEW c \in Callers, Page!UpdatePage(c) \/ Page!DeletePage(c) \/ Page!MovePage(c)
      PROVE  Finite'
  BY <1>1, <1>3 DEF Page!UpdatePage, Page!DeletePage, Page!MovePage, Page!CascadePage,
     Page!Restrict
<1> QED
  BY PageWriters, <1>1, <1>2, <1>3

Reader == reader \in Page!Readers

\* What the reader holds at each of its queries.
LEMMA ReaderHolds ==
    ASSUME Reader
    PROVE  /\ reader.step \in {"exact", "stem"} =>
                 reader.raw \in Raws /\ reader.at \in 1..2
           /\ reader.step = "services" => reader.page \in Pages /\ reader.tenant \in Tenants
           /\ reader.step \in {"probes", "latency"} =>
                 reader.tenant \in Tenants /\ reader.ids \in SUBSET Services
           /\ reader.step \in {"probes", "latency", "done"} =>
                 reader.seen \in SUBSET Page!Statuses
           /\ reader.step \in {"latency", "done"} => reader.counted \in SUBSET Page!Observations
           /\ reader.step = "done" => DOMAIN reader.history = Page!DaysAgo
BY DEF Reader, Page!Readers, Page!Asleep

\* The reader looks for a page by what it was asked for.
LEMMA Asking ==
    ASSUME NEW raw \in Raws, NEW at \in 1..2
    PROVE  /\ [step |-> "exact", raw |-> raw, at |-> at] \in Page!Readers
           /\ [step |-> "stem", raw |-> raw, at |-> at] \in Page!Readers
           /\ [step |-> "missing", raw |-> raw] \in Page!Readers
BY DEF Page!Readers

\* It found the page,
LEMMA Bound ==
    ASSUME NEW raw \in Raws, NEW p \in Pages, NEW t \in Tenants, NEW how \in {"exact", "stem"}
    PROVE  [step |-> "services", how |-> how, raw |-> raw, page |-> p, tenant |-> t]
              \in Page!Readers
BY DEF Page!Readers

\* or was given it,
LEMMA Chosen ==
    ASSUME NEW p \in Pages, NEW t \in Tenants, NEW how \in {"owned", "directory", "managed"}
    PROVE  [step |-> "services", how |-> how, page |-> p, tenant |-> t] \in Page!Readers
BY DEF Page!Readers

\* has its services,
LEMMA Hydrated ==
    ASSUME NEW t \in Tenants, NEW ids \in SUBSET Services, NEW seen \in SUBSET Page!Statuses
    PROVE  [step |-> "probes", tenant |-> t, ids |-> ids, seen |-> seen] \in Page!Readers
BY DEF Page!Readers

\* the probes that count,
LEMMA Dated ==
    ASSUME NEW t \in Tenants, NEW ids \in SUBSET Services, NEW seen \in SUBSET Page!Statuses,
           NEW counted \in SUBSET Page!Observations
    PROVE  [step |-> "latency", tenant |-> t, ids |-> ids, seen |-> seen,
            counted |-> counted] \in Page!Readers
BY DEF Page!Readers

\* and is done.
LEMMA Finished ==
    ASSUME NEW seen \in SUBSET Page!Statuses, NEW counted \in SUBSET Page!Observations,
           NEW history \in [Page!DaysAgo -> Page!Lights],
           NEW overall \in Page!Statuses, NEW latency \in BOOLEAN
    PROVE  [step |-> "done", seen |-> seen, counted |-> counted, history |-> history,
            overall |-> overall, latency |-> latency] \in Page!Readers
BY DEF Page!Readers

\* The status of the worst of some services is one of theirs.
LEMMA Worst ==
    ASSUME NEW seen \in SUBSET Page!Statuses, seen # {}
    PROVE  /\ Page!OverallStatus(seen) \in seen
           /\ \A other \in seen :
                 Page!Rank[Page!OverallStatus(seen)] >= Page!Rank[other]
<1>1. \E s \in seen : \A other \in seen : Page!Rank[s] >= Page!Rank[other]
  <2>1. /\ Page!Rank["major_outage"] = 5 /\ Page!Rank["partial_outage"] = 4
        /\ Page!Rank["degraded"] = 3 /\ Page!Rank["maintenance"] = 2
        /\ Page!Rank["unknown"] = 1 /\ Page!Rank["operational"] = 0
    BY DEF Page!Rank, Page!Statuses
  <2>2. \A s \in seen : s \in {"operational", "degraded", "partial_outage", "major_outage",
                               "maintenance", "unknown"}
    BY DEF Page!Statuses
  <2>3. CASE "major_outage" \in seen
    BY <2>1, <2>2, <2>3
  <2>4. CASE "major_outage" \notin seen /\ "partial_outage" \in seen
    BY <2>1, <2>2, <2>4
  <2>5. CASE /\ "major_outage" \notin seen /\ "partial_outage" \notin seen
             /\ "degraded" \in seen
    BY <2>1, <2>2, <2>5
  <2>6. CASE /\ "major_outage" \notin seen /\ "partial_outage" \notin seen
             /\ "degraded" \notin seen /\ "maintenance" \in seen
    BY <2>1, <2>2, <2>6
  <2>7. CASE /\ "major_outage" \notin seen /\ "partial_outage" \notin seen
             /\ "degraded" \notin seen /\ "maintenance" \notin seen /\ "unknown" \in seen
    BY <2>1, <2>2, <2>7
  <2>8. CASE /\ "major_outage" \notin seen /\ "partial_outage" \notin seen
             /\ "degraded" \notin seen /\ "maintenance" \notin seen /\ "unknown" \notin seen
    BY <2>1, <2>2, <2>8
  <2> QED
    BY <2>3, <2>4, <2>5, <2>6, <2>7, <2>8
<1> QED
  BY <1>1 DEF Page!OverallStatus

\* Shown green: every service is, and there are samples.
LEMMA Green ==
    ASSUME NEW seen \in SUBSET Page!Statuses, NEW dated
    PROVE  /\ Page!HonestOverall(seen, dated) \in Page!Statuses
           /\ Page!HonestOverall(seen, dated) = "operational" =>
                 dated /\ seen = {"operational"}
<1>1. "unknown" \in Page!Statuses /\ "unknown" # "operational"
  BY DEF Page!Statuses
<1>2. CASE seen = {}
  BY <1>1, <1>2 DEF Page!OverallStatus, Page!HonestOverall
<1>3. CASE seen # {}
  <2>1. /\ Page!OverallStatus(seen) \in seen
        /\ \A other \in seen : Page!Rank[Page!OverallStatus(seen)] >= Page!Rank[other]
    BY <1>3, Worst
  <2>2. \A s \in Page!Statuses : 0 >= Page!Rank[s] => s = "operational"
    BY DEF Page!Rank, Page!Statuses
  <2>3. Page!Rank["operational"] = 0
    BY DEF Page!Rank, Page!Statuses
  <2>4. Page!OverallStatus(seen) = "operational" => seen = {"operational"}
    BY <2>1, <2>2, <2>3
  <2> QED
    BY <1>1, <2>1, <2>4 DEF Page!HonestOverall
<1> QED
  BY <1>2, <1>3

\* A history has one of four lights per day, and a day with probes is told.
LEMMA Days ==
    ASSUME NEW counted, IsFiniteSet(counted), NEW today
    PROVE  /\ Page!UptimeHistory(counted, today) \in [Page!DaysAgo -> Page!Lights]
           /\ \A ago \in Page!DaysAgo :
                 Page!DayOf(counted, ago, today) # {} =>
                     Page!UptimeHistory(counted, today)[ago] # "no_data"
<1>1. ASSUME NEW active, NEW total
      PROVE  /\ Page!DayStatus(active, total) \in Page!Lights
             /\ total # 0 => Page!DayStatus(active, total) # "no_data"
  BY DEF Page!DayStatus, Page!Lights
<1>2. ASSUME NEW ago \in Page!DaysAgo, Page!DayOf(counted, ago, today) # {}
      PROVE  Page!Cardinality(Page!DayOf(counted, ago, today)) # 0
  <2>1. IsFiniteSet(Page!DayOf(counted, ago, today))
    BY FS_Subset DEF Page!DayOf
  <2> QED
    BY <1>2, <2>1, FS_EmptySet, SameCount
<1> QED
  BY <1>1, <1>2 DEF Page!UptimeHistory

\* A probe of today or before is of a day shown, or of a day before those.
LEMMA ShownOrBefore ==
    ASSUME Page!StatusAssumption, NEW today \in Nat, NEW counted, NEW o \in counted,
           o.bucket \in Nat, o.bucket <= today
    PROVE  \/ Page!BeforeShown(o, today)
           \/ \E ago \in Page!DaysAgo : Page!DayOf(counted, ago, today) # {}
<1>1. HistoryDays \in Nat \ {0}
  BY DEF Page!StatusAssumption
<1>2. CASE o.bucket + HistoryDays <= today
  BY <1>2 DEF Page!BeforeShown
<1>3. CASE ~(o.bucket + HistoryDays <= today)
  <2> DEFINE past == today - o.bucket
  <2>1. past \in 0..(HistoryDays - 1) /\ o.bucket + past = today
    BY <1>1, <1>3
  <2> HIDE DEF past
  <2>2. o \in Page!DayOf(counted, past, today)
    BY <2>1 DEF Page!DayOf
  <2> QED
    BY <2>1, <2>2 DEF Page!DaysAgo
<1> QED
  BY <1>2, <1>3

\* The pages that stand under the identifier's own slug.
Own == {p \in standing : page[p].slug = reader.raw.words}

\* A lookup moves on to another candidate, or to the stem, when no page stood
\* under its own slug.
Looking ==
    /\ reader.step = "exact" => /\ reader.at \in 1..Len(Page!Candidates(reader.raw))
                                /\ reader.at # 1 => Own = {}
    /\ reader.step = "stem" => Own = {}

\* The probes the reader counted are finitely many, of today or before.
Counting ==
    reader.step \in {"latency", "done"} =>
        IsFiniteSet(reader.counted) /\ \A o \in reader.counted : o.bucket <= bucket

\* What is told once the days were laid out.
Told ==
    (reader.step = "done" /\ reader.overall = "operational") =>
        /\ reader.seen = {"operational"}
        /\ \/ \E ago \in Page!DaysAgo : reader.history[ago] # "no_data"
           \/ \E o \in reader.counted : Page!BeforeShown(o, bucket)

\* What was asked for is tried first as it is.
LEMMA Candidate ==
    ASSUME NEW raw
    PROVE  /\ Len(Page!Candidates(raw)) \in 1..2
           /\ Page!Candidates(raw)[1] = raw.words
BY DEF Page!Candidates

\* A read leaves the tables as they are.
LEMMA ReadsOnly == Page!Reads => UNCHANGED Page!rows
BY DEF Page!Reads, Page!Lookup, Page!TryCandidate, Page!TryStem, Page!ListPages,
       Page!ListPublished, Page!ListServices, Page!Reading, Page!HydratePage,
       Page!ReadUptime, Page!ReadLatency, Page!EndRead, Page!rows

\* What is counted was observed.
LEMMA WindowOf ==
    ASSUME NEW tenant, NEW ids, NEW today,
           NEW counted \in Page!Windows(Page!ProbesOf(tenant, ids), today)
    PROVE  counted \subseteq observed
BY DEF Page!Windows, Page!InWindow, Page!EdgeOfWindow, Page!ProbesOf

\* Every query leaves the reader with what the next one needs.
LEMMA ReaderStep ==
    ASSUME Reader, RowsTyped, Identified, Countable, Counting, Page!Next
    PROVE  Reader'
<1>1. ASSUME NEW raw \in Raws, Page!Lookup(raw) PROVE Reader'
  <2>1. 1 \in 1..2
    OBVIOUS
  <2> QED
    BY <1>1, <2>1, Asking DEF Page!Lookup, Reader
<1>2. ASSUME NEW p \in DOMAIN page, NEW how \in {"exact", "stem"},
             reader.step \in {"exact", "stem"}, Page!Bind(p, how)
      PROVE  Reader'
  <2>1. page[p].tenant \in Tenants /\ p \in Pages /\ reader.raw \in Raws
    BY <1>2, ReaderHolds DEF RowsTyped, Page!PagesOK, Identified
  <2> QED
    BY <1>2, <2>1, Bound DEF Page!Bind, Reader
<1>3. CASE Page!TryCandidate
  <2> DEFINE slug == Page!Candidates(reader.raw)[reader.at]
  <2>1. reader.step = "exact" /\ reader.raw \in Raws /\ reader.at \in 1..2
    BY <1>3, ReaderHolds DEF Page!TryCandidate
  <2>2. CASE \E p \in Page!PublishedAt(slug) : Page!Bind(p, "exact")
    BY <1>2, <2>1, <2>2 DEF Page!PublishedAt
  <2>3. CASE /\ reader.at < Len(Page!Candidates(reader.raw))
             /\ reader' = [reader EXCEPT !.at = @ + 1]
    <3>1. reader.at + 1 \in 1..2
      <4> DEFINE n == Len(Page!Candidates(reader.raw))
      <4>1. n \in 1..2
        BY Candidate
      <4>2. reader.at < n
        BY <2>3
      <4> HIDE DEF n
      <4> QED
        BY <2>1, <4>1, <4>2
    <3>2. reader = [step |-> "exact", raw |-> reader.raw, at |-> reader.at]
      BY <2>1 DEF Reader, Page!Readers, Page!Asleep
    <3>3. reader' = [step |-> "exact", raw |-> reader.raw, at |-> reader.at + 1]
      BY <2>3, <3>2
    <3> QED
      BY <2>1, <3>1, <3>3, Asking DEF Reader
  <2>4. CASE reader' = [reader EXCEPT !.step = "stem"]
    <3>1. reader = [step |-> "exact", raw |-> reader.raw, at |-> reader.at]
      BY <2>1 DEF Reader, Page!Readers, Page!Asleep
    <3>2. reader' = [step |-> "stem", raw |-> reader.raw, at |-> reader.at]
      BY <2>4, <3>1
    <3> QED
      BY <2>1, <3>2, Asking DEF Reader
  <2> QED
    BY <1>3, <2>2, <2>3, <2>4 DEF Page!TryCandidate
<1>4. CASE Page!TryStem
  <2>1. reader.step = "stem" /\ reader.raw \in Raws /\ reader.at \in 1..2
    BY <1>4, ReaderHolds DEF Page!TryStem
  <2>2. CASE Page!Missed
    BY <2>1, <2>2, Asking DEF Page!Missed, Reader
  <2> QED
    BY <1>2, <1>4, <2>1, <2>2 DEF Page!TryStem, Page!PublishedUnder
<1>5. ASSUME NEW p \in DOMAIN page, NEW how \in {"owned", "directory", "managed"},
             Page!Reading(p, how)
      PROVE  Reader'
  <2>1. page[p].tenant \in Tenants /\ p \in Pages
    BY DEF RowsTyped, Page!PagesOK, Identified
  <2> QED
    BY <1>5, <2>1, Chosen DEF Page!Reading, Reader
<1>6. CASE Page!HydratePage
  <2>1. reader.tenant \in Tenants
    BY <1>6, ReaderHolds DEF Page!HydratePage
  <2>2. Page!ServicesRead \in SUBSET Services
    BY DEF Page!ServicesRead, Identified
  <2>3. {service[s].status : s \in Page!ServicesRead} \in SUBSET Page!Statuses
    BY DEF Page!ServicesRead, RowsTyped, Page!ServicesOK
  <2> QED
    BY <1>6, <2>1, <2>2, <2>3, Hydrated DEF Page!HydratePage, Reader
<1>7. CASE Page!ReadUptime
  <2>1. /\ reader.tenant \in Tenants /\ reader.ids \in SUBSET Services
        /\ reader.seen \in SUBSET Page!Statuses
    BY <1>7, ReaderHolds DEF Page!ReadUptime
  <2>2. PICK counted \in Page!Windows(Page!ProbesOf(reader.tenant, reader.ids), bucket) :
          reader' = [step |-> "latency", tenant |-> reader.tenant, ids |-> reader.ids,
                     seen |-> reader.seen, counted |-> counted]
    BY <1>7 DEF Page!ReadUptime
  <2>3. counted \in SUBSET Page!Observations
    BY WindowOf DEF Countable, Page!ObservedOK
  <2> QED
    BY <2>1, <2>2, <2>3, Dated DEF Reader
<1>8. CASE Page!ReadLatency
  <2>1. /\ reader.seen \in SUBSET Page!Statuses /\ reader.counted \in SUBSET Page!Observations
        /\ IsFiniteSet(reader.counted)
    BY <1>8, ReaderHolds DEF Page!ReadLatency, Counting
  <2> DEFINE history == Page!UptimeHistory(reader.counted, bucket)
             overall == Page!HonestOverall(reader.seen, Page!UptimeKnown(reader.counted))
             latency == Page!DayOf(Page!ProbesOf(reader.tenant, reader.ids), 0, bucket) # {}
  <2>2. history \in [Page!DaysAgo -> Page!Lights] /\ overall \in Page!Statuses
    BY <2>1, Days, Green
  <2>3. latency \in BOOLEAN
    OBVIOUS
  <2>4. reader' = [step |-> "done", seen |-> reader.seen, counted |-> reader.counted,
                   history |-> history, overall |-> overall, latency |-> latency]
    BY <1>8 DEF Page!ReadLatency
  <2> HIDE DEF history, overall, latency
  <2> QED
    BY <2>1, <2>2, <2>3, <2>4, Finished DEF Reader
<1>9. CASE Page!EndRead
  BY <1>9 DEF Page!EndRead, Reader, Page!Readers
<1>10. CASE UNCHANGED reader
  BY <1>10 DEF Reader
<1> QED
  BY ReaderWriters, <1>1, <1>3, <1>4, <1>5, <1>6, <1>7, <1>8, <1>9, <1>10
  DEF Page!Reads, Page!ListPages, Page!ListPublished, Page!ListServices, Page!PageKey

\* What was counted stays in the past, and is finite.
LEMMA CountingStep ==
    ASSUME Counting, Reader, Countable, Probed, Timely, Page!Next
    PROVE  Counting'
<1>0. /\ bucket' >= bucket /\ bucket' \in Nat /\ bucket \in Nat
      /\ \A o \in Page!Observations : o.bucket \in Nat
  BY ClockStep DEF Page!Observations
<1>1. CASE UNCHANGED reader
  BY <1>0, <1>1, ReaderHolds DEF Counting
<1>2. CASE Page!ReadUptime
  <2>1. PICK counted \in Page!Windows(Page!ProbesOf(reader.tenant, reader.ids), bucket) :
          reader' = [step |-> "latency", tenant |-> reader.tenant, ids |-> reader.ids,
                     seen |-> reader.seen, counted |-> counted]
    BY <1>2 DEF Page!ReadUptime
  <2>2. counted \subseteq observed /\ bucket' = bucket
    BY <1>2, WindowOf DEF Page!ReadUptime
  <2>3. IsFiniteSet(counted)
    BY <2>2, FS_Subset DEF Countable
  <2> QED
    BY <2>1, <2>2, <2>3 DEF Counting, Timely
<1>3. CASE Page!ReadLatency
  BY <1>3 DEF Page!ReadLatency, Counting
<1>4. ASSUME reader'.step \notin {"latency", "done"} PROVE Counting'
  BY <1>4 DEF Counting
<1>5. CASE Page!TryCandidate
  <2>1. reader.step = "exact"
    BY <1>5 DEF Page!TryCandidate
  <2>2. reader'.step \in {"exact", "stem", "services"}
    BY <1>5, <2>1 DEF Page!TryCandidate, Page!Bind, Reader, Page!Readers, Page!Asleep
  <2> QED
    BY <1>4, <2>2
<1> QED
  BY ReaderWriters, <1>1, <1>2, <1>3, <1>4, <1>5
  DEF Page!Reads, Page!Lookup, Page!TryStem, Page!Bind, Page!Missed, Page!ListPages,
      Page!ListPublished, Page!ListServices, Page!Reading, Page!HydratePage, Page!EndRead,
      Page!Asleep

\* Every query keeps what was told true: green needs an answer for every service.
LEMMA ToldStep ==
    ASSUME Page!StatusAssumption, Told, Counting, Reader, Probed, Page!Next
    PROVE  Told'
<1>0. /\ bucket' >= bucket /\ bucket' \in Nat /\ bucket \in Nat
      /\ \A o \in Page!Observations : o.bucket \in Nat
      /\ HistoryDays \in Nat
  BY ClockStep DEF Page!Observations, Page!StatusAssumption
<1>1. CASE UNCHANGED reader
  <2>1. ASSUME NEW o \in Page!Observations, Page!BeforeShown(o, bucket)
        PROVE  Page!BeforeShown(o, bucket')
    BY <1>0, <2>1 DEF Page!BeforeShown
  <2> QED
    BY <1>1, <2>1, ReaderHolds DEF Told
<1>2. CASE Page!ReadLatency
  <2> DEFINE dated == Page!UptimeKnown(reader.counted)
             history == Page!UptimeHistory(reader.counted, bucket)
  <2>1. /\ reader.step = "latency" /\ reader.seen \in SUBSET Page!Statuses
        /\ reader.counted \in SUBSET Page!Observations /\ IsFiniteSet(reader.counted)
        /\ \A o \in reader.counted : o.bucket <= bucket
    BY <1>2, ReaderHolds DEF Page!ReadLatency, Counting
  <2>2. /\ reader'.seen = reader.seen /\ reader'.counted = reader.counted
        /\ reader'.history = history /\ bucket' = bucket
        /\ reader'.overall = Page!HonestOverall(reader.seen, dated)
    BY <1>2 DEF Page!ReadLatency
  <2>3. ASSUME reader'.overall = "operational"
        PROVE  dated /\ reader.seen = {"operational"}
    BY <2>1, <2>2, <2>3, Green
  <2>4. ASSUME dated
        PROVE  \/ \E ago \in Page!DaysAgo : history[ago] # "no_data"
               \/ \E o \in reader.counted : Page!BeforeShown(o, bucket)
    <3>1. PICK o \in reader.counted : TRUE
      BY <2>4 DEF Page!UptimeKnown
    <3>2. o.bucket \in Nat /\ o.bucket <= bucket
      BY <1>0, <2>1, <3>1
    <3>3. CASE Page!BeforeShown(o, bucket)
      BY <3>1, <3>3
    <3>4. CASE \E ago \in Page!DaysAgo : Page!DayOf(reader.counted, ago, bucket) # {}
      BY <2>1, <3>4, Days
    <3> QED
      BY <1>0, <3>1, <3>2, <3>3, <3>4, ShownOrBefore
  <2> QED
    BY <2>2, <2>3, <2>4 DEF Told
<1>3. CASE Page!ReadUptime
  <2>1. reader'.step = "latency"
    BY <1>3 DEF Page!ReadUptime
  <2> QED
    BY <2>1 DEF Told
<1>4. ASSUME reader'.step \notin {"latency", "done"} PROVE Told'
  BY <1>4 DEF Told
<1>5. CASE Page!TryCandidate
  <2>1. reader.step = "exact"
    BY <1>5 DEF Page!TryCandidate
  <2>2. reader'.step \in {"exact", "stem", "services"}
    BY <1>5, <2>1 DEF Page!TryCandidate, Page!Bind, Reader, Page!Readers, Page!Asleep
  <2> QED
    BY <1>4, <2>2
<1> QED
  BY ReaderWriters, <1>1, <1>2, <1>3, <1>4, <1>5
  DEF Page!Reads, Page!Lookup, Page!TryStem, Page!Bind, Page!Missed, Page!ListPages,
      Page!ListPublished, Page!ListServices, Page!Reading, Page!HydratePage, Page!EndRead,
      Page!Asleep

\* Looking for the page, the reader has not passed over one that stood all along.
LEMMA LookingStep ==
    ASSUME Looking, Reader, Identified, Stands, Page!Next
    PROVE  Looking'
<1>1. CASE UNCHANGED reader
  <2>1. reader.step \in {"exact", "stem"} => Own' \subseteq Own
    BY <1>1, StandingShrinks DEF Own, Page!Asleep
  <2> QED
    BY <1>1, <2>1 DEF Looking
<1>2. ASSUME NEW raw \in Raws, Page!Lookup(raw) PROVE Looking'
  <2>1. Len(Page!Candidates(raw)) \in 1..2
    BY Candidate
  <2>2. reader'.step = "exact" /\ reader'.at = 1 /\ reader'.raw = raw
    BY <1>2 DEF Page!Lookup
  <2>3. 1 \in 1..Len(Page!Candidates(raw))
    BY <2>1
  <2> QED
    BY <2>2, <2>3 DEF Looking, Page!Candidates
<1>3. ASSUME reader'.step \notin {"exact", "stem"} PROVE Looking'
  BY <1>3 DEF Looking
<1>4. CASE Page!TryCandidate
  <2> DEFINE slug == Page!Candidates(reader.raw)[reader.at]
  <2>1. /\ reader.step = "exact" /\ reader.at \in 1..Len(Page!Candidates(reader.raw))
        /\ reader.at # 1 => Own = {}
    BY <1>4 DEF Page!TryCandidate, Looking
  <2>2. UNCHANGED page
    BY <1>4 DEF Page!TryCandidate, Page!rows
  <2>3. CASE \E p \in Page!PublishedAt(slug) : Page!Bind(p, "exact")
    BY <1>3, <2>3 DEF Page!Bind
  <2>4. ASSUME Page!PublishedAt(slug) = {},
               reader'.raw = reader.raw, reader'.step \in {"exact", "stem"}
        PROVE  Own' = {}
    <3>1. reader # Page!Asleep /\ reader' # Page!Asleep
      BY <2>1, <2>4 DEF Page!Asleep
    <3>2. Own' \subseteq Own
      BY <2>2, <2>4, <3>1, StandingShrinks DEF Own
    <3>3. ASSUME reader.at = 1 PROVE Own = {}
      <4>1. slug = reader.raw.words
        BY <3>3, Candidate
      <4> QED
        BY <2>4, <4>1 DEF Own, Stands, Page!PublishedAt
    <3> QED
      BY <2>1, <3>2, <3>3
  <2>5. CASE /\ Page!PublishedAt(slug) = {}
             /\ reader.at < Len(Page!Candidates(reader.raw))
             /\ reader' = [reader EXCEPT !.at = @ + 1]
    <3>1. reader = [step |-> "exact", raw |-> reader.raw, at |-> reader.at]
      BY <2>1 DEF Reader, Page!Readers, Page!Asleep
    <3>2. reader' = [step |-> "exact", raw |-> reader.raw, at |-> reader.at + 1]
      BY <2>5, <3>1
    <3>3. Len(Page!Candidates(reader.raw)) \in 1..2
      BY Candidate
    <3>4. reader.at + 1 \in 1..Len(Page!Candidates(reader.raw))
      BY <2>1, <2>5, <3>3
    <3>5. Own' = {}
      BY <2>4, <2>5, <3>2
    <3> QED
      BY <3>2, <3>4, <3>5 DEF Looking
  <2>6. CASE Page!PublishedAt(slug) = {} /\ reader' = [reader EXCEPT !.step = "stem"]
    <3>1. reader = [step |-> "exact", raw |-> reader.raw, at |-> reader.at]
      BY <2>1 DEF Reader, Page!Readers, Page!Asleep
    <3>2. reader' = [step |-> "stem", raw |-> reader.raw, at |-> reader.at]
      BY <2>6, <3>1
    <3>3. Own' = {}
      BY <2>4, <2>6, <3>2
    <3> QED
      BY <3>2, <3>3 DEF Looking
  <2> QED
    BY <1>4, <2>3, <2>5, <2>6 DEF Page!TryCandidate
<1> QED
  BY ReaderWriters, <1>1, <1>2, <1>3, <1>4
  DEF Page!Reads, Page!TryStem, Page!Bind, Page!Missed, Page!ListPages,
      Page!ListPublished, Page!ListServices, Page!Reading, Page!HydratePage, Page!ReadUptime,
      Page!ReadLatency, Page!EndRead, Page!Asleep

\* The page that is answered is the one that was asked for, or the only one near it.
LEMMA RightStep ==
    ASSUME RightPageAnswered, Looking, Reader, Identified, Stands, Unique, Finite,
           Page!Next
    PROVE  RightPageAnswered'
<1> DEFINE Resolved == reader.step \notin {"idle", "exact", "stem"} /\ "raw" \in DOMAIN reader
           Near == {p \in standing : Page!IsPrefix(Page!Stem(reader.raw), page[p].slug)}
           Right == IF reader.step = "missing" THEN Own = {}
                    ELSE /\ Own \subseteq {reader.page}
                         /\ reader.how = "stem" => Near \subseteq {reader.page}
<1>1. RightPageAnswered <=> (Resolved => Right)
  BY DEF RightPageAnswered, Own, Stem, IsPrefix, Page!Stem, Page!IsPrefix
<1>2. RightPageAnswered' <=> (Resolved' => Right')
  BY DEF RightPageAnswered, Own, Stem, IsPrefix, Page!Stem, Page!IsPrefix
<1>3. SUFFICES ASSUME Resolved' PROVE Right'
  BY <1>2
<1>4. reader' # Page!Asleep
  BY <1>3 DEF Page!Asleep
<1>5. CASE UNCHANGED reader
  <2>1. Right
    BY <1>1, <1>3, <1>5
  <2>2. Own' \subseteq Own /\ Near' \subseteq Near
    BY <1>4, <1>5, StandingShrinks DEF Own
  <2> QED
    BY <1>5, <2>1, <2>2
<1>6. CASE Page!TryCandidate
  <2> DEFINE slug == Page!Candidates(reader.raw)[reader.at]
  <2>1. /\ reader.step = "exact"
        /\ reader.at # 1 => Own = {}
        /\ UNCHANGED page
    BY <1>6 DEF Page!TryCandidate, Looking, Page!rows
  <2>2. ASSUME reader'.step = "exact" \/ reader'.step = "stem" PROVE FALSE
    BY <1>3, <2>2
  <2>3. reader = [step |-> "exact", raw |-> reader.raw, at |-> reader.at]
    BY <2>1 DEF Reader, Page!Readers, Page!Asleep
  <2>4. PICK p \in Page!PublishedAt(slug) : Page!Bind(p, "exact")
    BY <1>6, <2>2, <2>3 DEF Page!TryCandidate
  <2>5. /\ reader'.step = "services" /\ reader'.how = "exact" /\ reader'.page = p
        /\ reader'.raw = reader.raw
    BY <2>4 DEF Page!Bind
  <2>6. Own' \subseteq Own
    BY <1>4, <2>1, <2>5, StandingShrinks DEF Own, Page!Asleep
  <2>7. ASSUME reader.at = 1 PROVE Own \subseteq {p}
    <3>1. slug = reader.raw.words
      BY <2>7, Candidate
    <3> QED
      BY <2>4, <3>1 DEF Own, Stands, Unique, Page!PublishedAt
  <2> QED
    BY <2>1, <2>5, <2>6, <2>7
<1>7. CASE Page!TryStem
  <2> DEFINE found == Page!PublishedUnder(Page!Stem(reader.raw))
  <2>1. reader.step = "stem" /\ Own = {} /\ UNCHANGED page
    BY <1>7 DEF Page!TryStem, Looking, Page!rows
  <2>2. reader'.raw = reader.raw
    BY <1>7 DEF Page!TryStem, Page!Bind, Page!Missed
  <2>3. Own' \subseteq Own /\ Near' \subseteq Near
    BY <1>4, <2>1, <2>2, StandingShrinks DEF Own, Page!Asleep
  <2>4. CASE Page!Missed
    BY <2>1, <2>3, <2>4 DEF Page!Missed
  <2>5. ASSUME NEW p \in found, Page!Cardinality(found) = 1, Page!Bind(p, "stem")
        PROVE  Right'
    <3>1. reader'.step = "services" /\ reader'.how = "stem" /\ reader'.page = p
      BY <2>5 DEF Page!Bind
    <3>2. IsFiniteSet(found)
      BY FS_Subset DEF Finite, Page!PublishedUnder
    <3>3. \E x : found = {x}
      BY <2>5, <3>2, FS_Singleton, SameCount
    <3>4. Near \subseteq found
      BY DEF Stands, Page!PublishedUnder
    <3> HIDE DEF found, Near
    <3>5. Near' \subseteq {p}
      BY <2>3, <2>5, <3>3, <3>4
    <3> QED
      BY <2>1, <2>3, <3>1, <3>5
  <2> QED
    BY <1>7, <2>4, <2>5 DEF Page!TryStem
<1>8. ASSUME "raw" \notin DOMAIN reader' \/ reader'.step = "exact" PROVE FALSE
  BY <1>3, <1>8
<1>9. ASSUME NEW p, NEW how, Page!Reading(p, how) PROVE FALSE
  BY <1>8, <1>9 DEF Page!Reading
<1>10. ~Page!HydratePage /\ ~Page!ReadUptime /\ ~Page!ReadLatency
  BY <1>8 DEF Page!HydratePage, Page!ReadUptime, Page!ReadLatency
<1>11. ~Page!EndRead
  BY <1>4 DEF Page!EndRead
<1>12. ASSUME NEW raw, Page!Lookup(raw) PROVE FALSE
  BY <1>8, <1>12 DEF Page!Lookup
<1> QED
  BY ReaderWriters, <1>5, <1>6, <1>7, <1>9, <1>10, <1>11, <1>12
  DEF Page!Reads, Page!ListPages, Page!ListPublished, Page!ListServices

-----------------------------------------------------------------------------
PageInv ==
    /\ Identified /\ RowsTyped /\ Carried /\ Probed /\ Spending /\ Countable /\ Finite
    /\ Unique /\ Stands /\ Reader /\ Looking /\ Timely /\ Counting /\ Told
    /\ asked \in 0..MaxAsked
    /\ Follow /\ RightPageAnswered

\* The invariant holds at first: nothing is stored.
LEMMA PageInit ==
    ASSUME Page!StatusAssumption, Page!Init
    PROVE  PageInv
<1> USE DEF Page!Init
<1>1. Identified /\ RowsTyped
  BY DEF Identified, RowsTyped, Page!PagesOK, Page!ServicesOK, Page!IncidentsOK, Page!ObservedOK
<1>2. Carried
  BY Idling DEF Carried
<1>3. Probed /\ asked \in 0..MaxAsked
  BY DEF Probed, Page!StatusAssumption
<1>4. Spending
  BY DEF Spending, IdsSpent
<1>5. Countable /\ Finite
  <2>1. DOMAIN page = {}
    OBVIOUS
  <2> QED
    BY <2>1, FS_EmptySet DEF Countable, Page!ObservedOK, Finite
<1>6. Unique /\ Stands /\ Follow
  BY DEF Unique, Stands, Follow
<1>7. Reader
  BY DEF Reader, Page!Readers
<1>8. Looking /\ Timely /\ Counting /\ Told /\ RightPageAnswered
  BY DEF Looking, Timely, Counting, Told, RightPageAnswered, Page!Asleep
<1> QED
  BY <1>1, <1>2, <1>3, <1>4, <1>5, <1>6, <1>7, <1>8 DEF PageInv

\* Every step keeps it.
LEMMA PageNext ==
    ASSUME Page!StatusAssumption, PageInv, [Page!Next]_Page!vars
    PROVE  PageInv'
<1>1. CASE Page!Next
  <2>1. RowsTyped' /\ Identified'
    BY <1>1, PagesTyped, ServicesTyped, IncidentsTyped, CountableStep
    DEF PageInv, RowsTyped, Identified, Countable
  <2>2. Carried' /\ Probed' /\ Spending' /\ Countable' /\ Finite'
    BY <1>1, HandlersStep, ProberStep, SpendingStep, CountableStep, FiniteStep DEF PageInv
  <2>3. Unique' /\ Stands' /\ Follow'
    BY <1>1, UniqueStep, StandsStep, FollowStep DEF PageInv, Spending
  <2>4. Reader' /\ Looking' /\ RightPageAnswered'
    BY <1>1, ReaderStep, LookingStep, RightStep DEF PageInv
  <2>6. Timely' /\ Counting' /\ Told'
    BY <1>1, TimelyStep, CountingStep, ToldStep DEF PageInv
  <2>5. asked' \in 0..MaxAsked
    BY <1>1 DEF PageInv, Page!Next, Page!Asking, Page!StatusAssumption
  <2> QED
    BY <2>1, <2>2, <2>3, <2>4, <2>5, <2>6 DEF PageInv
<1>2. CASE UNCHANGED Page!vars
  <2> USE <1>2 DEF Page!vars
  <2>1. Identified' /\ RowsTyped' /\ Carried' /\ Probed' /\ Spending'
    BY DEF PageInv, Identified, RowsTyped, Carried, Probed, Spending, IdsSpent, Page!PagesOK,
       Page!ServicesOK, Page!IncidentsOK, Page!ObservedOK
  <2>2. Countable' /\ Finite' /\ Unique' /\ Stands' /\ Reader' /\ asked' \in 0..MaxAsked
    BY DEF PageInv, Countable, Page!ObservedOK, Finite, Unique, Stands, Reader
  <2>3. Looking' /\ Timely' /\ Counting' /\ Told' /\ RightPageAnswered'
    BY DEF PageInv, Looking, Own, Timely, Counting, Told, RightPageAnswered
  <2>4. Follow'
    BY DEF PageInv, Follow, Page!PageKey, Page!ServiceKey
  <2> QED
    BY <2>1, <2>2, <2>3, <2>4 DEF PageInv
<1> QED
  BY <1>1, <1>2

\* So it always holds.
LEMMA PageInvariant == Page!Spec => []PageInv
<1>1. Page!StatusAssumption
  BY StatusAssumption DEF Page!StatusAssumption, Page!Statuses, Statuses
<1>2. Page!Init => PageInv
  BY <1>1, PageInit
<1>3. PageInv /\ [Page!Next]_Page!vars => PageInv'
  BY <1>1, PageNext
<1> QED
  BY <1>2, <1>3, PTL DEF Page!Spec

\* Every table keeps its type, and handlers, prober and reader hold what their next
\* statement needs (services/status.py).
THEOREM PagesWell == Page!Spec => []Page!TypeOK
<1>1. PageInv => Page!TypeOK
  BY DEF PageInv, Identified, RowsTyped, Carried, Probed, Spending, Stands, Reader, Page!TypeOK
<1> QED
  BY <1>1, PageInvariant, PTL

\* Every service and incident belongs to a page of its own tenant and every observation
\* to a service of its own tenant, whichever checks, deletes, moves and probes overlap
\* (services/status.py; the composite foreign keys of sql/008_status_pages.sql).
THEOREM ChildrenKept == Page!Spec => []ChildrenFollowPage
<1>1. PageInv => ChildrenFollowPage
  BY FollowSame DEF PageInv
<1> QED
  BY <1>1, PageInvariant, PTL

\* A page is shown green only when every service read was green and a probe of them was
\* counted, on a day the history shows or, all those without data, on one before, whatever
\* was written between the reads (services/status.py: the overall status of a hydrated page).
THEOREM GreenTrue == Page!Spec => []HonestAnswer
<1>1. PageInv => HonestAnswer
  <2>1. ASSUME Reader, reader.step = "done" PROVE DOMAIN reader.history = Page!DaysAgo
    BY <2>1, ReaderHolds
  <2>2. \A o : Page!BeforeShown(o, bucket) = BeforeShown(o, bucket)
    BY DEF Page!BeforeShown, BeforeShown
  <2> QED
    BY <2>1, <2>2 DEF PageInv, Told, HonestAnswer
<1> QED
  BY <1>1, PageInvariant, PTL

\* The page that stood under the identifier's own slug all along is the one answered,
\* though others are published, renamed and withdrawn between the lookup's queries
\* (services/status.py: the lookup of a published page).
THEOREM RightPage == Page!Spec => []RightPageAnswered
<1>1. PageInv => RightPageAnswered
  BY DEF PageInv
<1> QED
  BY <1>1, PageInvariant, PTL

=============================================================================
