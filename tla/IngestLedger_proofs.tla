------------------------ MODULE IngestLedger_proofs ------------------------
(***************************************************************************)
(* Theorems about IngestLedger, for every set of events, handlers,         *)
(* workers, projectors and retriers and every bound on attempts.           *)
(***************************************************************************)
EXTENDS IngestLedger, FiniteSetTheorems, TLAPS

-----------------------------------------------------------------------------
(* Type correctness: one lemma per family of actions. *)

\* The rows of an acceptance get positions in Nat.
LEMMA StampsType ==
    ASSUME TypeOK, NEW new \in SUBSET Events, NEW st \in Stamps(new)
    PROVE  st \in [new -> Nat \ {0}]
<1>1. Used \subseteq Nat
  BY DEF Used, TypeOK
<1>2. IsFiniteSet(new) /\ Cardinality(new) \in Nat
  BY GroupAssumption, FS_Subset, FS_CardinalityType
<1>3. PICK top \in Used : st \in [new -> (top + 1)..(top + Cardinality(new))]
  BY DEF Stamps
<1>. QED
  BY <1>1, <1>2, <1>3

\* What each statement writes into a receipt keeps its shape.
LEMMA QueuedRow == Absent \in Row /\ Queued \in Row
<1>1. Absent \in Row
  BY BoundAssumption DEF Absent, Row, Columns, Statuses
<1>2. Queued \in Columns
  BY DEF Queued, Absent, Columns, Statuses
<1>3. /\ Queued.status = "queued" /\ Queued.attempts = 0
      /\ Queued.owner = Nobody /\ Queued.lease = "none"
  BY DEF Queued, Absent
<1>. QED
  BY <1>1, <1>2, <1>3, BoundAssumption DEF Row

LEMMA RevivedRow == ASSUME NEW r \in Row PROVE Revived(r) \in Row
<1>1. CASE r.status = "failed"
  <2>. DEFINE q == Revived(r)
  <2>1. q \in Columns
    BY <1>1 DEF Revived, Row, Columns, Statuses
  <2>2. q.status = "queued" /\ q.attempts = 0 /\ q.owner = r.owner /\ q.lease = r.lease
    BY <1>1 DEF Revived, Row, Columns
  <2>3. r.owner = Nobody /\ r.lease = "none"
    BY <1>1 DEF Row
  <2>4. 0 <= MaxAttempts
    BY BoundAssumption
  <2>. HIDE DEF q
  <2>. QED
    BY <2>1, <2>2, <2>3, <2>4 DEF Row, q
<1>2. CASE r.status # "failed"
  BY <1>2 DEF Revived, Row, Columns
<1>. QED
  BY <1>1, <1>2

LEMMA RecoveredRow == ASSUME NEW r \in Row PROVE Recovered(r) \in Row
BY BoundAssumption DEF Recovered, Row, Columns, Statuses

LEMMA HandlerType ==
    ASSUME TypeOK, NEW h \in Handlers, HandlerStep(h)
    PROVE  TypeOK'
<1>. USE DEF TypeOK, Phases, Owners
<1>1. ASSUME NEW R \in (SUBSET Events) \ {{}}, BeginAcceptance(h, R)
      PROVE  TypeOK'
  <2>1. PICK st \in Stamps({e \in R : ~Accepted(e)}) :
          stamp' = [stamp EXCEPT ![h] =
                      [e \in Events |-> IF e \in R /\ ~Accepted(e) THEN st[e] ELSE 0]]
    BY <1>1 DEF BeginAcceptance
  <2>2. st \in [{e \in R : ~Accepted(e)} -> Nat \ {0}]
    BY StampsType
  <2>3. stamp' \in [Handlers -> [Events -> Nat]]
    BY <2>1, <2>2
  <2>. QED
    BY <1>1, <2>3 DEF BeginAcceptance, projVars
<1>2. CASE CommitAcceptance(h)
  <2>1. NewBatches(h) \in SUBSET Batch
    BY DEF NewBatches
  <2>2. receipts' \in [Batch -> Row]
    BY <1>2, QueuedRow DEF CommitAcceptance
  <2>. QED
    BY <1>2, <2>1, <2>2 DEF CommitAcceptance, projVars
<1>3. CASE RollbackAcceptance(h)
  BY <1>3 DEF RollbackAcceptance, projVars
<1>4. CASE WakeReceipts(h)
  <2>1. receipts' \in [Batch -> Row]
    BY <1>4, RevivedRow DEF WakeReceipts
  <2>. QED
    BY <1>4, <2>1 DEF WakeReceipts, projVars, CoveredBy
<1>. QED
  BY <1>1, <1>2, <1>3, <1>4 DEF HandlerStep

LEMMA ClaimedRow ==
    ASSUME NEW r \in Row, r.attempts < MaxAttempts, NEW o \in Owners
    PROVE  ClaimedBy(r, o) \in Row
<1>. DEFINE q == ClaimedBy(r, o)
<1>0. r.attempts + 1 \in Nat
  BY DEF Row, Columns
<1>1. q \in Columns
  BY <1>0 DEF ClaimedBy, Row, Columns, Statuses
<1>2. /\ q.status = "running" /\ q.attempts = r.attempts + 1
      /\ q.owner = o /\ q.lease = "live"
  BY DEF ClaimedBy, Row, Columns
<1>3. o # Nobody /\ r.attempts + 1 <= MaxAttempts
  BY ActorAssumption, BoundAssumption DEF Row, Columns
<1>. HIDE DEF q
<1>. QED
  BY <1>1, <1>2, <1>3 DEF Row, q

LEMMA SettledRow == ASSUME NEW r \in Row PROVE Completed(r) \in Row /\ Failed(r) \in Row
BY DEF Completed, Failed, Row, Columns, Statuses

LEMMA LeaseRow ==
    ASSUME NEW r \in Row, r.lease # "none", NEW l \in {"live", "expired"}
    PROVE  WithLease(r, l) \in Row
BY DEF WithLease, Row, Columns

LEMMA DueRow ==
    ASSUME NEW r \in Row
    PROVE  [r EXCEPT !.due = TRUE] \in Row
BY DEF Row, Columns

LEMMA LeasedRow ==
    ASSUME NEW d \in DlqRow, d.status = "open", NEW r \in Retriers
    PROVE  LeasedBy(d, r) \in DlqRow
<1>1. d.attempts + 1 \in Nat /\ r # Nobody
  BY ActorAssumption DEF DlqRow
<1>. QED
  BY <1>1 DEF LeasedBy, DlqRow

LEMMA ReleasedRow == ASSUME NEW d \in DlqRow PROVE Released(d) \in DlqRow
BY DEF Released, DlqRow

LEMMA DlqRows ==
    /\ NoRow \in DlqRow /\ Closed \in DlqRow
    /\ [NoRow EXCEPT !.status = "open"] \in DlqRow
BY DEF NoRow, Closed, DlqRow

LEMMA TickType ==
    ASSUME TypeOK, NEW o \in Owners, TickStep(o)
    PROVE  TypeOK'
<1>. USE DEF TypeOK, Phases, acceptVars, tickVars, projVars
<1>1. CASE StartTick(o)
  <2>1. receipts' \in [Batch -> Row]
    BY <1>1, RecoveredRow DEF StartTick, RecoverExpired
  <2>. QED
    BY <1>1, <2>1 DEF StartTick
<1>2. ASSUME NEW b \in Batch, Claim(o, b)
      PROVE  TypeOK'
  <2>1. receipts' \in [Batch -> Row]
    BY <1>2, ClaimedRow DEF Claim, Claimable
  <2>2. job' \in [Owners -> [batch : SUBSET Events, attempts : Nat]]
    <3>1. b \in SUBSET Events
      BY DEF Batch
    <3>2. receipts[b] \in Row
      OBVIOUS
    <3>3. receipts[b].attempts + 1 \in Nat
      BY <3>2 DEF Row, Columns
    <3>. QED
      BY <1>2, <3>1, <3>3 DEF Claim
  <2>. QED
    BY <1>2, <2>1, <2>2 DEF Claim
<1>3. CASE EndTick(o)
  BY <1>3 DEF EndTick
<1>4. CASE Heartbeat(o)
  <2>1. receipts' \in [Batch -> Row]
    BY <1>4, LeaseRow DEF Heartbeat
  <2>. QED
    BY <1>4, <2>1 DEF Heartbeat
<1>5. CASE CompleteBatch(o)
  <2>1. receipts' \in [Batch -> Row]
    BY <1>5, SettledRow DEF CompleteBatch
  <2>2. dlq' \in [Events -> DlqRow]
    BY <1>5, DlqRows DEF CompleteBatch, ResolveDlq
  <2>3. cursor' \in Nat
    BY <1>5 DEF CompleteBatch, AdvanceCursor
  <2>. QED
    BY <1>5, <2>1, <2>2, <2>3 DEF CompleteBatch, UpsertResults, FinishJob, NoJob
<1>6. CASE FailBatch(o)
  <2>1. receipts' \in [Batch -> Row]
    BY <1>6, SettledRow DEF FailBatch
  <2>2. dlq' \in [Events -> DlqRow]
    BY <1>6, DlqRows DEF FailBatch, EnqueueDlq
  <2>. QED
    BY <1>6, <2>1, <2>2 DEF FailBatch, FinishJob, NoJob
<1>7. CASE AbandonBatch(o)
  BY <1>7 DEF AbandonBatch, FinishJob, NoJob
<1>8. CASE CrashOwner(o)
  BY <1>8 DEF CrashOwner, NoJob
<1>. QED
  BY <1>1, <1>2, <1>3, <1>4, <1>5, <1>6, <1>7, <1>8 DEF TickStep

LEMMA ProjectorType ==
    ASSUME TypeOK, NEW p \in Projectors, ProjectorStep(p)
    PROVE  TypeOK'
<1>. USE DEF TypeOK, acceptVars, tickVars, EndProjection
<1>1. CASE TakeSnapshot(p)
  BY <1>1 DEF TakeSnapshot
<1>2. CASE ProjectPage(p)
  <2>1. dlq' \in [Events -> DlqRow]
    BY <1>2, DlqRows DEF ProjectPage, ResolveDlq
  <2>2. cursor' \in Nat
    BY <1>2 DEF ProjectPage, AdvanceCursor
  <2>. QED
    BY <1>2, <2>1, <2>2 DEF ProjectPage, UpsertResults
<1>3. CASE FailPage(p)
  <2>1. dlq' \in [Events -> DlqRow]
    BY <1>3, DlqRows DEF FailPage, EnqueueDlq
  <2>2. cursor' \in Nat
    BY <1>3 DEF FailPage, AdvanceCursor
  <2>. QED
    BY <1>3, <2>1, <2>2 DEF FailPage
<1>4. CASE CrashProjector(p)
  BY <1>4 DEF CrashProjector
<1>. QED
  BY <1>1, <1>2, <1>3, <1>4 DEF ProjectorStep

LEMMA RetrierType ==
    ASSUME TypeOK, NEW r \in Retriers, RetrierStep(r)
    PROVE  TypeOK'
<1>. USE DEF TypeOK, acceptVars, tickVars, projVars, NotRetrying
<1>1. ASSUME NEW e \in Events, ClaimDlq(r, e)
      PROVE  TypeOK'
  <2>1. dlq' \in [Events -> DlqRow]
    BY <1>1, LeasedRow DEF ClaimDlq
  <2>. QED
    BY <1>1, <2>1 DEF ClaimDlq
<1>2. CASE ReprojectEvent(r)
  BY <1>2 DEF ReprojectEvent, UpsertResults
<1>3. CASE CloseDlq(r)
  BY <1>3, DlqRows DEF CloseDlq
<1>4. CASE ReleaseDlq(r)
  <2>1. dlq' \in [Events -> DlqRow]
    BY <1>4, ReleasedRow DEF ReleaseDlq
  <2>. QED
    BY <1>4, <2>1 DEF ReleaseDlq
<1>5. CASE CrashRetrier(r)
  BY <1>5 DEF CrashRetrier
<1>6. ASSUME NEW S \in SUBSET Events, ReplayRange(r, S)
      PROVE  TypeOK'
  BY <1>6 DEF ReplayRange, UpsertResults
<1>7. ASSUME NEW e \in Events, ReplayFails(r, e)
      PROVE  TypeOK'
  <2>1. dlq' \in [Events -> DlqRow]
    BY <1>7, DlqRows DEF ReplayFails, EnqueueDlq
  <2>. QED
    BY <1>7, <2>1 DEF ReplayFails
<1>. QED
  BY <1>1, <1>2, <1>3, <1>4, <1>5, <1>6, <1>7 DEF RetrierStep

LEMMA ClockType ==
    ASSUME TypeOK, ClockStep
    PROVE  TypeOK'
<1>. USE DEF TypeOK, acceptVars, tickVars, projVars
<1>1. ASSUME NEW b \in Batch, ExpireLease(b)
      PROVE  TypeOK'
  BY <1>1, LeaseRow DEF ExpireLease
<1>2. ASSUME NEW b \in Batch, BecomeDue(b)
      PROVE  TypeOK'
  BY <1>2, DueRow DEF BecomeDue
<1>3. ASSUME NEW e \in Events, ExpireDlqLease(e)
      PROVE  TypeOK'
  BY <1>3 DEF ExpireDlqLease, DlqRow, WithLease
<1>. QED
  BY <1>1, <1>2, <1>3 DEF ClockStep

LEMMA InitType == Init => TypeOK
BY QueuedRow, DlqRows DEF Init, TypeOK, Phases, NoJob

LEMMA StepType == TypeOK /\ [Next]_vars => TypeOK'
<1>. SUFFICES ASSUME TypeOK, [Next]_vars PROVE TypeOK'
  OBVIOUS
<1>1. CASE UNCHANGED vars
  BY <1>1 DEF vars, acceptVars, tickVars, projVars, TypeOK
<1>. QED
  BY <1>1, HandlerType, TickType, ProjectorType, RetrierType, ClockType DEF Next

\* The rows keep the shape the schema demands and every variable its type, for
\* every number of events, workers, projectors, retries and attempts.
THEOREM TypeCorrect == Spec => []TypeOK
BY InitType, StepType, PTL DEF Spec

-----------------------------------------------------------------------------
(* Who writes what: the actions that may change each table. *)

LEMMA ReceiptWriters ==
    ASSUME [Next]_vars
    PROVE  \/ receipts' = receipts
           \/ \E h \in Handlers : CommitAcceptance(h) \/ WakeReceipts(h)
           \/ \E o \in Owners : \/ StartTick(o) \/ Heartbeat(o)
                               \/ CompleteBatch(o) \/ FailBatch(o)
                               \/ \E b \in Batch : Claim(o, b)
           \/ \E b \in Batch : ExpireLease(b) \/ BecomeDue(b)
<1>. USE DEF acceptVars, tickVars, projVars
<1>1. ASSUME NEW h \in Handlers, HandlerStep(h)
      PROVE  receipts' = receipts \/ CommitAcceptance(h) \/ WakeReceipts(h)
  BY <1>1 DEF HandlerStep, BeginAcceptance, RollbackAcceptance
<1>2. ASSUME NEW o \in Owners, TickStep(o)
      PROVE  \/ receipts' = receipts \/ StartTick(o) \/ Heartbeat(o)
             \/ CompleteBatch(o) \/ FailBatch(o) \/ \E b \in Batch : Claim(o, b)
  BY <1>2 DEF TickStep, EndTick, AbandonBatch, CrashOwner
<1>3. ASSUME NEW p \in Projectors, ProjectorStep(p)
      PROVE  receipts' = receipts
  BY <1>3 DEF ProjectorStep, TakeSnapshot, ProjectPage, FailPage, CrashProjector
<1>4. ASSUME NEW r \in Retriers, RetrierStep(r)
      PROVE  receipts' = receipts
  BY <1>4 DEF RetrierStep, ClaimDlq, ReprojectEvent, CloseDlq, ReleaseDlq, CrashRetrier,
              ReplayRange, ReplayFails
<1>5. ASSUME ClockStep
      PROVE  receipts' = receipts \/ \E b \in Batch : ExpireLease(b) \/ BecomeDue(b)
  BY <1>5 DEF ClockStep, ExpireDlqLease
<1>6. CASE UNCHANGED vars
  BY <1>6 DEF vars
<1>. QED
  BY <1>1, <1>2, <1>3, <1>4, <1>5, <1>6 DEF Next

LEMMA DlqWriters ==
    ASSUME [Next]_vars
    PROVE  \/ dlq' = dlq
           \/ \E o \in Owners : CompleteBatch(o) \/ FailBatch(o)
           \/ \E p \in Projectors : ProjectPage(p) \/ FailPage(p)
           \/ \E r \in Retriers : \/ CloseDlq(r) \/ ReleaseDlq(r)
                                 \/ \E e \in Events : \/ ClaimDlq(r, e)
                                                     \/ ReplayFails(r, e)
           \/ \E e \in Events : ExpireDlqLease(e)
<1>. USE DEF acceptVars, tickVars, projVars
<1>1. ASSUME NEW h \in Handlers, HandlerStep(h)
      PROVE  dlq' = dlq
  BY <1>1 DEF HandlerStep, BeginAcceptance, CommitAcceptance, RollbackAcceptance,
              WakeReceipts
<1>2. ASSUME NEW o \in Owners, TickStep(o)
      PROVE  dlq' = dlq \/ CompleteBatch(o) \/ FailBatch(o)
  BY <1>2 DEF TickStep, StartTick, Claim, EndTick, Heartbeat, AbandonBatch, CrashOwner
<1>3. ASSUME NEW p \in Projectors, ProjectorStep(p)
      PROVE  dlq' = dlq \/ ProjectPage(p) \/ FailPage(p)
  BY <1>3 DEF ProjectorStep, TakeSnapshot, CrashProjector
<1>4. ASSUME NEW r \in Retriers, RetrierStep(r)
      PROVE  \/ dlq' = dlq \/ CloseDlq(r) \/ ReleaseDlq(r)
             \/ \E e \in Events : ClaimDlq(r, e) \/ ReplayFails(r, e)
  BY <1>4 DEF RetrierStep, ReprojectEvent, CrashRetrier, ReplayRange
<1>5. ASSUME ClockStep
      PROVE  dlq' = dlq \/ \E e \in Events : ExpireDlqLease(e)
  BY <1>5 DEF ClockStep, ExpireLease, BecomeDue
<1>6. CASE UNCHANGED vars
  BY <1>6 DEF vars
<1>. QED
  BY <1>1, <1>2, <1>3, <1>4, <1>5, <1>6 DEF Next

LEMMA ResultWriters ==
    ASSUME [Next]_vars
    PROVE  \/ done' = done
           \/ \E o \in Owners : CompleteBatch(o)
           \/ \E p \in Projectors : ProjectPage(p)
           \/ \E r \in Retriers : \/ ReprojectEvent(r)
                                 \/ \E S \in SUBSET Events : ReplayRange(r, S)
<1>. USE DEF acceptVars, tickVars, projVars
<1>1. ASSUME NEW h \in Handlers, HandlerStep(h)
      PROVE  done' = done
  BY <1>1 DEF HandlerStep, BeginAcceptance, CommitAcceptance, RollbackAcceptance,
              WakeReceipts
<1>2. ASSUME NEW o \in Owners, TickStep(o)
      PROVE  done' = done \/ CompleteBatch(o)
  BY <1>2 DEF TickStep, StartTick, Claim, EndTick, Heartbeat, FailBatch, AbandonBatch,
              CrashOwner
<1>3. ASSUME NEW p \in Projectors, ProjectorStep(p)
      PROVE  done' = done \/ ProjectPage(p)
  BY <1>3 DEF ProjectorStep, TakeSnapshot, FailPage, CrashProjector
<1>4. ASSUME NEW r \in Retriers, RetrierStep(r)
      PROVE  \/ done' = done \/ ReprojectEvent(r)
             \/ \E S \in SUBSET Events : ReplayRange(r, S)
  BY <1>4 DEF RetrierStep, ClaimDlq, CloseDlq, ReleaseDlq, CrashRetrier, ReplayFails
<1>5. ASSUME ClockStep
      PROVE  done' = done
  BY <1>5 DEF ClockStep, ExpireLease, BecomeDue, ExpireDlqLease
<1>6. CASE UNCHANGED vars
  BY <1>6 DEF vars
<1>. QED
  BY <1>1, <1>2, <1>3, <1>4, <1>5, <1>6 DEF Next

LEMMA CursorWriters ==
    ASSUME [Next]_vars
    PROVE  \/ cursor' = cursor
           \/ \E o \in Owners : CompleteBatch(o)
           \/ \E p \in Projectors : ProjectPage(p) \/ FailPage(p)
<1>. USE DEF acceptVars, tickVars, projVars
<1>1. ASSUME NEW h \in Handlers, HandlerStep(h)
      PROVE  cursor' = cursor
  BY <1>1 DEF HandlerStep, BeginAcceptance, CommitAcceptance, RollbackAcceptance,
              WakeReceipts
<1>2. ASSUME NEW o \in Owners, TickStep(o)
      PROVE  cursor' = cursor \/ CompleteBatch(o)
  BY <1>2 DEF TickStep, StartTick, Claim, EndTick, Heartbeat, FailBatch, AbandonBatch,
              CrashOwner
<1>3. ASSUME NEW p \in Projectors, ProjectorStep(p)
      PROVE  cursor' = cursor \/ ProjectPage(p) \/ FailPage(p)
  BY <1>3 DEF ProjectorStep, TakeSnapshot, CrashProjector
<1>4. ASSUME NEW r \in Retriers, RetrierStep(r)
      PROVE  cursor' = cursor
  BY <1>4 DEF RetrierStep, ClaimDlq, ReprojectEvent, CloseDlq, ReleaseDlq, CrashRetrier,
              ReplayRange, ReplayFails
<1>5. ASSUME ClockStep
      PROVE  cursor' = cursor
  BY <1>5 DEF ClockStep, ExpireLease, BecomeDue, ExpireDlqLease
<1>6. CASE UNCHANGED vars
  BY <1>6 DEF vars
<1>. QED
  BY <1>1, <1>2, <1>3, <1>4, <1>5, <1>6 DEF Next

LEMMA ResultsGrow == ASSUME [Next]_vars PROVE done \subseteq done'
BY ResultWriters DEF CompleteBatch, ProjectPage, ReprojectEvent, ReplayRange, UpsertResults

-----------------------------------------------------------------------------
(* The checkpoint. *)

LEMMA AdvanceGrows ==
    ASSUME TypeOK, NEW S \in SUBSET Events, AdvanceCursor(S)
    PROVE  cursor' >= cursor
BY DEF AdvanceCursor, TypeOK

\* The checkpoint never moves back, whichever of the live batches and the
\* projectors writes it and however they interleave (advance_checkpoint).
THEOREM CheckpointMonotone == Spec => CursorOnlyAdvances
<1>1. ASSUME TypeOK, [Next]_vars
      PROVE  cursor' >= cursor
  <2>1. CASE cursor' = cursor
    BY <1>1, <2>1 DEF TypeOK
  <2>2. ASSUME NEW o \in Owners, CompleteBatch(o)
        PROVE  cursor' >= cursor
    BY <1>1, <2>2, AdvanceGrows DEF CompleteBatch, TypeOK
  <2>3. ASSUME NEW p \in Projectors, ProjectPage(p) \/ FailPage(p)
        PROVE  cursor' >= cursor
    BY <1>1, <2>3, AdvanceGrows DEF ProjectPage, FailPage, TypeOK
  <2>. QED
    BY <1>1, <2>1, <2>2, <2>3, CursorWriters
<1>. QED
  BY <1>1, TypeCorrect, PTL DEF Spec, CursorOnlyAdvances

-----------------------------------------------------------------------------
(* The receipts: what one step may do to the status of one receipt. *)

Untouched(b) == /\ receipts'[b].status = receipts[b].status
                /\ receipts'[b].error = receipts[b].error
Opened(b)    == /\ \E h \in Handlers : CommitAcceptance(h)
                /\ ~Exists(b) /\ receipts'[b].status = "queued"
Reopened(b)  == receipts[b].status = "failed" /\ receipts'[b].status = "queued"
Reclaimed(b) == /\ Lapsed(receipts[b])
                /\ receipts'[b].status \in {"failed", "retry_scheduled"}
                /\ receipts'[b].error = "lease_expired"
Started(b)   == /\ receipts[b].status \in {"queued", "retry_scheduled"}
                /\ receipts'[b].status = "running"
SettledBy(o, b) ==
    /\ HoldsClaim(o) /\ job[o].batch = b /\ job'[o] = NoJob
    /\ \/ receipts'[b].status = "completed" /\ b \subseteq done'
       \/ /\ receipts'[b].status \in {"failed", "retry_scheduled"}
          /\ \A e \in b : dlq'[e].status = "open"

\* The statuses written by each statement.
LEMMA Outcomes ==
    ASSUME NEW r \in Row, NEW o \in Owners
    PROVE  /\ Queued.status = "queued"
           /\ r.status = "failed" => Revived(r).status = "queued"
           /\ r.status # "failed" => /\ Revived(r).status = r.status
                                     /\ Revived(r).error = r.error
           /\ Recovered(r).status \in {"failed", "retry_scheduled"}
           /\ Recovered(r).error = "lease_expired"
           /\ ClaimedBy(r, o).status = "running"
           /\ \A l : /\ WithLease(r, l).status = r.status
                     /\ WithLease(r, l).error = r.error
           /\ Completed(r).status = "completed"
           /\ Failed(r).status \in {"failed", "retry_scheduled"}
<1>1. Queued.status = "queued"
  BY DEF Queued, Absent
<1>2. /\ r.status = "failed" => Revived(r).status = "queued"
      /\ r.status # "failed" => /\ Revived(r).status = r.status
                                /\ Revived(r).error = r.error
  BY DEF Revived, Row, Columns
<1>3. /\ Recovered(r).status \in {"failed", "retry_scheduled"}
      /\ Recovered(r).error = "lease_expired"
  BY DEF Recovered, Row, Columns
<1>4. /\ ClaimedBy(r, o).status = "running"
      /\ \A l : /\ WithLease(r, l).status = r.status
                /\ WithLease(r, l).error = r.error
  BY DEF ClaimedBy, WithLease, Row, Columns
<1>5. /\ Completed(r).status = "completed"
      /\ Failed(r).status \in {"failed", "retry_scheduled"}
  BY DEF Completed, Failed, Row, Columns
<1>. QED
  BY <1>1, <1>2, <1>3, <1>4, <1>5

LEMMA StatusStep ==
    ASSUME TypeOK, [Next]_vars, NEW b \in Batch
    PROVE  \/ Untouched(b) \/ Opened(b) \/ Reopened(b) \/ Reclaimed(b) \/ Started(b)
           \/ \E o \in Owners : SettledBy(o, b)
<1>0. receipts[b] \in Row
  BY DEF TypeOK
<1>1. CASE receipts' = receipts
  BY <1>1 DEF Untouched
<1>2. ASSUME NEW h \in Handlers, CommitAcceptance(h)
      PROVE  Untouched(b) \/ Opened(b)
  BY <1>2, Outcomes DEF CommitAcceptance, Untouched, Opened, Queued, Absent
<1>3. ASSUME NEW h \in Handlers, WakeReceipts(h)
      PROVE  Untouched(b) \/ Reopened(b)
  <2>1. receipts'[b] = Revived(receipts[b]) \/ receipts'[b] = receipts[b]
    BY <1>3 DEF WakeReceipts
  <2>2. h \in Owners
    BY DEF Owners
  <2>. QED
    BY <1>0, <2>1, <2>2, Outcomes DEF Untouched, Reopened
<1>4. ASSUME NEW o \in Owners, StartTick(o)
      PROVE  Untouched(b) \/ Reclaimed(b)
  <2>1. receipts'[b] = IF Lapsed(receipts[b]) THEN Recovered(receipts[b]) ELSE receipts[b]
    BY <1>4 DEF StartTick, RecoverExpired
  <2>. QED
    BY <1>0, <2>1, Outcomes DEF Untouched, Reclaimed
<1>5. ASSUME NEW o \in Owners, Heartbeat(o)
      PROVE  Untouched(b)
  <2>1. receipts'[b] = receipts[b] \/ receipts'[b] = WithLease(receipts[b], "live")
    BY <1>5 DEF Heartbeat, TypeOK
  <2>. QED
    BY <1>0, <2>1, Outcomes DEF Untouched
<1>6. ASSUME NEW o \in Owners, CompleteBatch(o)
      PROVE  Untouched(b) \/ SettledBy(o, b)
  <2>1. CASE b = job[o].batch
    <3>1. receipts'[b] = Completed(receipts[b]) /\ b \subseteq done' /\ HoldsClaim(o)
      BY <1>6, <2>1 DEF CompleteBatch, UpsertResults, TypeOK
    <3>2. job'[o] = NoJob
      BY <1>6 DEF CompleteBatch, FinishJob, TypeOK
    <3>. QED
      BY <1>0, <2>1, <3>1, <3>2, Outcomes DEF SettledBy
  <2>2. CASE b # job[o].batch
    BY <1>6, <2>2 DEF CompleteBatch, Untouched, TypeOK
  <2>. QED
    BY <2>1, <2>2
<1>7. ASSUME NEW o \in Owners, FailBatch(o)
      PROVE  Untouched(b) \/ SettledBy(o, b)
  <2>1. CASE b = job[o].batch
    <3>1. receipts'[b] = Failed(receipts[b]) /\ HoldsClaim(o)
      BY <1>7, <2>1 DEF FailBatch, TypeOK
    <3>2. job'[o] = NoJob
      BY <1>7 DEF FailBatch, FinishJob, TypeOK
    <3>3. \A e \in b : dlq'[e].status = "open"
      BY <1>7, <2>1 DEF FailBatch, EnqueueDlq, NoRow, Batch, TypeOK
    <3>. QED
      BY <1>0, <2>1, <3>1, <3>2, <3>3, Outcomes DEF SettledBy
  <2>2. CASE b # job[o].batch
    BY <1>7, <2>2 DEF FailBatch, Untouched, TypeOK
  <2>. QED
    BY <2>1, <2>2
<1>8. ASSUME NEW o \in Owners, NEW c \in Batch, Claim(o, c)
      PROVE  Untouched(b) \/ Started(b)
  <2>1. CASE b = c
    <3>1. receipts'[b] = ClaimedBy(receipts[b], o) /\ Claimable(b)
      BY <1>8, <2>1 DEF Claim, TypeOK
    <3>. QED
      BY <1>0, <3>1, Outcomes DEF Claimable, Started
  <2>2. CASE b # c
    BY <1>8, <2>2 DEF Claim, Untouched, TypeOK
  <2>. QED
    BY <2>1, <2>2
<1>9. ASSUME NEW c \in Batch, ExpireLease(c) \/ BecomeDue(c)
      PROVE  Untouched(b)
  <2>1. \/ receipts'[b] = receipts[b]
        \/ receipts'[b] = WithLease(receipts[b], "expired")
        \/ receipts'[b] = [receipts[b] EXCEPT !.due = TRUE]
    BY <1>9 DEF ExpireLease, BecomeDue, TypeOK
  <2>. QED
    BY <1>0, <2>1 DEF Untouched, WithLease, Row, Columns
<1>. QED
  BY <1>1, <1>2, <1>3, <1>4, <1>5, <1>6, <1>7, <1>8, <1>9, ReceiptWriters

\* Nothing brings a completed receipt back: neither a client retry, nor lease
\* recovery, nor a stale worker that reports failure late.
THEOREM CompletionFinal == Spec => CompletedIsFinal
<1>1. ASSUME TypeOK, [Next]_vars, NEW b \in Batch, receipts[b].status = "completed"
      PROVE  receipts'[b].status = "completed"
  BY <1>1, StatusStep DEF Untouched, Opened, Reopened, Reclaimed, Started, SettledBy,
                          Exists, Lapsed, HoldsClaim
<1>2. TypeOK /\ [Next]_vars =>
        \A b \in Batch : receipts[b].status = "completed" => receipts'[b].status = "completed"
  BY <1>1
<1>. QED
  BY <1>2, TypeCorrect, PTL DEF Spec, CompletedIsFinal

\* A running receipt is settled by the claim that runs it or, once its lease
\* has expired, by lease recovery: a worker that lost its claim changes nothing.
THEOREM FencedSettlement == Spec => OnlyClaimantSettles
<1>. DEFINE Fenced(b) ==
         (receipts[b].status = "running" /\ receipts'[b].status # "running") =>
            \/ Lapsed(receipts[b]) /\ receipts'[b].error = "lease_expired"
            \/ \E o \in Owners : /\ receipts[b].owner = o
                                 /\ job[o] = [batch |-> b, attempts |-> receipts[b].attempts]
                                 /\ job'[o] = NoJob
<1>1. ASSUME TypeOK, [Next]_vars, NEW b \in Batch PROVE Fenced(b)
  <2>1. ASSUME NEW o \in Owners, SettledBy(o, b)
        PROVE  /\ receipts[b].owner = o /\ job'[o] = NoJob
               /\ job[o] = [batch |-> b, attempts |-> receipts[b].attempts]
    BY <1>1, <2>1 DEF SettledBy, HoldsClaim, TypeOK
  <2>. QED
    BY <1>1, <2>1, StatusStep DEF Untouched, Opened, Reopened, Reclaimed, Started, Exists
<1>2. TypeOK /\ [Next]_vars => \A b \in Batch : Fenced(b)
  BY <1>1
<1>. QED
  BY <1>2, TypeCorrect, PTL DEF Spec, OnlyClaimantSettles

-----------------------------------------------------------------------------
(* Receipts, results and dead letters. *)

\* A client that polls a receipt and reads "completed" finds the results of all
\* its events.
THEOREM CompletionProjected == Spec => []CompletedIsProjected
<1>1. Init => CompletedIsProjected
  BY DEF Init, CompletedIsProjected, Absent
<1>2. ASSUME TypeOK, CompletedIsProjected, [Next]_vars
      PROVE  CompletedIsProjected'
  <2>. SUFFICES ASSUME NEW b \in Batch, receipts'[b].status = "completed"
                PROVE  b \subseteq done'
    BY DEF CompletedIsProjected
  <2>1. done \subseteq done'
    BY <1>2, ResultsGrow
  <2>2. CASE Untouched(b)
    BY <1>2, <2>1, <2>2 DEF Untouched, CompletedIsProjected
  <2>3. ASSUME NEW o \in Owners, SettledBy(o, b)
        PROVE  b \subseteq done'
    BY <2>3 DEF SettledBy
  <2>. QED
    BY <1>2, <2>2, <2>3, StatusStep DEF Opened, Reopened, Reclaimed, Started
<1>. QED
  BY <1>1, <1>2, TypeCorrect, PTL DEF Spec

\* What one step may do to one dead letter.
Kept(e)       == dlq'[e].status = dlq[e].status
Handed(e)     == dlq'[e].status = "open"
ClosedDone(e) == dlq'[e].status = "resolved" /\ e \in done'

\* A retry that has written results knows of results that exist.
RetryInv == \A r \in Retriers : retrying[r].step = "projected" => retrying[r].event \in done

LEMMA DlqStep ==
    ASSUME TypeOK, RetryInv, [Next]_vars, NEW e \in Events
    PROVE  Kept(e) \/ Handed(e) \/ ClosedDone(e)
<1>1. ASSUME NEW S \in SUBSET Events, ResolveDlq(S), UpsertResults(S)
      PROVE  Kept(e) \/ ClosedDone(e)
  BY <1>1 DEF ResolveDlq, UpsertResults, Closed, NoRow, Kept, ClosedDone
<1>2. ASSUME NEW S \in SUBSET Events, EnqueueDlq(S)
      PROVE  Kept(e) \/ Handed(e)
  BY <1>2 DEF EnqueueDlq, NoRow, Kept, Handed
<1>3. CASE dlq' = dlq
  BY <1>3 DEF Kept
<1>4. ASSUME NEW o \in Owners, CompleteBatch(o)
      PROVE  Kept(e) \/ ClosedDone(e)
  BY <1>1, <1>4 DEF CompleteBatch, TypeOK
<1>5. ASSUME NEW o \in Owners, FailBatch(o)
      PROVE  Kept(e) \/ Handed(e)
  BY <1>2, <1>5 DEF FailBatch, TypeOK
<1>6. ASSUME NEW p \in Projectors, ProjectPage(p)
      PROVE  Kept(e) \/ ClosedDone(e)
  BY <1>1, <1>6 DEF ProjectPage, TypeOK
<1>7. ASSUME NEW p \in Projectors, FailPage(p)
      PROVE  Kept(e) \/ Handed(e)
  BY <1>2, <1>7 DEF FailPage, TypeOK
<1>8. ASSUME NEW r \in Retriers, CloseDlq(r)
      PROVE  Kept(e) \/ ClosedDone(e)
  BY <1>8 DEF CloseDlq, Closed, NoRow, RetryInv, Kept, ClosedDone, TypeOK
<1>9. ASSUME NEW r \in Retriers, ReleaseDlq(r)
      PROVE  Kept(e)
  BY <1>9 DEF ReleaseDlq, Released, Kept, TypeOK, DlqRow
<1>10. ASSUME NEW r \in Retriers, NEW f \in Events, ClaimDlq(r, f)
       PROVE  Kept(e)
  BY <1>10 DEF ClaimDlq, LeasedBy, Kept, TypeOK, DlqRow
<1>11. ASSUME NEW f \in Events, ExpireDlqLease(f)
       PROVE  Kept(e)
  BY <1>11 DEF ExpireDlqLease, WithLease, Kept, TypeOK, DlqRow
<1>12. ASSUME NEW r \in Retriers, NEW f \in Events, ReplayFails(r, f)
       PROVE  Kept(e) \/ Handed(e)
  BY <1>2, <1>12 DEF ReplayFails
<1>. QED
  BY <1>3, <1>4, <1>5, <1>6, <1>7, <1>8, <1>9, <1>10, <1>11, <1>12, DlqWriters

LEMMA RetryStep ==
    ASSUME TypeOK, RetryInv, [Next]_vars
    PROVE  RetryInv'
<1>. SUFFICES ASSUME NEW r \in Retriers, retrying'[r].step = "projected"
              PROVE  retrying'[r].event \in done'
  BY DEF RetryInv
<1>0. done \subseteq done'
  BY ResultsGrow
<1>1. CASE retrying' = retrying
  BY <1>0, <1>1 DEF RetryInv
<1>2. ASSUME NEW q \in Retriers, RetrierStep(q)
      PROVE  retrying'[r].event \in done'
  <2>1. CASE q # r
    BY <1>0, <1>2, <2>1 DEF RetrierStep, ClaimDlq, ReprojectEvent, CloseDlq, ReleaseDlq,
                         CrashRetrier, ReplayRange, ReplayFails, RetryInv, TypeOK
  <2>2. CASE q = r
    <3>1. ASSUME NEW e \in Events, ClaimDlq(r, e)
          PROVE  FALSE
      BY <3>1 DEF ClaimDlq, TypeOK
    <3>2. CASE ReprojectEvent(r)
      BY <3>2 DEF ReprojectEvent, UpsertResults, TypeOK, NotRetrying
    <3>3. CASE CloseDlq(r) \/ ReleaseDlq(r) \/ CrashRetrier(r)
      BY <3>3 DEF CloseDlq, ReleaseDlq, CrashRetrier, TypeOK, NotRetrying
    <3>4. CASE \/ \E S \in SUBSET Events : ReplayRange(r, S)
               \/ \E e \in Events : ReplayFails(r, e)
      BY <1>1, <3>4 DEF ReplayRange, ReplayFails
    <3>. QED
      BY <1>2, <2>2, <3>1, <3>2, <3>3, <3>4 DEF RetrierStep
  <2>. QED
    BY <2>1, <2>2
<1>3. ASSUME NEW h \in Handlers, HandlerStep(h)
      PROVE  retrying' = retrying
  BY <1>3 DEF HandlerStep, BeginAcceptance, CommitAcceptance, RollbackAcceptance,
              WakeReceipts
<1>4. ASSUME NEW o \in Owners, TickStep(o)
      PROVE  retrying' = retrying
  BY <1>4 DEF TickStep, StartTick, Claim, EndTick, Heartbeat, CompleteBatch, FailBatch,
              AbandonBatch, CrashOwner
<1>5. ASSUME NEW p \in Projectors, ProjectorStep(p)
      PROVE  retrying' = retrying
  BY <1>5 DEF ProjectorStep, TakeSnapshot, ProjectPage, FailPage, CrashProjector
<1>6. ASSUME ClockStep
      PROVE  retrying' = retrying
  BY <1>6 DEF ClockStep, ExpireLease, BecomeDue, ExpireDlqLease
<1>7. CASE UNCHANGED vars
  BY <1>1, <1>7 DEF vars
<1>. QED
  BY <1>1, <1>2, <1>3, <1>4, <1>5, <1>6, <1>7 DEF Next

THEOREM RetriesSound == Spec => []RetryInv
<1>1. Init => RetryInv
  BY DEF Init, RetryInv, NotRetrying
<1>. QED
  BY <1>1, RetryStep, TypeCorrect, PTL DEF Spec

\* A dead letter is closed only once its event has results, whoever closes it:
\* a live batch, the projector or a retry that may have lost its lease.
THEOREM ResolutionProjected == Spec => []ResolvedIsProjected
<1>1. Init => ResolvedIsProjected
  BY DEF Init, ResolvedIsProjected, NoRow
<1>2. TypeOK /\ RetryInv /\ ResolvedIsProjected /\ [Next]_vars => ResolvedIsProjected'
  BY DlqStep, ResultsGrow DEF ResolvedIsProjected, Kept, Handed, ClosedDone
<1>. QED
  BY <1>1, <1>2, TypeCorrect, RetriesSound, PTL DEF Spec

\* No accepted event is forgotten: it has results, an open dead letter or a
\* receipt some worker will still run, unless lease recovery failed its receipt.
THEOREM NothingForgotten == Spec => []NoEventForgotten
<1>1. Init => NoEventForgotten
  BY DEF Init, NoEventForgotten, Exists, Absent
<1>2. ASSUME TypeOK, RetryInv, NoEventForgotten, [Next]_vars
      PROVE  NoEventForgotten'
  <2>. SUFFICES ASSUME NEW b \in Batch, Exists(b)'
                PROVE  (InProgress(b) \/ LostItsLease(b) \/ \A e \in b : Replayable(e))'
    BY DEF NoEventForgotten
  <2>1. ASSUME NEW e \in b, Replayable(e)
        PROVE  Replayable(e)'
    <3>1. e \in Events
      BY DEF Batch
    <3>. QED
      BY <1>2, <2>1, <3>1, DlqStep, ResultsGrow DEF Replayable, Kept, Handed, ClosedDone
  <2>2. CASE Untouched(b)
    BY <1>2, <2>1, <2>2 DEF Untouched, NoEventForgotten, Exists, InProgress, LostItsLease
  <2>3. CASE Opened(b) \/ Reopened(b) \/ Started(b) \/ Reclaimed(b)
    BY <2>3 DEF Opened, Reopened, Started, Reclaimed, InProgress, LostItsLease
  <2>4. ASSUME NEW o \in Owners, SettledBy(o, b)
        PROVE  \A e \in b : Replayable(e)'
    BY <2>4 DEF SettledBy, Replayable
  <2>. QED
    BY <1>2, <2>2, <2>3, <2>4, StatusStep
<1>. QED
  BY <1>1, <1>2, TypeCorrect, RetriesSound, PTL DEF Spec

\* While a dead-letter retry holds a live lease only that retry changes the row:
\* live batches and the projector leave it alone until the lease expires.
THEOREM LeasedRowsKept == Spec => RetryLeaseRespected
<1>. DEFINE Respected(r, e) ==
         (dlq[e].owner = r /\ dlq[e].lease = "live" /\ dlq'[e] # dlq[e]) =>
            \/ dlq'[e] = WithLease(dlq[e], "expired")
            \/ retrying[r].event = e /\ retrying'[r] = NotRetrying
<1>1. ASSUME TypeOK, [Next]_vars, NEW r \in Retriers, NEW e \in Events
      PROVE  Respected(r, e)
  <2>. SUFFICES ASSUME dlq[e].owner = r, dlq[e].lease = "live", dlq'[e] # dlq[e]
                PROVE  \/ dlq'[e] = WithLease(dlq[e], "expired")
                       \/ retrying[r].event = e /\ retrying'[r] = NotRetrying
    OBVIOUS
  <2>0. dlq[e].status = "open" /\ dlq[e].owner # Nobody
    BY <1>1, ActorAssumption DEF TypeOK, DlqRow
  <2>1. ASSUME NEW S, ResolveDlq(S) \/ EnqueueDlq(S)
        PROVE  FALSE
    BY <2>0, <2>1 DEF ResolveDlq, EnqueueDlq, Closable
  <2>2. ASSUME NEW q \in Retriers, CloseDlq(q) \/ ReleaseDlq(q)
        PROVE  retrying[r].event = e /\ retrying'[r] = NotRetrying
    BY <1>1, <2>2 DEF CloseDlq, ReleaseDlq, HoldsRow, TypeOK
  <2>3. ASSUME NEW q \in Retriers, NEW f \in Events, ClaimDlq(q, f)
        PROVE  FALSE
    BY <1>1, <2>0, <2>3 DEF ClaimDlq, TypeOK
  <2>4. ASSUME NEW f \in Events, ExpireDlqLease(f)
        PROVE  dlq'[e] = WithLease(dlq[e], "expired")
    BY <1>1, <2>4 DEF ExpireDlqLease, TypeOK
  <2>. QED
    BY <1>1, <2>1, <2>2, <2>3, <2>4, DlqWriters
       DEF CompleteBatch, FailBatch, ProjectPage, FailPage, ReplayFails
<1>2. TypeOK /\ [Next]_vars => \A r \in Retriers, e \in Events : Respected(r, e)
  BY <1>1
<1>. QED
  BY <1>2, TypeCorrect, PTL DEF Spec, RetryLeaseRespected

-----------------------------------------------------------------------------
(* Acceptance. *)

\* The handler in its acceptance transaction is the holder of the fence; only
\* its uncommitted rows have stamps, later than every accepted event; and the
\* checkpoint is the position of an accepted event.
FenceInv  == \A h \in Handlers : fence = h <=> phase[h] = "inserting"
StampInv  == \A h \in Handlers, e \in Events : stamp[h][e] > 0 =>
                /\ fence = h /\ ~Accepted(e)
                /\ \A f \in Events : pos[f] < stamp[h][e]
CursorInv == cursor = 0 \/ \E e \in Events : pos[e] = cursor
AcceptInv == FenceInv /\ StampInv /\ CursorInv

LEMMA AdvanceInv ==
    ASSUME TypeOK, CursorInv, NEW S \in SUBSET Events, AdvanceCursor(S), pos' = pos
    PROVE  CursorInv'
BY DEF AdvanceCursor, CursorInv

LEMMA StampsLater ==
    ASSUME TypeOK, NEW new \in SUBSET Events, NEW st \in Stamps(new), NEW e \in new,
           NEW f \in Events
    PROVE  pos[f] < st[e]
<1>1. PICK top \in Used : /\ \A u \in Used : u <= top
                          /\ st \in [new -> (top + 1)..(top + Cardinality(new))]
  BY DEF Stamps
<1>2. Used \subseteq Nat
  BY DEF Used, TypeOK
<1>3. Cardinality(new) \in Nat
  BY GroupAssumption, FS_Subset, FS_CardinalityType
<1>4. st[e] \in Nat /\ st[e] > top
  BY <1>1, <1>2, <1>3
<1>5. pos[f] \in Used
  BY DEF Used
<1>6. pos[f] \in Nat /\ top \in Nat /\ pos[f] <= top
  BY <1>1, <1>2, <1>5
<1>. QED
  BY <1>4, <1>6

LEMMA AcceptStep ==
    ASSUME TypeOK, AcceptInv, [Next]_vars
    PROVE  AcceptInv'
<1>. USE DEF AcceptInv, Owners
<1>0. \A h \in Handlers : h # Nobody
  BY ActorAssumption
<1>1. ASSUME NEW h \in Handlers, NEW R \in (SUBSET Events) \ {{}}, BeginAcceptance(h, R)
      PROVE  AcceptInv'
  <2>1. fence = Nobody /\ fence' = h /\ pos' = pos /\ cursor' = cursor
    BY <1>1 DEF BeginAcceptance, Unlocked
  <2>2. \A g \in Handlers : phase'[g] = "inserting" <=> g = h
    BY <1>0, <1>1, <2>1 DEF BeginAcceptance, FenceInv, TypeOK
  <2>3. \A g \in Handlers, e \in Events : stamp[g][e] = 0
    <3>1. ASSUME NEW g \in Handlers, NEW e \in Events
          PROVE  stamp[g][e] = 0
      <4>1. stamp[g][e] \in Nat
        BY DEF TypeOK
      <4>2. ~(stamp[g][e] > 0)
        BY <1>0, <2>1 DEF StampInv
      <4>. QED
        BY <4>1, <4>2
    <3>. QED
      BY <3>1
  <2>4. PICK st \in Stamps({e \in R : ~Accepted(e)}) :
          stamp' = [stamp EXCEPT ![h] =
                      [e \in Events |-> IF e \in R /\ ~Accepted(e) THEN st[e] ELSE 0]]
    BY <1>1 DEF BeginAcceptance
  <2>5. ASSUME NEW g \in Handlers, NEW e \in Events, stamp'[g][e] > 0
        PROVE  g = h /\ ~Accepted(e) /\ \A f \in Events : pos[f] < stamp'[g][e]
    <3>1. g = h /\ e \in R /\ ~Accepted(e) /\ stamp'[g][e] = st[e]
      BY <2>3, <2>4, <2>5 DEF TypeOK
    <3>. QED
      BY <3>1, StampsLater
  <2>6. StampInv'
    BY <2>1, <2>5 DEF StampInv, Accepted
  <2>. QED
    BY <1>0, <2>1, <2>2, <2>6 DEF FenceInv, CursorInv
<1>2. ASSUME NEW h \in Handlers, CommitAcceptance(h)
      PROVE  AcceptInv'
  <2>1. fence = h
    BY <1>2 DEF CommitAcceptance, FenceInv
  <2>2. FenceInv'
    BY <1>0, <1>2, <2>1 DEF CommitAcceptance, FenceInv, TypeOK
  <2>3. StampInv'
    BY <1>2, <2>1 DEF CommitAcceptance, StampInv, TypeOK
  <2>4. ASSUME NEW e \in Events, pos[e] > 0
        PROVE  pos'[e] = pos[e]
    BY <1>2, <2>4 DEF CommitAcceptance, StampInv, Accepted, TypeOK
  <2>5. CursorInv'
    BY <1>2, <2>4 DEF CommitAcceptance, CursorInv, TypeOK
  <2>. QED
    BY <2>2, <2>3, <2>5
<1>3. ASSUME NEW h \in Handlers, RollbackAcceptance(h)
      PROVE  AcceptInv'
  <2>1. fence = h
    BY <1>3 DEF RollbackAcceptance, FenceInv
  <2>2. FenceInv'
    BY <1>0, <1>3, <2>1 DEF RollbackAcceptance, FenceInv, TypeOK
  <2>3. StampInv'
    BY <1>3, <2>1 DEF RollbackAcceptance, StampInv, TypeOK
  <2>. QED
    BY <1>3, <2>2, <2>3 DEF RollbackAcceptance, CursorInv
<1>4. ASSUME NEW o \in Owners, CrashOwner(o)
      PROVE  AcceptInv'
  <2>1. FenceInv'
    BY <1>0, <1>4 DEF CrashOwner, FenceInv, TypeOK
  <2>2. StampInv'
    BY <1>4, ActorAssumption DEF CrashOwner, StampInv, Accepted, TypeOK
  <2>. QED
    BY <1>4, <2>1, <2>2 DEF CrashOwner, CursorInv
<1>5. ASSUME pos' = pos, fence' = fence, stamp' = stamp, CursorInv',
             \A h \in Handlers : phase'[h] = "inserting" <=> phase[h] = "inserting"
      PROVE  AcceptInv'
  BY <1>5 DEF FenceInv, StampInv, Accepted
<1>6. ASSUME NEW h \in Handlers, WakeReceipts(h)
      PROVE  AcceptInv'
  BY <1>5, <1>6 DEF WakeReceipts, acceptVars, CursorInv, TypeOK
<1>7. ASSUME NEW o \in Owners, TickStep(o), ~CrashOwner(o)
      PROVE  AcceptInv'
  <2>1. pos' = pos /\ fence' = fence /\ stamp' = stamp
    BY <1>7 DEF TickStep, StartTick, Claim, EndTick, Heartbeat, CompleteBatch, FailBatch,
                AbandonBatch, acceptVars
  <2>2. \A h \in Handlers : phase'[h] = "inserting" <=> phase[h] = "inserting"
    BY <1>7, ActorAssumption DEF TickStep, StartTick, Claim, EndTick, Heartbeat,
         CompleteBatch, FailBatch, AbandonBatch, FinishJob, HoldsClaim, tickVars, TypeOK
  <2>3. CASE CompleteBatch(o)
    <3>1. job[o].batch \in SUBSET Events
      BY DEF TypeOK
    <3>. QED
      BY <1>5, <2>1, <2>2, <2>3, <3>1, AdvanceInv DEF CompleteBatch
  <2>4. CASE ~CompleteBatch(o)
    <3>1. cursor' = cursor
      BY <1>7, <2>4 DEF TickStep, StartTick, Claim, EndTick, Heartbeat, FailBatch,
                        AbandonBatch
    <3>. QED
      BY <1>5, <2>1, <2>2, <3>1 DEF CursorInv
  <2>. QED
    BY <2>3, <2>4
<1>8. ASSUME NEW p \in Projectors, ProjectorStep(p)
      PROVE  AcceptInv'
  <2>1. UNCHANGED <<pos, fence, stamp, phase>>
    BY <1>8 DEF ProjectorStep, TakeSnapshot, ProjectPage, FailPage, CrashProjector,
                acceptVars, tickVars
  <2>2. CASE ProjectPage(p) \/ FailPage(p)
    <3>1. snapshot[p] \in SUBSET Events
      BY DEF TypeOK
    <3>. QED
      BY <1>5, <2>1, <2>2, <3>1, AdvanceInv DEF ProjectPage, FailPage
  <2>3. CASE TakeSnapshot(p) \/ CrashProjector(p)
    BY <1>5, <2>1, <2>3 DEF TakeSnapshot, CrashProjector, CursorInv
  <2>. QED
    BY <1>8, <2>2, <2>3 DEF ProjectorStep
<1>9. ASSUME NEW r \in Retriers, RetrierStep(r)
      PROVE  AcceptInv'
  BY <1>5, <1>9 DEF RetrierStep, ClaimDlq, ReprojectEvent, CloseDlq, ReleaseDlq,
                    CrashRetrier, ReplayRange, ReplayFails, acceptVars, tickVars, CursorInv
<1>10. ASSUME ClockStep
       PROVE  AcceptInv'
  BY <1>5, <1>10 DEF ClockStep, ExpireLease, BecomeDue, ExpireDlqLease, acceptVars,
                     tickVars, CursorInv
<1>11. CASE UNCHANGED vars
  BY <1>5, <1>11 DEF vars, acceptVars, tickVars, CursorInv
<1>. QED
  BY <1>1, <1>2, <1>3, <1>4, <1>6, <1>7, <1>8, <1>9, <1>10, <1>11 DEF Next, HandlerStep

THEOREM AcceptanceFenced == Spec => []AcceptInv
<1>1. Init => AcceptInv
  BY ActorAssumption DEF Init, AcceptInv, FenceInv, StampInv, CursorInv, Owners
<1>. QED
  BY <1>1, AcceptStep, TypeCorrect, PTL DEF Spec

LEMMA AcceptWriters ==
    ASSUME [Next]_vars
    PROVE  pos' = pos \/ \E h \in Handlers : CommitAcceptance(h)
<1>. USE DEF acceptVars, tickVars, projVars
<1>1. ASSUME NEW h \in Handlers, HandlerStep(h)
      PROVE  pos' = pos \/ CommitAcceptance(h)
  BY <1>1 DEF HandlerStep, BeginAcceptance, RollbackAcceptance, WakeReceipts
<1>2. ASSUME NEW o \in Owners, TickStep(o)
      PROVE  pos' = pos
  BY <1>2 DEF TickStep, StartTick, Claim, EndTick, Heartbeat, CompleteBatch, FailBatch,
              AbandonBatch, CrashOwner
<1>3. ASSUME NEW p \in Projectors, ProjectorStep(p)
      PROVE  pos' = pos
  BY <1>3 DEF ProjectorStep, TakeSnapshot, ProjectPage, FailPage, CrashProjector
<1>4. ASSUME NEW r \in Retriers, RetrierStep(r)
      PROVE  pos' = pos
  BY <1>4 DEF RetrierStep, ClaimDlq, ReprojectEvent, CloseDlq, ReleaseDlq, CrashRetrier,
              ReplayRange, ReplayFails
<1>5. ASSUME ClockStep
      PROVE  pos' = pos
  BY <1>5 DEF ClockStep, ExpireLease, BecomeDue, ExpireDlqLease
<1>6. CASE UNCHANGED vars
  BY <1>6 DEF vars
<1>. QED
  BY <1>1, <1>2, <1>3, <1>4, <1>5, <1>6 DEF Next

\* An acceptance never commits an event at or behind the checkpoint, where the
\* projector would not see it: the purpose of the acceptance fence.
THEOREM NoCommitBehind == Spec => NothingCommitsBehindCursor
<1>1. ASSUME TypeOK, AcceptInv, [Next]_vars, NEW e \in Events, ~Accepted(e), Accepted(e)'
      PROVE  pos'[e] > cursor'
  <2>1. PICK h \in Handlers : CommitAcceptance(h)
    BY <1>1, AcceptWriters DEF Accepted
  <2>2. pos'[e] = stamp[h][e] /\ stamp[h][e] > 0 /\ cursor' = cursor
    BY <1>1, <2>1 DEF CommitAcceptance, Accepted, TypeOK
  <2>. QED
    BY <1>1, <2>2 DEF AcceptInv, StampInv, CursorInv, TypeOK
<1>2. TypeOK /\ AcceptInv /\ [Next]_vars =>
        \A e \in Events : ~Accepted(e) /\ Accepted(e)' => pos'[e] > cursor'
  BY <1>1
<1>. QED
  BY <1>2, TypeCorrect, AcceptanceFenced, PTL DEF Spec, NothingCommitsBehindCursor

-----------------------------------------------------------------------------
(* Receipts partition the accepted events, and the ledger implements       *)
(* ReceiptContract.                                                        *)

\* An event, once accepted, stays accepted, and a receipt, once there, stays.
LEMMA AcceptedStable ==
    ASSUME TypeOK, AcceptInv, [Next]_vars, NEW e \in Events, Accepted(e)
    PROVE  Accepted(e)'
<1>1. ASSUME NEW h \in Handlers, CommitAcceptance(h)
      PROVE  Accepted(e)'
  BY <1>1 DEF CommitAcceptance, Accepted, TypeOK
<1>. QED
  BY <1>1, AcceptWriters DEF Accepted

LEMMA ReceiptsStable ==
    ASSUME TypeOK, [Next]_vars, NEW b \in Batch
    PROVE  /\ Exists(b) => Exists(b)'
           /\ ~Exists(b) /\ Exists(b)' => \E h \in Handlers : CommitAcceptance(h)
BY StatusStep DEF Untouched, Opened, Reopened, Reclaimed, Started, SettledBy, Exists,
                  Lapsed, HoldsClaim

LEMMA CommitOpens ==
    ASSUME TypeOK, NEW h \in Handlers, CommitAcceptance(h), NEW b \in Batch
    PROVE  Exists(b)' <=> Exists(b) \/ b \in NewBatches(h)
BY DEF CommitAcceptance, Exists, Queued, Absent

LEMMA InBatch == ASSUME NEW d, d \in SUBSET Events, NEW e \in d PROVE d \in Batch
<1>1. d # {}
  OBVIOUS
<1>. QED
  BY <1>1 DEF Batch

\* The newly accepted events of a commit, and the receipts they come in.
LEMMA NewReceipts ==
    ASSUME TypeOK, AcceptInv, NEW h \in Handlers, CommitAcceptance(h)
    PROVE  /\ \A b \in NewBatches(h) : \A e \in b : ~Accepted(e) /\ Accepted(e)'
           /\ \A e \in Events : Accepted(e)' => Accepted(e) \/ \E b \in NewBatches(h) : e \in b
           /\ \A b, c \in NewBatches(h) : b # c => b \cap c = {}
<1>1. ASSUME NEW b \in NewBatches(h), NEW e \in b
      PROVE  ~Accepted(e) /\ Accepted(e)'
  <2>1. e \in Events /\ stamp[h][e] > 0
    BY <1>1 DEF NewBatches
  <2>2. ~Accepted(e)
    BY <2>1 DEF AcceptInv, StampInv
  <2>3. pos'[e] = stamp[h][e]
    BY <2>1 DEF CommitAcceptance
  <2>. QED
    BY <2>1, <2>2, <2>3 DEF Accepted
<1>2. ASSUME NEW e \in Events, Accepted(e)', ~Accepted(e)
      PROVE  \E b \in NewBatches(h) : e \in b
  <2>. DEFINE c == {f \in Events : stamp[h][f] > 0 /\ GroupOf[f] = GroupOf[e]}
  <2>1. stamp[h][e] > 0
    BY <1>2 DEF CommitAcceptance, Accepted
  <2>2. e \in c /\ c \in SUBSET Events
    BY <2>1
  <2>4. c \in Batch
    BY <2>2, InBatch
  <2>5. GroupOf[e] \in Groups
    BY GroupAssumption
  <2>. QED
    BY <2>2, <2>4, <2>5 DEF NewBatches
<1>3. \A b, c \in NewBatches(h) : b # c => b \cap c = {}
  BY DEF NewBatches
<1>. QED
  BY <1>1, <1>2, <1>3

LEMMA PartitionStep ==
    ASSUME TypeOK, AcceptInv, ReceiptsPartitionEvents, [Next]_vars
    PROVE  ReceiptsPartitionEvents'
<1>1. ASSUME NEW h \in Handlers, CommitAcceptance(h)
      PROVE  ReceiptsPartitionEvents'
  <2>1. ASSUME NEW b \in Batch, Exists(b)', NEW e \in b
        PROVE  Accepted(e)'
    <3>1. e \in Events
      BY DEF Batch
    <3>. QED
      BY <1>1, <2>1, <3>1, CommitOpens, NewReceipts, AcceptedStable
         DEF ReceiptsPartitionEvents
  <2>2. ASSUME NEW e \in Events, Accepted(e)'
        PROVE  \E b \in Batch : Exists(b)' /\ e \in b
    <3>1. CASE Accepted(e)
      BY <1>1, <3>1, CommitOpens DEF ReceiptsPartitionEvents
    <3>2. CASE ~Accepted(e)
      BY <1>1, <2>2, <3>2, CommitOpens, NewReceipts DEF NewBatches
    <3>. QED
      BY <3>1, <3>2
  <2>3. ASSUME NEW b \in Batch, NEW c \in Batch, Exists(b)', Exists(c)', b # c
        PROVE  b \cap c = {}
    <3>1. ASSUME NEW d \in Batch, Exists(d), NEW f \in NewBatches(h)
          PROVE  d \cap f = {}
      BY <1>1, <3>1, NewReceipts DEF ReceiptsPartitionEvents
    <3>. QED
      BY <1>1, <2>3, <3>1, CommitOpens, NewReceipts DEF ReceiptsPartitionEvents
  <2>. QED
    BY <2>1, <2>2, <2>3 DEF ReceiptsPartitionEvents
<1>2. CASE ~ \E h \in Handlers : CommitAcceptance(h)
  <2>1. pos' = pos
    BY <1>2, AcceptWriters
  <2>2. \A b \in Batch : Exists(b)' <=> Exists(b)
    BY <1>2, ReceiptsStable
  <2>. QED
    BY <2>1, <2>2 DEF ReceiptsPartitionEvents, Accepted
<1>. QED
  BY <1>1, <1>2

\* Acceptance is all or nothing: every accepted event is in exactly one durable
\* receipt, and no receipt names an event that was not accepted.
THEOREM Partition == Spec => []ReceiptsPartitionEvents
<1>1. Init => ReceiptsPartitionEvents
  BY DEF Init, ReceiptsPartitionEvents, Exists, Absent, Accepted
<1>. QED
  BY <1>1, PartitionStep, TypeCorrect, AcceptanceFenced, PTL DEF Spec

-----------------------------------------------------------------------------
(* Only accepted events are in anyone's hands. *)

JobInv      == \A o \in Owners : phase[o] = "executing" => job[o].batch \in Batch
SnapshotInv == \A p \in Projectors : \A e \in snapshot[p] : Accepted(e)
DlqInv      == \A e \in Events : dlq[e].status # "none" => Accepted(e)
ClaimedInv  == \A r \in Retriers : retrying[r].step # "idle" => Accepted(retrying[r].event)
WorkInv     == JobInv /\ SnapshotInv /\ DlqInv /\ ClaimedInv

LEMMA JobStep ==
    ASSUME TypeOK, JobInv, [Next]_vars
    PROVE  JobInv'
<1>. USE DEF JobInv, Owners
<1>1. CASE UNCHANGED <<phase, job>>
  BY <1>1
<1>2. ASSUME NEW h \in Handlers, HandlerStep(h)
      PROVE  JobInv'
  BY <1>2 DEF HandlerStep, BeginAcceptance, CommitAcceptance, RollbackAcceptance,
              WakeReceipts, TypeOK
<1>3. ASSUME NEW o \in Owners, TickStep(o)
      PROVE  JobInv'
  <2>1. ASSUME NEW b \in Batch, Claim(o, b)
        PROVE  JobInv'
    BY <2>1 DEF Claim, TypeOK
  <2>2. CASE Heartbeat(o)
    BY <1>1, <2>2 DEF Heartbeat, tickVars
  <2>3. CASE \/ StartTick(o) \/ EndTick(o) \/ CompleteBatch(o) \/ FailBatch(o)
             \/ AbandonBatch(o) \/ CrashOwner(o)
    BY <2>3 DEF StartTick, EndTick, CompleteBatch, FailBatch, AbandonBatch, CrashOwner,
                FinishJob, TypeOK
  <2>. QED
    BY <1>3, <2>1, <2>2, <2>3 DEF TickStep
<1>4. ASSUME NEW p \in Projectors, ProjectorStep(p)
      PROVE  UNCHANGED <<phase, job>>
  BY <1>4 DEF ProjectorStep, TakeSnapshot, ProjectPage, FailPage, CrashProjector, tickVars
<1>5. ASSUME NEW r \in Retriers, RetrierStep(r)
      PROVE  UNCHANGED <<phase, job>>
  BY <1>5 DEF RetrierStep, ClaimDlq, ReprojectEvent, CloseDlq, ReleaseDlq, CrashRetrier,
              ReplayRange, ReplayFails, tickVars
<1>6. ASSUME ClockStep
      PROVE  UNCHANGED <<phase, job>>
  BY <1>6 DEF ClockStep, ExpireLease, BecomeDue, ExpireDlqLease, tickVars
<1>7. CASE UNCHANGED vars
  BY <1>1, <1>7 DEF vars, tickVars
<1>. QED
  BY <1>1, <1>2, <1>3, <1>4, <1>5, <1>6, <1>7 DEF Next

LEMMA SnapshotStep ==
    ASSUME TypeOK, AcceptInv, SnapshotInv, [Next]_vars
    PROVE  SnapshotInv'
<1>. SUFFICES ASSUME NEW p \in Projectors, NEW e \in snapshot'[p]
              PROVE  Accepted(e)'
  BY DEF SnapshotInv
<1>0. \A f \in Events : Accepted(f) => Accepted(f)'
  BY AcceptedStable
<1>1. CASE snapshot' = snapshot
  BY <1>0, <1>1 DEF SnapshotInv, TypeOK
<1>2. ASSUME NEW q \in Projectors, ProjectorStep(q)
      PROVE  Accepted(e)'
  <2>1. CASE TakeSnapshot(q)
    <3>1. e \in Events /\ (e \in snapshot[p] \/ cursor < pos[e])
      BY <2>1 DEF TakeSnapshot, TypeOK
    <3>. QED
      BY <1>0, <3>1 DEF SnapshotInv, Accepted, TypeOK
  <2>2. CASE ProjectPage(q) \/ FailPage(q) \/ CrashProjector(q)
    BY <1>0, <2>2 DEF ProjectPage, FailPage, CrashProjector, EndProjection, SnapshotInv,
                      TypeOK
  <2>. QED
    BY <1>2, <2>1, <2>2 DEF ProjectorStep
<1>3. ASSUME NEW h \in Handlers, HandlerStep(h)
      PROVE  snapshot' = snapshot
  BY <1>3 DEF HandlerStep, BeginAcceptance, CommitAcceptance, RollbackAcceptance,
              WakeReceipts, projVars
<1>4. ASSUME NEW o \in Owners, TickStep(o)
      PROVE  snapshot' = snapshot
  BY <1>4 DEF TickStep, StartTick, Claim, EndTick, Heartbeat, CompleteBatch, FailBatch,
              AbandonBatch, CrashOwner, projVars
<1>5. ASSUME NEW r \in Retriers, RetrierStep(r)
      PROVE  snapshot' = snapshot
  BY <1>5 DEF RetrierStep, ClaimDlq, ReprojectEvent, CloseDlq, ReleaseDlq, CrashRetrier,
              ReplayRange, ReplayFails, projVars
<1>6. ASSUME ClockStep
      PROVE  snapshot' = snapshot
  BY <1>6 DEF ClockStep, ExpireLease, BecomeDue, ExpireDlqLease, projVars
<1>7. CASE UNCHANGED vars
  BY <1>1, <1>7 DEF vars, projVars
<1>. QED
  BY <1>1, <1>2, <1>3, <1>4, <1>5, <1>6, <1>7 DEF Next

LEMMA DlqAcceptedStep ==
    ASSUME TypeOK, AcceptInv, RetryInv, ReceiptsPartitionEvents, JobInv, SnapshotInv,
           DlqInv, [Next]_vars
    PROVE  DlqInv'
<1>. SUFFICES ASSUME NEW e \in Events, dlq'[e].status # "none"
              PROVE  Accepted(e)'
  BY DEF DlqInv
<1>0. Accepted(e) => Accepted(e)'
  BY AcceptedStable
<1>1. CASE dlq[e].status # "none"
  BY <1>0, <1>1 DEF DlqInv
<1>2. CASE dlq[e].status = "none"
  <2>1. ASSUME NEW S, ResolveDlq(S)
        PROVE  FALSE
    BY <1>2, <2>1 DEF ResolveDlq, Closable
  <2>2. ASSUME NEW S, EnqueueDlq(S)
        PROVE  e \in S
    BY <1>2, <2>2 DEF EnqueueDlq
  <2>3. ASSUME NEW o \in Owners, FailBatch(o)
        PROVE  Accepted(e)
    <3>1. HoldsClaim(o) /\ e \in job[o].batch
      BY <2>2, <2>3 DEF FailBatch
    <3>2. job[o].batch \in Batch /\ Exists(job[o].batch)
      BY <3>1 DEF HoldsClaim, JobInv, Exists
    <3>. QED
      BY <3>1, <3>2 DEF ReceiptsPartitionEvents
  <2>4. ASSUME NEW p \in Projectors, FailPage(p)
        PROVE  Accepted(e)
    BY <2>2, <2>4 DEF FailPage, SnapshotInv
  <2>5. ASSUME NEW r \in Retriers, CloseDlq(r)
        PROVE  FALSE
    <3>1. retrying[r].event = e /\ HoldsRow(r)
      BY <1>2, <2>5 DEF CloseDlq, TypeOK
    <3>2. dlq[e].owner # Nobody
      BY <3>1, ActorAssumption DEF HoldsRow
    <3>. QED
      BY <1>2, <3>2 DEF TypeOK, DlqRow
  <2>6. ASSUME NEW r \in Retriers, ReleaseDlq(r)
        PROVE  FALSE
    BY <1>2, <2>6 DEF ReleaseDlq, Released, TypeOK, DlqRow
  <2>7. ASSUME NEW r \in Retriers, NEW f \in Events, ClaimDlq(r, f)
        PROVE  FALSE
    BY <1>2, <2>7 DEF ClaimDlq, LeasedBy, TypeOK, DlqRow
  <2>8. ASSUME NEW f \in Events, ExpireDlqLease(f)
        PROVE  FALSE
    BY <1>2, <2>8 DEF ExpireDlqLease, WithLease, TypeOK, DlqRow
  <2>9. ASSUME NEW r \in Retriers, NEW f \in Events, ReplayFails(r, f)
        PROVE  Accepted(e)
    BY <2>2, <2>9 DEF ReplayFails
  <2>. QED
    BY <1>0, <1>2, <2>1, <2>3, <2>4, <2>5, <2>6, <2>7, <2>8, <2>9, DlqWriters
       DEF CompleteBatch, ProjectPage
<1>. QED
  BY <1>1, <1>2

LEMMA ClaimedStep ==
    ASSUME TypeOK, AcceptInv, DlqInv, ClaimedInv, [Next]_vars
    PROVE  ClaimedInv'
<1>. SUFFICES ASSUME NEW r \in Retriers, retrying'[r].step # "idle"
              PROVE  Accepted(retrying[r].event)'
  BY DEF ClaimedInv
<1>0. \A f \in Events : Accepted(f) => Accepted(f)'
  BY AcceptedStable
<1>1. ASSUME retrying'[r].event = retrying[r].event, retrying[r].step # "idle"
      PROVE  Accepted(retrying[r].event)'
  <2>1. retrying[r].event \in Events
    BY <1>1 DEF TypeOK, NotRetrying
  <2>. QED
    BY <1>0, <1>1, <2>1 DEF ClaimedInv
<1>2. ASSUME NEW q \in Retriers, RetrierStep(q)
      PROVE  Accepted(retrying[r].event)'
  <2>1. ASSUME NEW e \in Events, ClaimDlq(q, e)
        PROVE  Accepted(retrying[r].event)'
    <3>1. CASE q = r
      BY <1>0, <2>1, <3>1 DEF ClaimDlq, DlqInv, TypeOK
    <3>2. CASE q # r
      BY <1>1, <2>1, <3>2 DEF ClaimDlq, TypeOK
    <3>. QED
      BY <3>1, <3>2
  <2>2. CASE ReprojectEvent(q)
    BY <1>1, <2>2 DEF ReprojectEvent, TypeOK, NotRetrying
  <2>3. CASE CloseDlq(q) \/ ReleaseDlq(q) \/ CrashRetrier(q)
    <3>1. retrying' = [retrying EXCEPT ![q] = NotRetrying]
      BY <2>3 DEF CloseDlq, ReleaseDlq, CrashRetrier
    <3>2. q # r
      BY <3>1 DEF NotRetrying, TypeOK
    <3>3. retrying'[r] = retrying[r]
      BY <3>1, <3>2 DEF TypeOK
    <3>. QED
      BY <1>1, <3>3
  <2>4. CASE \/ \E S \in SUBSET Events : ReplayRange(q, S)
             \/ \E e \in Events : ReplayFails(q, e)
    BY <1>1, <2>4 DEF ReplayRange, ReplayFails
  <2>. QED
    BY <1>2, <2>1, <2>2, <2>3, <2>4 DEF RetrierStep
<1>3. ASSUME NEW h \in Handlers, HandlerStep(h)
      PROVE  retrying' = retrying
  BY <1>3 DEF HandlerStep, BeginAcceptance, CommitAcceptance, RollbackAcceptance,
              WakeReceipts
<1>4. ASSUME NEW o \in Owners, TickStep(o)
      PROVE  retrying' = retrying
  BY <1>4 DEF TickStep, StartTick, Claim, EndTick, Heartbeat, CompleteBatch, FailBatch,
              AbandonBatch, CrashOwner
<1>5. ASSUME NEW p \in Projectors, ProjectorStep(p)
      PROVE  retrying' = retrying
  BY <1>5 DEF ProjectorStep, TakeSnapshot, ProjectPage, FailPage, CrashProjector
<1>6. ASSUME ClockStep
      PROVE  retrying' = retrying
  BY <1>6 DEF ClockStep, ExpireLease, BecomeDue, ExpireDlqLease
<1>7. CASE UNCHANGED vars
  BY <1>1, <1>7 DEF vars
<1>. QED
  BY <1>1, <1>2, <1>3, <1>4, <1>5, <1>6, <1>7 DEF Next

LEMMA WorkTyped == Spec => []WorkInv
<1>1. Init => WorkInv
  BY DEF Init, WorkInv, JobInv, SnapshotInv, DlqInv, ClaimedInv, NoRow, NotRetrying
<1>2. TypeOK /\ AcceptInv /\ RetryInv /\ ReceiptsPartitionEvents /\ WorkInv /\ [Next]_vars
        => WorkInv'
  BY JobStep, SnapshotStep, DlqAcceptedStep, ClaimedStep DEF WorkInv
<1>. QED
  BY <1>1, <1>2, TypeCorrect, AcceptanceFenced, RetriesSound, Partition, PTL DEF Spec

-----------------------------------------------------------------------------
(* Every step of the ledger is a step of the contract or changes nothing in it. *)

Stages == [b \in Batch |-> Stage(receipts[b])]

LEMMA StageOf ==
    ASSUME TypeOK, NEW b \in Batch
    PROVE  /\ ~Exists(b) => Stage(receipts[b]) = "absent"
           /\ InProgress(b) => Stage(receipts[b]) = "open"
           /\ receipts[b].status = "completed" => Stage(receipts[b]) = "completed"
           /\ receipts[b].status = "failed" => Stage(receipts[b]) = "failed"
           /\ Stage(receipts[b]) = "absent" => ~Exists(b)
<1>1. receipts[b].status \in Statuses
  BY DEF TypeOK, Row, Columns
<1>. QED
  BY <1>1 DEF Stage, Exists, InProgress, Statuses

LEMMA AcceptRefines ==
    ASSUME TypeOK, TypeOK', ReceiptsPartitionEvents', NEW h \in Handlers, CommitAcceptance(h)
    PROVE  Contract!Next
<1>. DEFINE S == {b \in NewBatches(h) : ~Exists(b)}
<1>1. S \in SUBSET Batch
  BY DEF NewBatches
<1>2. Contract!Known = {b \in Batch : Exists(b)}
  BY StageOf DEF Contract!Known, Contract!Batch, Batch, Exists, Stage
<1>3. \A b, c \in S \cup Contract!Known : b # c => b \cap c = {}
  BY <1>1, <1>2, CommitOpens DEF ReceiptsPartitionEvents
<1>4. ASSUME NEW b \in Batch
      PROVE  Stage(receipts'[b]) = IF b \in S THEN "open" ELSE Stage(receipts[b])
  BY DEF CommitAcceptance, Stage, Queued, Absent
<1>5. Stages' = [b \in Batch |-> IF b \in S THEN "open" ELSE Stages[b]]
  BY <1>4 DEF Stages
<1>6. \A b \in S : Stages[b] = "absent"
  BY <1>1, StageOf DEF Stages
<1>7. done' = done
  BY DEF CommitAcceptance
<1>8. Contract!Accept(S)
  BY <1>3, <1>5, <1>6, <1>7 DEF Contract!Accept, Contract!Move, Contract!Batch, Batch, Stages
<1>. QED
  BY <1>1, <1>8 DEF Contract!Next, Contract!Batch, Batch

LEMMA ReopenRefines ==
    ASSUME TypeOK, NEW h \in Handlers, WakeReceipts(h)
    PROVE  Contract!Next
<1>. DEFINE S == {b \in CoveredBy(h) : receipts[b].status = "failed"}
<1>1. S \in SUBSET Batch
  BY DEF CoveredBy
<1>2. ASSUME NEW b \in Batch
      PROVE  Stage(receipts'[b]) = IF b \in S THEN "open" ELSE Stage(receipts[b])
  <2>1. receipts[b] \in Row /\ h \in Owners
    BY DEF TypeOK, Owners
  <2>2. receipts'[b] = IF b \in CoveredBy(h) THEN Revived(receipts[b]) ELSE receipts[b]
    BY DEF WakeReceipts
  <2>. QED
    BY <2>1, <2>2, Outcomes DEF Stage
<1>3. Stages' = [b \in Batch |-> IF b \in S THEN "open" ELSE Stages[b]]
  BY <1>2 DEF Stages
<1>4. \A b \in S : Stages[b] = "failed"
  BY <1>1, StageOf DEF Stages
<1>5. done' = done
  BY DEF WakeReceipts
<1>6. Contract!Reopen(S)
  BY <1>3, <1>4, <1>5 DEF Contract!Reopen, Contract!Move, Contract!Batch, Batch, Stages
<1>. QED
  BY <1>1, <1>6 DEF Contract!Next, Contract!Batch, Batch

LEMMA RecoverRefines ==
    ASSUME TypeOK, NEW o \in Owners, StartTick(o)
    PROVE  Contract!Next
<1>. DEFINE S == {b \in Batch : Lapsed(receipts[b]) /\ receipts[b].attempts >= MaxAttempts}
<1>1. ASSUME NEW b \in Batch
      PROVE  Stage(receipts'[b]) = IF b \in S THEN "failed" ELSE Stage(receipts[b])
  <2>1. receipts'[b] = IF Lapsed(receipts[b]) THEN Recovered(receipts[b]) ELSE receipts[b]
    BY DEF StartTick, RecoverExpired
  <2>2. Recovered(receipts[b]).status =
          IF receipts[b].attempts >= MaxAttempts THEN "failed" ELSE "retry_scheduled"
    BY DEF Recovered, TypeOK, Row, Columns
  <2>. QED
    BY <2>1, <2>2 DEF Stage, Lapsed
<1>2. Stages' = [b \in Batch |-> IF b \in S THEN "failed" ELSE Stages[b]]
  BY <1>1 DEF Stages
<1>3. \A b \in S : Stages[b] = "open"
  BY DEF Stages, Stage, Lapsed
<1>4. done' = done
  BY DEF StartTick
<1>5. Contract!Fail(S)
  BY <1>2, <1>3, <1>4 DEF Contract!Fail, Contract!Move, Contract!Batch, Batch, Stages
<1>. QED
  BY <1>5 DEF Contract!Next, Contract!Batch, Batch

LEMMA CompleteRefines ==
    ASSUME TypeOK, JobInv, NEW o \in Owners, CompleteBatch(o)
    PROVE  Contract!Next
<1>. DEFINE c == job[o].batch
<1>1. c \in Batch /\ receipts[c].status = "running"
  BY DEF CompleteBatch, HoldsClaim, JobInv
<1>2. ASSUME NEW b \in Batch
      PROVE  Stage(receipts'[b]) = IF b \in {c} THEN "completed" ELSE Stage(receipts[b])
  <2>1. receipts'[b] = IF b = c THEN Completed(receipts[b]) ELSE receipts[b]
    BY DEF CompleteBatch, TypeOK
  <2>2. Completed(receipts[b]).status = "completed"
    BY Outcomes DEF TypeOK
  <2>. QED
    BY <2>1, <2>2 DEF Stage
<1>3. Stages' = [b \in Batch |-> IF b \in {c} THEN "completed" ELSE Stages[b]]
  BY <1>2 DEF Stages
<1>4. \A b \in {c} : Stages[b] = "open"
  BY <1>1 DEF Stages, Stage
<1>5. done' = done \cup c
  BY DEF CompleteBatch, UpsertResults
<1>6. Contract!Complete(c)
  BY <1>3, <1>4, <1>5 DEF Contract!Complete, Contract!Move, Contract!Batch, Batch, Stages
<1>. QED
  BY <1>1, <1>6 DEF Contract!Next, Contract!Batch, Batch

LEMMA FailRefines ==
    ASSUME TypeOK, JobInv, NEW o \in Owners, FailBatch(o)
    PROVE  Contract!Next
<1>. DEFINE c == job[o].batch
            S == {b \in {c} : receipts[c].attempts >= MaxAttempts}
<1>1. c \in Batch /\ receipts[c].status = "running"
  BY DEF FailBatch, HoldsClaim, JobInv
<1>2. ASSUME NEW b \in Batch
      PROVE  Stage(receipts'[b]) = IF b \in S THEN "failed" ELSE Stage(receipts[b])
  <2>1. receipts'[b] = IF b = c THEN Failed(receipts[b]) ELSE receipts[b]
    BY DEF FailBatch, TypeOK
  <2>2. Failed(receipts[b]).status =
          IF receipts[b].attempts >= MaxAttempts THEN "failed" ELSE "retry_scheduled"
    BY DEF Failed, TypeOK, Row, Columns
  <2>. QED
    BY <1>1, <2>1, <2>2 DEF Stage
<1>3. Stages' = [b \in Batch |-> IF b \in S THEN "failed" ELSE Stages[b]]
  BY <1>2 DEF Stages
<1>4. S \in SUBSET Batch /\ \A b \in S : Stages[b] = "open"
  BY <1>1 DEF Stages, Stage
<1>5. done' = done
  BY DEF FailBatch
<1>6. Contract!Fail(S)
  BY <1>3, <1>4, <1>5 DEF Contract!Fail, Contract!Move, Contract!Batch, Batch, Stages
<1>. QED
  BY <1>4, <1>6 DEF Contract!Next, Contract!Batch, Batch

LEMMA ProjectRefines ==
    ASSUME TypeOK, ReceiptsPartitionEvents, NEW E \in SUBSET Events,
           \A e \in E : Accepted(e), UpsertResults(E), receipts' = receipts
    PROVE  Contract!Next
<1>1. Contract!Known = {b \in Batch : Exists(b)}
  BY StageOf DEF Contract!Known, Contract!Batch, Batch, Exists, Stage
<1>2. E \subseteq UNION Contract!Known
  BY <1>1 DEF ReceiptsPartitionEvents
<1>3. Contract!Project(E)
  BY <1>2 DEF Contract!Project, UpsertResults, Stages
<1>. QED
  BY <1>3 DEF Contract!Next

LEMMA ContractStep ==
    ASSUME TypeOK, TypeOK', ReceiptsPartitionEvents, ReceiptsPartitionEvents', WorkInv,
           [Next]_vars
    PROVE  [Contract!Next]_Contract!contractVars
<1>. USE DEF WorkInv
<1>1. ASSUME NEW h \in Handlers, CommitAcceptance(h) \/ WakeReceipts(h)
      PROVE  Contract!Next
  BY <1>1, AcceptRefines, ReopenRefines
<1>2. ASSUME NEW o \in Owners, StartTick(o) \/ CompleteBatch(o) \/ FailBatch(o)
      PROVE  Contract!Next
  BY <1>2, RecoverRefines, CompleteRefines, FailRefines
<1>3. ASSUME NEW p \in Projectors, ProjectPage(p)
      PROVE  Contract!Next
  <2>1. snapshot[p] \in SUBSET Events /\ \A e \in snapshot[p] : Accepted(e)
    BY DEF SnapshotInv, TypeOK
  <2>. QED
    BY <1>3, <2>1, ProjectRefines DEF ProjectPage
<1>4. ASSUME NEW r \in Retriers, ReprojectEvent(r)
      PROVE  Contract!Next
  <2>1. retrying[r].event \in Events /\ Accepted(retrying[r].event)
    BY <1>4 DEF ReprojectEvent, ClaimedInv, TypeOK, NotRetrying
  <2>. QED
    BY <1>4, <2>1, ProjectRefines DEF ReprojectEvent
<1>5. ASSUME NEW r \in Retriers, NEW S \in SUBSET Events, ReplayRange(r, S)
      PROVE  Contract!Next
  BY <1>5, ProjectRefines DEF ReplayRange
<1>6. CASE /\ ~ \E h \in Handlers : CommitAcceptance(h) \/ WakeReceipts(h)
           /\ ~ \E o \in Owners : StartTick(o) \/ CompleteBatch(o) \/ FailBatch(o)
           /\ ~ \E p \in Projectors : ProjectPage(p)
           /\ ~ \E r \in Retriers : \/ ReprojectEvent(r)
                                    \/ \E S \in SUBSET Events : ReplayRange(r, S)
  <2>1. done' = done
    BY <1>6, ResultWriters
  <2>2. ASSUME NEW b \in Batch
        PROVE  Stage(receipts'[b]) = Stage(receipts[b])
    <3>1. \/ receipts' = receipts
          \/ \E o \in Owners : Heartbeat(o) \/ \E c \in Batch : Claim(o, c)
          \/ \E c \in Batch : ExpireLease(c) \/ BecomeDue(c)
      BY <1>6, ReceiptWriters
    <3>2. receipts[b] \in Row
      BY DEF TypeOK
    <3>3. ASSUME NEW o \in Owners, Heartbeat(o)
          PROVE  receipts'[b].status = receipts[b].status
      BY <3>2, <3>3, Outcomes DEF Heartbeat, TypeOK
    <3>4. ASSUME NEW o \in Owners, NEW c \in Batch, Claim(o, c)
          PROVE  Stage(receipts'[b]) = Stage(receipts[b])
      <4>1. receipts'[b] = IF b = c THEN ClaimedBy(receipts[b], o) ELSE receipts[b]
        BY <3>4 DEF Claim, TypeOK
      <4>2. b = c => receipts[b].status \in {"queued", "retry_scheduled"}
        BY <3>4 DEF Claim, Claimable
      <4>. QED
        BY <3>2, <4>1, <4>2, Outcomes DEF Stage
    <3>5. ASSUME NEW c \in Batch, ExpireLease(c) \/ BecomeDue(c)
          PROVE  receipts'[b].status = receipts[b].status
      <4>1. \/ receipts'[b] = receipts[b]
            \/ receipts'[b] = WithLease(receipts[b], "expired")
            \/ receipts'[b] = [receipts[b] EXCEPT !.due = TRUE]
        BY <3>5 DEF ExpireLease, BecomeDue, TypeOK
      <4>. QED
        BY <3>2, <4>1 DEF WithLease, Row, Columns
    <3>. QED
      BY <3>1, <3>3, <3>4, <3>5 DEF Stage
  <2>. QED
    BY <2>1, <2>2 DEF Contract!contractVars
<1>. QED
  BY <1>1, <1>2, <1>3, <1>4, <1>5, <1>6

\* The ledger, with its leases, crashes, retries and two projection paths, does
\* nothing to its receipts and results that the contract of the API forbids.
THEOREM Refinement == Spec => ImplementsContract
<1>1. Init => Contract!Init
  BY DEF Init, Contract!Init, Contract!Batch, Batch, Stage, Absent
<1>. QED
  BY <1>1, ContractStep, TypeCorrect, Partition, WorkTyped, PTL
     DEF Spec, ImplementsContract, Contract!Spec
=============================================================================
