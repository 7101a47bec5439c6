--------------------------- MODULE SoarRun_proofs ---------------------------
(***************************************************************************)
(* Theorems about SoarRun, for every set of requests and workers, every    *)
(* set of plans and every bound on attempts and interruptions; then those  *)
(* about Learning, an instance of which over LearningState follows them.   *)
(***************************************************************************)
EXTENDS SoarRun, LearningState, TLAPS

-----------------------------------------------------------------------------
(* The inductive invariant.                                                *)

\* Whoever walks the plan has seen every action before its position succeed.
Walks ==
    \A a \in Actors :
        at[a] = "insert" =>
            /\ run # "none"
            /\ \A j \in Keys : j < step[a] => status[j] = "succeeded"

\* Whoever delivers a webhook has inserted or claimed its row, and while it
\* still owns the row its attempt is the current one.
Calls ==
    \A a \in Actors :
        at[a] \in {"post", "persist"} =>
            /\ step[a] \in Keys
            /\ status[step[a]] # "absent"
            /\ try[a] <= attempt[step[a]]
            /\ owner[step[a]] = a => try[a] = attempt[step[a]]

\* An attempt about to be sent was not sent before, and nobody else is about
\* to send it.
Fresh == \A a \in Actors : at[a] = "post" => <<step[a], try[a]>> \notin posted

Distinct ==
    \A a \in Actors, b \in Actors :
        a # b /\ at[a] = "post" /\ at[b] = "post" /\ step[a] = step[b]
        => try[a] # try[b]

\* Attempts that were sent belong to a row and are counted in it.
Counted ==
    \A i \in Keys, n \in Nat :
        <<i, n>> \in posted => status[i] # "absent" /\ n <= attempt[i]

\* A caller that holds a good answer has recorded it.
Answered ==
    \A a \in Actors :
        at[a] = "persist" /\ outcome[a] = "ok" => step[a] \in accepted

Inv ==
    /\ TypeOK
    /\ OrderedExecution
    /\ Walks
    /\ Calls
    /\ Fresh
    /\ Distinct
    /\ Counted
    /\ Answered
    /\ SuccessIsReal

LEMMA EmptyPlan == << >> \in Seq(ActionTypes) /\ Len(<< >>) = 0
OBVIOUS

LEMMA PlanFacts ==
    ASSUME TypeOK
    PROVE  /\ Len(plan) \in Nat
           /\ Planned \subseteq Keys
           /\ \A i \in Planned : Type(i) \in ActionTypes
<1>1. plan \in Seq(ActionTypes) /\ Len(plan) <= PlanLimit
  <2>1. CASE plan \in Plans
    BY <2>1, PlanAssumption
  <2>2. CASE plan = << >>
    BY <2>2, PlanAssumption
  <2>. QED
    BY <2>1, <2>2 DEF TypeOK, ColumnTypes
<1>. QED
  BY <1>1, PlanAssumption DEF Planned, Keys, Type

LEMMA SummaryType == \A S : Summary(S) \in RunStatuses
BY DEF Summary, RunStatuses, OpenRuns

LEMMA OutcomeType ==
    \A o \in Outcomes, n \in Nat :
        /\ DurableOutcome(o, n) \in {"succeeded", "retry_scheduled", "failed"}
        /\ DurableOutcome(o, n) = "succeeded" <=> o = "ok"
BY DEF DurableOutcome

LEMMA StatusesType == ASSUME TypeOK PROVE Statuses \in SUBSET RowStatuses
BY DEF TypeOK, ColumnTypes, Statuses

LEMMA ExecuteInv ==
    ASSUME Inv, NEW h \in Handlers, Execute(h)
    PROVE  Inv'
<1>1. ColumnTypes'
  BY PlanAssumption
     DEF Inv, Execute, rowVars, wireVars, FromStart, Go, TypeOK, ColumnTypes,
         Actors, RunStatuses, OpenRuns, Outcomes, Places, Stages
<1>2. RowShape'
  BY DEF Inv, Execute, rowVars, wireVars, TypeOK, RowShape, Planned, Type
<1>3. OrderedExecution' /\ SuccessIsReal'
  BY PlanAssumption
     DEF Inv, Execute, rowVars, wireVars, TypeOK, RowShape, OrderedExecution,
         SuccessIsReal, Keys, Planned, Type
<1>4. Walks'
  BY DEF Inv, Execute, rowVars, wireVars, FromStart, Go, TypeOK, ColumnTypes,
         Walks, Keys
<1>5. Calls'
  BY DEF Inv, Execute, rowVars, wireVars, FromStart, Go, Calls
<1>6. Fresh' /\ Distinct'
  BY DEF Inv, Execute, rowVars, wireVars, FromStart, Go, Fresh, Distinct
<1>7. Counted'
  BY DEF Inv, Execute, rowVars, wireVars, Counted
<1>8. Answered'
  BY DEF Inv, Execute, rowVars, wireVars, FromStart, Go, Answered
<1>. QED
  BY <1>1, <1>2, <1>3, <1>4, <1>5, <1>6, <1>7, <1>8 DEF Inv, TypeOK

LEMMA InsertActionInv ==
    ASSUME Inv, NEW a \in Actors, InsertAction(a)
    PROVE  Inv'
<1>0. /\ Len(plan) \in Nat /\ Planned \subseteq Keys
      /\ \A k \in Planned : Type(k) \in ActionTypes
  BY PlanFacts DEF Inv
<1>1. ColumnTypes'
  BY <1>0, AttemptAssumption
     DEF Inv, InsertAction, rowVars, wireVars, InitialStatus, Go, TypeOK,
         ColumnTypes, RowStatuses, Places
<1>2. RowShape'
  <2>1. step[a] \in Keys /\ status[step[a]] = "absent" /\ run # "none"
    BY <1>0 DEF Inv, Walks, InsertAction
  <2>3. /\ status'[step[a]] = InitialStatus(Type(step[a]))
        /\ owner'[step[a]] # Nobody => Type(step[a]) = "webhook"
    BY <2>1 DEF Inv, TypeOK, ColumnTypes, InsertAction
  <2>. QED
    BY <2>1, <2>3
       DEF Inv, TypeOK, RowShape, InsertAction, InitialStatus, Planned, Type
<1>3. OrderedExecution' /\ SuccessIsReal'
  BY DEF Inv, InsertAction, rowVars, wireVars, InitialStatus,
         OrderedExecution, SuccessIsReal, Walks, Planned, Type
<1>4. Walks'
  BY DEF Inv, InsertAction, rowVars, wireVars, Go, Walks
<1>5. Calls'
  BY <1>0
     DEF Inv, InsertAction, rowVars, wireVars, InitialStatus, Go, TypeOK,
         ColumnTypes, Calls
<1>6. Fresh' /\ Distinct'
  <2>1. \A n \in Nat : <<step[a], n>> \notin posted
    BY <1>0 DEF Inv, Counted, InsertAction
  <2>2. \A b \in Actors : at[b] = "post" => step[b] # step[a]
    BY DEF Inv, Calls, InsertAction
  <2>3. /\ at' \in {[at EXCEPT ![a] = "post"], [at EXCEPT ![a] = "read"]}
        /\ try' = [try EXCEPT ![a] = 1]
        /\ step' = step /\ posted' = posted
    BY DEF InsertAction, Go, wireVars
  <2>4. at \in [Actors -> Places] /\ try \in [Actors -> 1..MaxAttempts]
    BY DEF Inv, TypeOK, ColumnTypes
  <2>. QED
    BY <2>1, <2>2, <2>3, <2>4 DEF Inv, Fresh, Distinct
<1>7. Counted'
  BY DEF Inv, InsertAction, rowVars, wireVars, Counted
<1>8. Answered'
  BY DEF Inv, InsertAction, rowVars, wireVars, Go, Answered
<1>. QED
  BY <1>1, <1>2, <1>3, <1>4, <1>5, <1>6, <1>7, <1>8 DEF Inv, TypeOK

LEMMA SkipActionInv ==
    ASSUME Inv, NEW a \in Actors, SkipAction(a)
    PROVE  Inv'
<1>0. /\ Len(plan) \in Nat /\ Planned \subseteq Keys
      /\ \A k \in Planned : Type(k) \in ActionTypes
  BY PlanFacts DEF Inv
<1>1. ColumnTypes'
  <2>0. step[a] \in Keys
    BY <1>0 DEF SkipAction
  <2>1. step[a] + 1 \in 1..(PlanLimit + 1)
    BY <2>0, PlanAssumption DEF Keys
  <2>. QED
    BY <2>1 DEF Inv, TypeOK, ColumnTypes, SkipAction, rowVars, wireVars
<1>2. RowShape'
  BY DEF Inv, SkipAction, rowVars, wireVars, TypeOK, RowShape, Planned, Type
<1>3. OrderedExecution' /\ SuccessIsReal'
  BY DEF Inv, SkipAction, rowVars, wireVars, OrderedExecution, SuccessIsReal,
         Planned, Type
<1>4. Walks'
  BY DEF Inv, SkipAction, rowVars, wireVars, LetsPass, TypeOK, ColumnTypes,
         Walks, Keys
<1>5. Calls'
  BY DEF Inv, SkipAction, rowVars, wireVars, Calls
<1>6. Fresh' /\ Distinct'
  BY DEF Inv, SkipAction, rowVars, wireVars, Fresh, Distinct
<1>7. Counted'
  BY DEF Inv, SkipAction, rowVars, wireVars, Counted
<1>8. Answered'
  BY DEF Inv, SkipAction, rowVars, wireVars, Answered
<1>. QED
  BY <1>1, <1>2, <1>3, <1>4, <1>5, <1>6, <1>7, <1>8 DEF Inv, TypeOK

LEMMA LeavePlanInv ==
    ASSUME Inv, NEW a \in Actors, LeavePlan(a)
    PROVE  Inv'
<1>1. ColumnTypes'
  BY DEF Inv, LeavePlan, rowVars, wireVars, callVars, Go, TypeOK, ColumnTypes,
         Places
<1>2. RowShape'
  BY DEF Inv, LeavePlan, rowVars, wireVars, TypeOK, RowShape, Planned, Type
<1>3. OrderedExecution' /\ SuccessIsReal'
  BY DEF Inv, LeavePlan, rowVars, wireVars, OrderedExecution, SuccessIsReal,
         Planned, Type
<1>4. Walks'
  BY DEF Inv, LeavePlan, rowVars, wireVars, callVars, Go, Walks
<1>5. Calls'
  BY DEF Inv, LeavePlan, rowVars, wireVars, callVars, Go, Calls
<1>6. Fresh' /\ Distinct'
  BY DEF Inv, LeavePlan, rowVars, wireVars, callVars, Go, Fresh, Distinct
<1>7. Counted'
  BY DEF Inv, LeavePlan, rowVars, wireVars, Counted
<1>8. Answered'
  BY DEF Inv, LeavePlan, rowVars, wireVars, callVars, Go, Answered
<1>. QED
  BY <1>1, <1>2, <1>3, <1>4, <1>5, <1>6, <1>7, <1>8 DEF Inv, TypeOK

LEMMA PostWebhookInv ==
    ASSUME Inv, NEW a \in Actors, PostWebhook(a)
    PROVE  Inv'
<1>1. ColumnTypes'
  <2>1. <<step[a], try[a]>> \in Keys \X (1..MaxAttempts)
    BY DEF Inv, TypeOK, ColumnTypes, Calls, PostWebhook
  <2>2. posted' \subseteq Keys \X (1..MaxAttempts) /\ accepted' \subseteq Keys
    BY <2>1 DEF Inv, TypeOK, ColumnTypes, PostWebhook
  <2>3. outcome' \in [Actors -> Outcomes] /\ at' \in [Actors -> Places]
    BY DEF Inv, TypeOK, ColumnTypes, PostWebhook, Go, Places
  <2>. QED
    BY <2>2, <2>3 DEF Inv, TypeOK, ColumnTypes, PostWebhook, rowVars
<1>2. RowShape'
  BY DEF Inv, PostWebhook, rowVars, wireVars, TypeOK, RowShape, Planned, Type
<1>3. OrderedExecution' /\ SuccessIsReal'
  BY DEF Inv, PostWebhook, rowVars, wireVars, OrderedExecution, SuccessIsReal,
         Planned, Type
<1>4. Walks'
  BY DEF Inv, PostWebhook, rowVars, wireVars, Go, Walks
<1>5. Calls'
  BY DEF Inv, PostWebhook, rowVars, wireVars, Go, Calls
<1>6. Fresh' /\ Distinct'
  BY DEF Inv, PostWebhook, rowVars, wireVars, Go, TypeOK, ColumnTypes, Fresh,
         Distinct
<1>7. Counted'
  BY DEF Inv, PostWebhook, rowVars, wireVars, Counted, Calls
<1>8. Answered'
  BY DEF Inv, PostWebhook, rowVars, wireVars, Go, TypeOK, ColumnTypes,
         Answered
<1>. QED
  BY <1>1, <1>2, <1>3, <1>4, <1>5, <1>6, <1>7, <1>8 DEF Inv, TypeOK

LEMMA PersistOutcomeInv ==
    ASSUME Inv, NEW a \in Actors, PersistOutcome(a)
    PROVE  Inv'
<1>. DEFINE i == step[a]
            s == DurableOutcome(outcome[a], try[a])
<1>1. /\ i \in Keys /\ i \in Planned
      /\ status[i] = "running" /\ Type(i) = "webhook"
      /\ at[a] = "persist"
  BY DEF Inv, TypeOK, RowShape, Calls, PersistOutcome, HoldsLease
<1>2. /\ s \in {"succeeded", "retry_scheduled", "failed"}
      /\ s = "succeeded" <=> outcome[a] = "ok"
  BY OutcomeType DEF Inv, TypeOK, ColumnTypes
<1>3. /\ status' = [status EXCEPT ![i] = s]
      /\ owner' = [owner EXCEPT ![i] = Nobody]
      /\ ripe' = [ripe EXCEPT ![i] = FALSE]
      /\ step' = [step EXCEPT ![a] = IF try[a] = 1 THEN i + 1 ELSE 1]
      /\ at' = [at EXCEPT ![a] = IF s = "succeeded" THEN "insert" ELSE "read"]
      /\ UNCHANGED <<plan, run, attempt, posted, accepted, stage, try, outcome,
                     view, crashes>>
  BY DEF PersistOutcome, Go, wireVars
<1>. HIDE DEF i, s
<1>4. i + 1 \in 1..(PlanLimit + 1) /\ 1 \in 1..(PlanLimit + 1)
  BY <1>1, PlanAssumption DEF Keys
<1>5. ColumnTypes'
  BY <1>2, <1>3, <1>4 DEF Inv, TypeOK, ColumnTypes, RowStatuses, Places
<1>6. RowShape'
  BY <1>1, <1>3 DEF Inv, TypeOK, ColumnTypes, RowShape, Planned, Type
<1>7. OrderedExecution'
  BY <1>1, <1>3 DEF Inv, OrderedExecution
<1>8. SuccessIsReal'
  <2>1. s = "succeeded" => i \in accepted
    BY <1>1, <1>2 DEF Inv, Answered, i
  <2>. QED
    BY <2>1, <1>3 DEF Inv, SuccessIsReal, Planned, Type
<1>9. Walks'
  <2>1. \A j \in Keys : j < i => status[j] = "succeeded"
    BY <1>1 DEF Inv, OrderedExecution
  <2>2. s = "succeeded" =>
           \A j \in Keys : j < step'[a] => status'[j] = "succeeded"
    BY <2>1, <1>1, <1>3 DEF Inv, TypeOK, ColumnTypes, Keys
  <2>3. run # "none"
    BY <1>1 DEF Inv, TypeOK, RowShape
  <2>4. \A j \in Keys : status[j] = "succeeded" => status'[j] = "succeeded"
    BY <1>1, <1>3
  <2>. QED
    BY <2>2, <2>3, <2>4, <1>3 DEF Inv, TypeOK, ColumnTypes, Walks
<1>10. Calls'
  BY <1>2, <1>3, ActorAssumption DEF Inv, TypeOK, ColumnTypes, Calls
<1>11. Fresh' /\ Distinct' /\ Answered'
  BY <1>3 DEF Inv, TypeOK, ColumnTypes, Fresh, Distinct, Answered
<1>12. Counted'
  BY <1>2, <1>3 DEF Inv, Counted
<1>. QED
  BY <1>5, <1>6, <1>7, <1>8, <1>9, <1>10, <1>11, <1>12 DEF Inv, TypeOK

LEMMA LoseOutcomeInv ==
    ASSUME Inv, NEW a \in Actors, LoseOutcome(a)
    PROVE  Inv'
<1>1. ColumnTypes'
  BY DEF Inv, LoseOutcome, rowVars, wireVars, callVars, Go, TypeOK,
         ColumnTypes, Places, Stages
<1>2. RowShape'
  BY DEF Inv, LoseOutcome, rowVars, wireVars, TypeOK, RowShape, Planned, Type
<1>3. OrderedExecution' /\ SuccessIsReal'
  BY DEF Inv, LoseOutcome, rowVars, wireVars, OrderedExecution, SuccessIsReal,
         Planned, Type
<1>4. Walks'
  BY DEF Inv, LoseOutcome, rowVars, wireVars, callVars, Go, TypeOK, RowShape,
         Walks, Calls, OrderedExecution
<1>5. Calls'
  BY DEF Inv, LoseOutcome, rowVars, wireVars, callVars, Go, Calls
<1>6. Fresh' /\ Distinct'
  BY DEF Inv, LoseOutcome, rowVars, wireVars, callVars, Go, TypeOK,
         ColumnTypes, Fresh, Distinct, Stages
<1>7. Counted'
  BY DEF Inv, LoseOutcome, rowVars, wireVars, Counted
<1>8. Answered'
  BY DEF Inv, LoseOutcome, rowVars, wireVars, callVars, Go, Answered
<1>. QED
  BY <1>1, <1>2, <1>3, <1>4, <1>5, <1>6, <1>7, <1>8 DEF Inv, TypeOK

LEMMA ReadStatusesInv ==
    ASSUME Inv, NEW a \in Actors, ReadStatuses(a)
    PROVE  Inv'
<1>1. ColumnTypes'
  BY StatusesType
     DEF Inv, ReadStatuses, rowVars, wireVars, Go, TypeOK, ColumnTypes, Places
<1>2. RowShape'
  BY DEF Inv, ReadStatuses, rowVars, wireVars, TypeOK, RowShape, Planned, Type
<1>3. OrderedExecution' /\ SuccessIsReal'
  BY DEF Inv, ReadStatuses, rowVars, wireVars, OrderedExecution,
         SuccessIsReal, Planned, Type
<1>4. Walks'
  BY DEF Inv, ReadStatuses, rowVars, wireVars, Go, Walks
<1>5. Calls'
  BY DEF Inv, ReadStatuses, rowVars, wireVars, Go, Calls
<1>6. Fresh' /\ Distinct'
  BY DEF Inv, ReadStatuses, rowVars, wireVars, Go, Fresh, Distinct
<1>7. Counted'
  BY DEF Inv, ReadStatuses, rowVars, wireVars, Counted
<1>8. Answered'
  BY DEF Inv, ReadStatuses, rowVars, wireVars, Go, Answered
<1>. QED
  BY <1>1, <1>2, <1>3, <1>4, <1>5, <1>6, <1>7, <1>8 DEF Inv, TypeOK

LEMMA WriteStatusInv ==
    ASSUME Inv, NEW a \in Actors, WriteStatus(a)
    PROVE  Inv'
<1>1. ColumnTypes'
  BY SummaryType
     DEF Inv, WriteStatus, rowVars, wireVars, Go, TypeOK, ColumnTypes, Places,
         Stages
<1>2. RowShape'
  BY SummaryType
     DEF Inv, WriteStatus, rowVars, wireVars, TypeOK, RowShape, Planned, Type,
         RunStatuses, OpenRuns
<1>3. OrderedExecution' /\ SuccessIsReal'
  BY DEF Inv, WriteStatus, rowVars, wireVars, OrderedExecution, SuccessIsReal,
         Planned, Type
<1>4. Walks'
  BY SummaryType
     DEF Inv, WriteStatus, rowVars, wireVars, Go, TypeOK, ColumnTypes, Walks,
         OpenRuns, RunStatuses, Stages
<1>5. Calls'
  BY DEF Inv, WriteStatus, rowVars, wireVars, Go, TypeOK, ColumnTypes, Calls,
         Stages
<1>6. Fresh' /\ Distinct'
  BY DEF Inv, WriteStatus, rowVars, wireVars, Go, TypeOK, ColumnTypes, Fresh,
         Distinct, Stages
<1>7. Counted'
  BY DEF Inv, WriteStatus, rowVars, wireVars, Counted
<1>8. Answered'
  BY DEF Inv, WriteStatus, rowVars, wireVars, Go, TypeOK, ColumnTypes,
         Answered, Stages
<1>. QED
  BY <1>1, <1>2, <1>3, <1>4, <1>5, <1>6, <1>7, <1>8 DEF Inv, TypeOK

LEMMA AcknowledgeInv ==
    ASSUME Inv, NEW h \in Handlers, NEW i \in Keys, NEW d \in {"succeeded", "failed"}, Acknowledge(h, i, d)
    PROVE  Inv'
<1>1. ColumnTypes'
  BY PlanAssumption
     DEF Inv, Acknowledge, rowVars, wireVars, Go, TypeOK, ColumnTypes, Actors,
         RowStatuses, RunStatuses, Outcomes, Places, Stages
<1>2. RowShape'
  BY DEF Inv, Acknowledge, rowVars, wireVars, Acknowledgeable, TypeOK,
         RowShape, Planned, Type
<1>3. OrderedExecution' /\ SuccessIsReal'
  BY DEF Inv, Acknowledge, rowVars, wireVars, Acknowledgeable,
         OrderedExecution, SuccessIsReal, Planned, Type
<1>4. Walks'
  BY DEF Inv, Acknowledge, rowVars, wireVars, Acknowledgeable, Go, TypeOK,
         ColumnTypes, Walks, Keys
<1>5. Calls'
  BY DEF Inv, Acknowledge, rowVars, wireVars, Go, Calls
<1>6. Fresh' /\ Distinct'
  BY AttemptAssumption
     DEF Inv, Acknowledge, rowVars, wireVars, Go, Fresh, Distinct
<1>7. Counted'
  BY DEF Inv, Acknowledge, rowVars, wireVars, Counted
<1>8. Answered'
  BY DEF Inv, Acknowledge, rowVars, wireVars, Go, Answered
<1>. QED
  BY <1>1, <1>2, <1>3, <1>4, <1>5, <1>6, <1>7, <1>8 DEF Inv, TypeOK

LEMMA RetryActionInv ==
    ASSUME Inv, NEW h \in Handlers, NEW i \in Keys, RetryAction(h, i)
    PROVE  Inv'
<1>1. ColumnTypes'
  BY DEF Inv, RetryAction, rowVars, wireVars, callVars, Go, TypeOK,
         ColumnTypes, RowStatuses, Places
<1>2. RowShape'
  BY DEF Inv, RetryAction, rowVars, wireVars, TypeOK, RowShape, Planned, Type
<1>3. OrderedExecution' /\ SuccessIsReal'
  BY DEF Inv, RetryAction, rowVars, wireVars, OrderedExecution, SuccessIsReal,
         Planned, Type
<1>4. Walks'
  BY DEF Inv, RetryAction, rowVars, wireVars, callVars, Go, Walks
<1>5. Calls'
  BY ActorAssumption
     DEF Inv, RetryAction, rowVars, wireVars, callVars, Go, Calls
<1>6. Fresh' /\ Distinct'
  BY DEF Inv, RetryAction, rowVars, wireVars, callVars, Go, TypeOK,
         ColumnTypes, Fresh, Distinct
<1>7. Counted'
  BY DEF Inv, RetryAction, rowVars, wireVars, Counted
<1>8. Answered'
  BY DEF Inv, RetryAction, rowVars, wireVars, callVars, Go, Answered
<1>. QED
  BY <1>1, <1>2, <1>3, <1>4, <1>5, <1>6, <1>7, <1>8 DEF Inv, TypeOK

LEMMA StartTickInv ==
    ASSUME Inv, NEW w \in Workers, StartTick(w)
    PROVE  Inv'
<1>0. /\ Len(plan) \in Nat /\ Planned \subseteq Keys
      /\ \A k \in Planned : Type(k) \in ActionTypes
  BY PlanFacts DEF Inv
<1>1. ColumnTypes'
  BY DEF Inv, StartTick, rowVars, wireVars, Go, TypeOK, ColumnTypes,
         RowStatuses, Places, Stages
<1>2. RowShape'
  BY DEF Inv, StartTick, rowVars, wireVars, Exhausted, TypeOK, RowShape,
         Planned, Type
<1>3. OrderedExecution' /\ SuccessIsReal'
  BY <1>0
     DEF Inv, StartTick, rowVars, wireVars, Exhausted, OrderedExecution,
         SuccessIsReal, Planned, Type
<1>4. Walks'
  BY DEF Inv, StartTick, rowVars, wireVars, Exhausted, Go, Walks
<1>5. Calls'
  BY ActorAssumption DEF Inv, StartTick, rowVars, wireVars, Go, Calls
<1>6. Fresh' /\ Distinct'
  BY DEF Inv, StartTick, rowVars, wireVars, Exhausted, Go, Fresh, Distinct
<1>7. Counted'
  BY DEF Inv, StartTick, rowVars, wireVars, Counted
<1>8. Answered'
  BY DEF Inv, StartTick, rowVars, wireVars, Go, Answered
<1>. QED
  BY <1>1, <1>2, <1>3, <1>4, <1>5, <1>6, <1>7, <1>8 DEF Inv, TypeOK

LEMMA ClaimDueInv ==
    ASSUME Inv, NEW w \in Workers, NEW i \in Keys, ClaimDue(w, i)
    PROVE  Inv'
<1>1. ColumnTypes'
  <2>1. NextAttempt(i) \in 1..MaxAttempts
    BY AttemptAssumption
       DEF Inv, TypeOK, ColumnTypes, ClaimDue, Due, NextAttempt
  <2>2. i \in 1..(PlanLimit + 1)
    BY PlanAssumption DEF Keys
  <2>3. /\ status' \in [Keys -> RowStatuses \cup {"absent"}]
        /\ attempt' \in [Keys -> 1..MaxAttempts]
        /\ owner' \in [Keys -> Actors \cup {Nobody}]
        /\ ripe' \in [Keys -> BOOLEAN]
    BY <2>1 DEF Inv, TypeOK, ColumnTypes, ClaimDue, RowStatuses, Actors
  <2>4. /\ step' \in [Actors -> 1..(PlanLimit + 1)]
        /\ try' \in [Actors -> 1..MaxAttempts]
        /\ at' \in [Actors -> Places]
    BY <2>1, <2>2 DEF Inv, TypeOK, ColumnTypes, ClaimDue, Go, Places
  <2>. QED
    BY <2>3, <2>4 DEF Inv, TypeOK, ColumnTypes, ClaimDue, wireVars
<1>2. RowShape'
  BY DEF Inv, ClaimDue, rowVars, wireVars, Due, TypeOK, ColumnTypes, RowShape,
         Planned, Type
<1>3. OrderedExecution' /\ SuccessIsReal'
  BY DEF Inv, ClaimDue, rowVars, wireVars, Due, OrderedExecution,
         SuccessIsReal, Planned, Type
<1>4. Walks'
  BY DEF Inv, ClaimDue, rowVars, wireVars, Due, Go, Walks
<1>5. Calls'
  BY DEF Inv, ClaimDue, rowVars, wireVars, NextAttempt, Go, TypeOK,
         ColumnTypes, Calls
<1>6. Fresh' /\ Distinct'
  <2>1. attempt[i] \in Nat /\ NextAttempt(i) > attempt[i]
    BY AttemptAssumption DEF Inv, TypeOK, ColumnTypes, NextAttempt
  <2>2. <<i, NextAttempt(i)>> \notin posted
    BY <2>1 DEF Inv, Counted, NextAttempt
  <2>3. \A a \in Actors :
           at[a] = "post" /\ step[a] = i => try[a] # NextAttempt(i)
    BY <2>1, AttemptAssumption DEF Inv, Calls, TypeOK, ColumnTypes
  <2>4. /\ at' = [at EXCEPT ![w] = "post"]
        /\ step' = [step EXCEPT ![w] = i]
        /\ try' = [try EXCEPT ![w] = NextAttempt(i)]
        /\ posted' = posted
    BY DEF ClaimDue, Go, wireVars
  <2>5. w \in Actors
    BY DEF Actors
  <2>6. /\ at \in [Actors -> Places] /\ step \in [Actors -> 1..(PlanLimit + 1)]
        /\ try \in [Actors -> 1..MaxAttempts]
    BY DEF Inv, TypeOK, ColumnTypes
  <2>. QED
    BY <2>2, <2>3, <2>4, <2>5, <2>6 DEF Inv, Fresh, Distinct
<1>7. Counted'
  BY DEF Inv, ClaimDue, rowVars, wireVars, NextAttempt, TypeOK, ColumnTypes,
         Counted
<1>8. Answered'
  BY DEF Inv, ClaimDue, rowVars, wireVars, Go, Answered
<1>. QED
  BY <1>1, <1>2, <1>3, <1>4, <1>5, <1>6, <1>7, <1>8 DEF Inv, TypeOK

LEMMA EndClaimsInv ==
    ASSUME Inv, NEW w \in Workers, EndClaims(w)
    PROVE  Inv'
<1>1. ColumnTypes'
  BY DEF Inv, EndClaims, rowVars, wireVars, Go, TypeOK, ColumnTypes, Places,
         Stages
<1>2. RowShape'
  BY DEF Inv, EndClaims, rowVars, wireVars, TypeOK, RowShape, Planned, Type
<1>3. OrderedExecution' /\ SuccessIsReal'
  BY DEF Inv, EndClaims, rowVars, wireVars, OrderedExecution, SuccessIsReal,
         Planned, Type
<1>4. Walks'
  BY DEF Inv, EndClaims, rowVars, wireVars, Go, Walks
<1>5. Calls'
  BY DEF Inv, EndClaims, rowVars, wireVars, Go, Calls
<1>6. Fresh' /\ Distinct'
  BY DEF Inv, EndClaims, rowVars, wireVars, Go, TypeOK, Fresh, Distinct
<1>7. Counted'
  BY DEF Inv, EndClaims, rowVars, wireVars, Counted
<1>8. Answered'
  BY DEF Inv, EndClaims, rowVars, wireVars, Go, Answered
<1>. QED
  BY <1>1, <1>2, <1>3, <1>4, <1>5, <1>6, <1>7, <1>8 DEF Inv, TypeOK

LEMMA ContinuePlanInv ==
    ASSUME Inv, NEW w \in Workers, ContinuePlan(w)
    PROVE  Inv'
<1>1. ColumnTypes'
  BY PlanAssumption
     DEF Inv, ContinuePlan, rowVars, wireVars, FromStart, Go, TypeOK,
         ColumnTypes, Actors, RowStatuses, Places, Stages
<1>2. RowShape'
  BY DEF Inv, ContinuePlan, rowVars, wireVars, TypeOK, RowShape, Planned, Type
<1>3. OrderedExecution' /\ SuccessIsReal'
  BY DEF Inv, ContinuePlan, rowVars, wireVars, OrderedExecution,
         SuccessIsReal, Planned, Type
<1>4. Walks'
  BY DEF Inv, ContinuePlan, rowVars, wireVars, FromStart, Go, BatonDropped,
         TypeOK, ColumnTypes, Walks, Keys, OpenRuns
<1>5. Calls'
  BY DEF Inv, ContinuePlan, rowVars, wireVars, FromStart, Go, Calls
<1>6. Fresh' /\ Distinct'
  BY DEF Inv, ContinuePlan, rowVars, wireVars, FromStart, Go, Fresh, Distinct
<1>7. Counted'
  BY DEF Inv, ContinuePlan, rowVars, wireVars, Counted
<1>8. Answered'
  BY DEF Inv, ContinuePlan, rowVars, wireVars, FromStart, Go, Answered
<1>. QED
  BY <1>1, <1>2, <1>3, <1>4, <1>5, <1>6, <1>7, <1>8 DEF Inv, TypeOK

LEMMA EndTickInv ==
    ASSUME Inv, NEW w \in Workers, EndTick(w)
    PROVE  Inv'
<1>1. ColumnTypes'
  BY DEF Inv, EndTick, rowVars, wireVars, Go, TypeOK, ColumnTypes, Places,
         Stages
<1>2. RowShape'
  BY DEF Inv, EndTick, rowVars, wireVars, TypeOK, RowShape, Planned, Type
<1>3. OrderedExecution' /\ SuccessIsReal'
  BY DEF Inv, EndTick, rowVars, wireVars, OrderedExecution, SuccessIsReal,
         Planned, Type
<1>4. Walks'
  BY DEF Inv, EndTick, rowVars, wireVars, Go, Walks
<1>5. Calls'
  BY DEF Inv, EndTick, rowVars, wireVars, Go, Calls
<1>6. Fresh' /\ Distinct'
  BY DEF Inv, EndTick, rowVars, wireVars, Go, TypeOK, ColumnTypes, Fresh,
         Distinct
<1>7. Counted'
  BY DEF Inv, EndTick, rowVars, wireVars, Counted
<1>8. Answered'
  BY DEF Inv, EndTick, rowVars, wireVars, Go, Answered
<1>. QED
  BY <1>1, <1>2, <1>3, <1>4, <1>5, <1>6, <1>7, <1>8 DEF Inv, TypeOK

LEMMA InterruptInv ==
    ASSUME Inv, NEW a \in Actors, Interrupt(a)
    PROVE  Inv'
<1>1. ColumnTypes'
  <2>1. /\ at' \in [Actors -> Places] /\ stage' \in [Actors -> Stages]
        /\ view' \in [Actors -> SUBSET RowStatuses]
    BY DEF Inv, Interrupt, Go, TypeOK, ColumnTypes, Places, Stages
  <2>2. crashes' \in 0..MaxCrashes
    BY AttemptAssumption DEF Inv, Interrupt, TypeOK, ColumnTypes
  <2>. QED
    BY <2>1, <2>2 DEF Inv, Interrupt, rowVars, wireVars, TypeOK, ColumnTypes
<1>2. RowShape'
  BY DEF Inv, Interrupt, rowVars, wireVars, TypeOK, RowShape, Planned, Type
<1>3. OrderedExecution' /\ SuccessIsReal'
  BY DEF Inv, Interrupt, rowVars, wireVars, OrderedExecution, SuccessIsReal,
         Planned, Type
<1>4. Walks'
  BY DEF Inv, Interrupt, rowVars, wireVars, Go, Walks
<1>5. Calls'
  BY DEF Inv, Interrupt, rowVars, wireVars, Go, Calls
<1>6. Fresh' /\ Distinct'
  <2>1. /\ \A b \in Actors : at'[b] = "post" => at[b] = "post"
        /\ UNCHANGED <<step, try, posted>>
    BY DEF Inv, TypeOK, ColumnTypes, Interrupt, Go, wireVars
  <2>. QED
    BY <2>1 DEF Inv, Fresh, Distinct
<1>7. Counted'
  BY DEF Inv, Interrupt, rowVars, wireVars, Counted
<1>8. Answered'
  BY DEF Inv, Interrupt, rowVars, wireVars, Go, Answered
<1>. QED
  BY <1>1, <1>2, <1>3, <1>4, <1>5, <1>6, <1>7, <1>8 DEF Inv, TypeOK

LEMMA RipenInv ==
    ASSUME Inv, NEW i \in Keys, Ripen(i)
    PROVE  Inv'
<1>1. ColumnTypes'
  BY DEF Inv, Ripen, rowVars, wireVars, callVars, TypeOK, ColumnTypes
<1>2. RowShape'
  BY DEF Inv, Ripen, rowVars, wireVars, TypeOK, RowShape, Planned, Type
<1>3. OrderedExecution' /\ SuccessIsReal'
  BY DEF Inv, Ripen, rowVars, wireVars, OrderedExecution, SuccessIsReal,
         Planned, Type
<1>4. Walks'
  BY DEF Inv, Ripen, rowVars, wireVars, callVars, Walks
<1>5. Calls'
  BY DEF Inv, Ripen, rowVars, wireVars, callVars, Calls
<1>6. Fresh' /\ Distinct'
  BY DEF Inv, Ripen, rowVars, wireVars, callVars, Fresh, Distinct
<1>7. Counted'
  BY DEF Inv, Ripen, rowVars, wireVars, Counted
<1>8. Answered'
  BY DEF Inv, Ripen, rowVars, wireVars, callVars, Answered
<1>. QED
  BY <1>1, <1>2, <1>3, <1>4, <1>5, <1>6, <1>7, <1>8 DEF Inv, TypeOK

-----------------------------------------------------------------------------
(* The invariant holds, and with it the safety properties.                 *)

LEMMA InitInv == Init => Inv
<1>. SUFFICES ASSUME Init PROVE Inv
  OBVIOUS
<1>1. ColumnTypes
  BY AttemptAssumption, ActorAssumption, PlanAssumption
     DEF Init, ColumnTypes, Keys, Places, Stages, Outcomes
<1>2. RowShape /\ OrderedExecution /\ Walks /\ Calls /\ Fresh /\ Distinct
      /\ Counted /\ Answered
  BY DEF Init, RowShape, OrderedExecution, Walks, Calls, Fresh, Distinct,
         Counted, Answered
<1>3. SuccessIsReal
  <2>1. Planned = {}
    BY EmptyPlan DEF Init, Planned
  <2>. QED
    BY <2>1 DEF SuccessIsReal
<1>. QED
  BY <1>1, <1>2, <1>3 DEF Inv, TypeOK

LEMMA PlanStepInv ==
    ASSUME Inv, NEW a \in Actors, PlanStep(a)
    PROVE  Inv'
BY InsertActionInv, SkipActionInv, LeavePlanInv, PostWebhookInv,
   PersistOutcomeInv, LoseOutcomeInv, ReadStatusesInv, WriteStatusInv
   DEF PlanStep

LEMMA RequestStepInv ==
    ASSUME Inv, NEW h \in Handlers, RequestStep(h)
    PROVE  Inv'
BY ExecuteInv, RetryActionInv, AcknowledgeInv DEF RequestStep

LEMMA TickStepInv ==
    ASSUME Inv, NEW w \in Workers, TickStep(w)
    PROVE  Inv'
BY StartTickInv, ClaimDueInv, EndClaimsInv, ContinuePlanInv, EndTickInv
   DEF TickStep

LEMMA StutterInv ==
    ASSUME Inv, UNCHANGED vars
    PROVE  Inv'
BY DEF vars, Inv, TypeOK, ColumnTypes, RowShape, OrderedExecution, Walks,
       Calls, Fresh, Distinct, Counted, Answered, SuccessIsReal, Planned, Type

LEMMA StepInv == Inv /\ [Next]_vars => Inv'
<1>. SUFFICES ASSUME Inv, [Next]_vars PROVE Inv'
  OBVIOUS
<1>1. CASE Next
  BY <1>1, PlanStepInv, RequestStepInv, TickStepInv, InterruptInv, RipenInv
     DEF Next
<1>2. CASE UNCHANGED vars
  BY <1>2, StutterInv
<1>. QED
  BY <1>1, <1>2

\* The inductive invariant holds in every reachable state.
THEOREM Invariance == Spec => []Inv
BY InitInv, StepInv, PTL DEF Spec

\* The rows and the memory of every actor keep their types, attempts stay
\* within the limit and only running webhooks are leased.
THEOREM RowsTyped == Spec => []TypeOK
<1>1. Inv => TypeOK
  BY DEF Inv
<1>. QED
  BY <1>1, Invariance, PTL

\* Whoever walks the plan, and however often it is resumed, no action of it is
\* started before all actions in front of it have succeeded.
THEOREM Ordered == Spec => []OrderedExecution
<1>1. Inv => OrderedExecution
  BY DEF Inv
<1>. QED
  BY <1>1, Invariance, PTL

\* _persist_webhook_outcome records a success only for a receiver that answered
\* with a 2xx.
THEOREM RealSuccess == Spec => []SuccessIsReal
<1>1. Inv => SuccessIsReal
  BY DEF Inv
<1>. QED
  BY <1>1, Invariance, PTL

\* An attempt number is posted at most once: claims count up, and nobody posts
\* for a row it neither inserted nor claimed.
THEOREM PostedOnce == Spec => EachAttemptPostedOnce
<1>1. Inv => \A a \in Actors :
         at[a] = "post" /\ at'[a] = "persist" => <<step[a], try[a]>> \notin posted
  BY DEF Inv, Fresh
<1>. QED
  BY <1>1, Invariance, PTL DEF EachAttemptPostedOnce

-----------------------------------------------------------------------------
(* Who changes the status of an action, and how.                           *)

\* One row moves, from a status and to a status that its handler allows.
Moves(i, from, to) ==
    /\ status[i] \in from
    /\ \E s \in to : status' = [status EXCEPT ![i] = s]

LEMMA StatusWriters ==
    ASSUME Inv, Next
    PROVE  \/ status' = status
           \/ \E a \in Actors : InsertAction(a) \/ PersistOutcome(a)
           \/ \E h \in Handlers, i \in Keys :
                 \/ RetryAction(h, i)
                 \/ \E d \in {"succeeded", "failed"} : Acknowledge(h, i, d)
           \/ \E w \in Workers : StartTick(w) \/ \E i \in Keys : ClaimDue(w, i)
BY DEF Next, PlanStep, RequestStep, TickStep, Execute, SkipAction, LeavePlan,
       PostWebhook, LoseOutcome, ReadStatuses, WriteStatus, EndClaims,
       ContinuePlan, EndTick, Interrupt, Ripen, rowVars

\* Only the caller of the current attempt, or the finalizer after the last lease
\* ran out, takes a webhook out of "running".
THEOREM LeaseFenced == Spec => OnlyLeaseHolderDecides
<1>. DEFINE Decides(i) ==
        \/ \E a \in Actors : /\ at[a] = "persist" /\ step[a] = i
                             /\ owner[i] = a /\ try[a] = attempt[i]
        \/ ripe[i] /\ attempt[i] = MaxAttempts /\ status'[i] = "failed"
<1>1. ASSUME Inv, Next, NEW i \in Keys, status[i] = "running", status'[i] # "running"
      PROVE  Decides(i)
  <2>1. ASSUME NEW a \in Actors, InsertAction(a)
        PROVE  FALSE
    BY <1>1, <2>1 DEF InsertAction, Inv, TypeOK, ColumnTypes
  <2>2. ASSUME NEW a \in Actors, PersistOutcome(a)
        PROVE  Decides(i)
    <3>1. step[a] \in Keys /\ (owner[step[a]] = a => try[a] = attempt[step[a]])
      BY <1>1, <2>2 DEF Inv, Calls, PersistOutcome
    <3>2. step[a] = i
      BY <1>1, <2>2, <3>1 DEF PersistOutcome, Inv, TypeOK, ColumnTypes
    <3>. QED
      BY <2>2, <3>1, <3>2 DEF PersistOutcome, HoldsLease
  <2>3. ASSUME NEW h \in Handlers, NEW k \in Keys, RetryAction(h, k)
        PROVE  FALSE
    BY <1>1, <2>3 DEF RetryAction, Inv, TypeOK, ColumnTypes
  <2>4. ASSUME NEW h \in Handlers, NEW k \in Keys, NEW d \in {"succeeded", "failed"},
               Acknowledge(h, k, d)
        PROVE  FALSE
    BY <1>1, <2>4 DEF Acknowledge, Acknowledgeable, Inv, TypeOK, ColumnTypes
  <2>5. ASSUME NEW w \in Workers, StartTick(w)
        PROVE  Decides(i)
    <3>1. i \in Exhausted /\ status'[i] = "failed"
      BY <1>1, <2>5 DEF StartTick
    <3>2. attempt[i] \in 1..MaxAttempts
      BY <1>1 DEF Inv, TypeOK, ColumnTypes
    <3>. QED
      BY <3>1, <3>2, AttemptAssumption DEF Exhausted
  <2>6. ASSUME NEW w \in Workers, NEW k \in Keys, ClaimDue(w, k)
        PROVE  FALSE
    BY <1>1, <2>6 DEF ClaimDue, Inv, TypeOK, ColumnTypes
  <2>. QED
    BY <1>1, <2>1, <2>2, <2>3, <2>4, <2>5, <2>6, StatusWriters
<1>2. Inv /\ [Next]_vars => [\A i \in Keys :
          status[i] = "running" /\ status'[i] # "running" => Decides(i)]_vars
  BY <1>1
<1>. QED
  BY <1>2, Invariance, PTL DEF OnlyLeaseHolderDecides, Spec

\* The last attempts that lost their lease are at most one: the plan runs one
\* action at a time.
LEMMA OneExhausted ==
    ASSUME Inv
    PROVE  Exhausted = {} \/ \E i \in Keys : Exhausted = {i}
<1>1. ASSUME NEW i \in Exhausted, NEW j \in Exhausted
      PROVE  i = j
  <2>1. i \in Keys /\ j \in Keys /\ i \in Nat /\ j \in Nat
    BY PlanFacts DEF Inv, Exhausted, Keys
  <2>2. status[i] = "running" /\ status[j] = "running"
    BY DEF Exhausted
  <2>. QED
    BY <2>1, <2>2 DEF Inv, OrderedExecution
<1>. QED
  BY <1>1, PlanFacts DEF Inv, Exhausted

\* Every step that changes a status moves one row, along one of the four arcs
\* of the contract or within an open action.
Started == {"running", "awaiting_ack", "unsupported"}
Waiting == {"running", "retry_scheduled"}

LEMMA StatusMoves ==
    ASSUME Inv, Next
    PROVE  \/ status' = status
           \/ \E i \in Keys :
                 \/ /\ Moves(i, {"absent"}, Started)
                    /\ \A j \in Keys : j < i => status[j] = "succeeded"
                 \/ Moves(i, {"running"}, {"succeeded", "retry_scheduled", "failed"})
                 \/ Moves(i, Waiting, Waiting)
                 \/ Moves(i, {"failed"}, {"retry_scheduled"}) /\ Type(i) = "webhook"
                 \/ Moves(i, {"awaiting_ack"}, {"succeeded", "failed"})
<1>. DEFINE Arc(i) ==
        \/ /\ Moves(i, {"absent"}, Started)
           /\ \A j \in Keys : j < i => status[j] = "succeeded"
        \/ Moves(i, {"running"}, {"succeeded", "retry_scheduled", "failed"})
        \/ Moves(i, Waiting, Waiting)
        \/ Moves(i, {"failed"}, {"retry_scheduled"}) /\ Type(i) = "webhook"
        \/ Moves(i, {"awaiting_ack"}, {"succeeded", "failed"})
<1>0. status \in [Keys -> RowStatuses \cup {"absent"}]
  BY DEF Inv, TypeOK, ColumnTypes
<1>1. ASSUME NEW a \in Actors, InsertAction(a)
      PROVE  \E i \in Keys : Arc(i)
  <2>1. step[a] \in Keys
    BY <1>1, PlanFacts DEF InsertAction, Inv
  <2>2. \A j \in Keys : j < step[a] => status[j] = "succeeded"
    BY <1>1 DEF InsertAction, Inv, Walks
  <2>3. InitialStatus(Type(step[a])) \in Started
    BY DEF InitialStatus, Started
  <2>4. Moves(step[a], {"absent"}, Started)
    BY <1>1, <2>3 DEF InsertAction, Moves
  <2>. QED
    BY <2>1, <2>2, <2>4
<1>2. ASSUME NEW a \in Actors, PersistOutcome(a)
      PROVE  \E i \in Keys : Arc(i)
  <2>1. step[a] \in Keys
    BY <1>2 DEF PersistOutcome, Inv, Calls
  <2>2. DurableOutcome(outcome[a], try[a]) \in {"succeeded", "retry_scheduled", "failed"}
    BY DEF DurableOutcome
  <2>3. Moves(step[a], {"running"}, {"succeeded", "retry_scheduled", "failed"})
    BY <1>2, <2>2 DEF PersistOutcome, HoldsLease, Moves
  <2>. QED
    BY <2>1, <2>3
<1>3. ASSUME NEW h \in Handlers, NEW i \in Keys, RetryAction(h, i)
      PROVE  Arc(i)
  BY <1>3 DEF RetryAction, Moves, Waiting
<1>4. ASSUME NEW h \in Handlers, NEW i \in Keys, NEW d \in {"succeeded", "failed"},
             Acknowledge(h, i, d)
      PROVE  status' = status \/ Arc(i)
  <2>1. CASE status[i] = "awaiting_ack"
    BY <1>4, <2>1 DEF Acknowledge, Moves
  <2>2. CASE status[i] = d
    BY <1>0, <1>4, <2>2 DEF Acknowledge
  <2>. QED
    BY <1>4, <2>1, <2>2 DEF Acknowledge, Acknowledgeable
<1>5. ASSUME NEW w \in Workers, StartTick(w)
      PROVE  status' = status \/ \E i \in Keys : Arc(i)
  <2>1. CASE Exhausted = {}
    BY <1>0, <1>5, <2>1 DEF StartTick
  <2>2. ASSUME NEW i \in Keys, Exhausted = {i}
        PROVE  Moves(i, {"running"}, {"succeeded", "retry_scheduled", "failed"})
    <3>1. status[i] = "running"
      BY <2>2 DEF Exhausted
    <3>2. status' = [status EXCEPT ![i] = "failed"]
      BY <1>0, <1>5, <2>2 DEF StartTick
    <3>. QED
      BY <3>1, <3>2 DEF Moves
  <2>. QED
    BY <2>1, <2>2, OneExhausted
<1>6. ASSUME NEW w \in Workers, NEW i \in Keys, ClaimDue(w, i)
      PROVE  Arc(i)
  BY <1>6 DEF ClaimDue, Due, Moves, Waiting
<1>. QED
  BY <1>1, <1>2, <1>3, <1>4, <1>5, <1>6, StatusWriters

\* No request, worker or replay ever changes a success, or the decision of an
\* acknowledgement.
THEOREM FinalDecisions == Spec => DecisionsFinal
<1>1. ASSUME Inv, Next, NEW i \in Keys,
             status[i] = "succeeded" \/ (status[i] = "failed" /\ Type(i) = "control")
      PROVE  status'[i] = status[i]
  <2>1. status \in [Keys -> RowStatuses \cup {"absent"}]
    BY <1>1 DEF Inv, TypeOK, ColumnTypes
  <2>2. status[i] \notin {"absent", "running", "retry_scheduled", "awaiting_ack"}
    BY <1>1
  <2>. QED
    BY <1>1, <2>1, <2>2, StatusMoves DEF Moves, Waiting
<1>2. Inv /\ [Next]_vars => [\A i \in Keys :
          (status[i] = "succeeded" \/ (status[i] = "failed" /\ Type(i) = "control"))
          => status'[i] = status[i]]_vars
  BY <1>1
<1>. QED
  BY <1>2, Invariance, PTL DEF DecisionsFinal, Spec

-----------------------------------------------------------------------------
(* The run implements PlanContract.                                        *)

Mapped == [i \in Keys |-> ActionState(status[i])]

LEMMA ActionStates ==
    /\ ActionState("absent") = "closed"
    /\ \A s \in {"running", "retry_scheduled", "awaiting_ack"} : ActionState(s) = "open"
    /\ ActionState("succeeded") = "done"
    /\ \A s \in {"failed", "unsupported"} : ActionState(s) = "failed"
BY DEF ActionState

LEMMA MovesMap ==
    ASSUME Inv, NEW i \in Keys, NEW from, NEW to, Moves(i, from, to)
    PROVE  /\ status[i] \in from
           /\ \E s \in to : Mapped' = [Mapped EXCEPT ![i] = ActionState(s)]
<1>1. PICK s \in to : status' = [status EXCEPT ![i] = s]
  BY DEF Moves
<1>2. \A k \in Keys : status'[k] = IF k = i THEN s ELSE status[k]
  BY <1>1 DEF Inv, TypeOK, ColumnTypes
<1>4. Mapped' = [Mapped EXCEPT ![i] = ActionState(s)]
  BY <1>2 DEF Mapped
<1>. QED
  BY <1>4 DEF Moves

LEMMA PlanContractStep ==
    ASSUME Inv, Next
    PROVE  Contract!Next \/ Mapped' = Mapped
<1>. DEFINE Becomes(i, s) == Mapped' = [Mapped EXCEPT ![i] = s]
<1>0. /\ Keys = Contract!Slots
      /\ \A i \in Keys : Mapped[i] = ActionState(status[i])
      /\ Mapped \in [Keys -> {ActionState(status[i]) : i \in Keys}]
  BY DEF Contract!Slots, Keys, Mapped
<1>1. ASSUME status' = status
      PROVE  Mapped' = Mapped
  BY <1>1 DEF Mapped, ActionState
<1>2. ASSUME NEW i \in Keys, Moves(i, {"absent"}, Started),
             \A j \in Keys : j < i => status[j] = "succeeded"
      PROVE  Contract!Open(i)
  <2>1. Mapped[i] = "closed"
    BY <1>0, <1>2, ActionStates DEF Moves
  <2>2. \A j \in 1..(i - 1) : Mapped[j] = "done"
    <3>1. \A j \in 1..(i - 1) : j \in Keys /\ j < i
      BY PlanAssumption DEF Keys
    <3>. QED
      BY <1>0, <1>2, <3>1, ActionStates
  <2>3. Becomes(i, "open") \/ Becomes(i, "failed")
    BY <1>2, MovesMap, ActionStates DEF Started
  <2>. QED
    BY <2>1, <2>2, <2>3 DEF Contract!Open, Contract!Becomes, Mapped
<1>3. ASSUME NEW i \in Keys,
             Moves(i, {"running"}, {"succeeded", "retry_scheduled", "failed"})
      PROVE  Contract!Finish(i) \/ Contract!Fail(i) \/ Mapped' = Mapped
  <2>1. Mapped[i] = "open"
    BY <1>0, <1>3, ActionStates DEF Moves
  <2>2. Becomes(i, "done") \/ Becomes(i, "open") \/ Becomes(i, "failed")
    BY <1>3, MovesMap, ActionStates
  <2>3. Becomes(i, "open") => Mapped' = Mapped
    BY <1>0, <2>1
  <2>. QED
    BY <2>1, <2>2, <2>3
       DEF Contract!Finish, Contract!Fail, Contract!Becomes, Mapped
<1>4. ASSUME NEW i \in Keys, Moves(i, Waiting, Waiting)
      PROVE  Mapped' = Mapped
  <2>1. Mapped[i] = "open"
    BY <1>0, <1>4, ActionStates DEF Moves, Waiting
  <2>2. Becomes(i, "open")
    BY <1>4, MovesMap, ActionStates DEF Waiting
  <2>. QED
    BY <1>0, <2>1, <2>2
<1>5. ASSUME NEW i \in Keys, Moves(i, {"failed"}, {"retry_scheduled"})
      PROVE  Contract!Reopen(i)
  <2>1. Mapped[i] = "failed"
    BY <1>0, <1>5, ActionStates DEF Moves
  <2>2. Becomes(i, "open")
    BY <1>5, MovesMap, ActionStates
  <2>. QED
    BY <2>1, <2>2 DEF Contract!Reopen, Contract!Becomes, Mapped
<1>6. ASSUME NEW i \in Keys, Moves(i, {"awaiting_ack"}, {"succeeded", "failed"})
      PROVE  Contract!Finish(i) \/ Contract!Fail(i)
  <2>1. Mapped[i] = "open"
    BY <1>0, <1>6, ActionStates DEF Moves
  <2>2. Becomes(i, "done") \/ Becomes(i, "failed")
    BY <1>6, MovesMap, ActionStates
  <2>. QED
    BY <2>1, <2>2 DEF Contract!Finish, Contract!Fail, Contract!Becomes, Mapped
<1>7. \A i \in Keys : Contract!Open(i) \/ Contract!Finish(i) \/ Contract!Fail(i)
                      \/ Contract!Reopen(i) => Contract!Next
  BY <1>0 DEF Contract!Next
<1>. QED
  BY <1>1, <1>2, <1>3, <1>4, <1>5, <1>6, <1>7, StatusMoves

\* The rows of a run go through the states of PlanContract and no others.
THEOREM PlanRefinement == Spec => ImplementsPlan
<1>1. Init => Contract!Init
  BY DEF Init, Contract!Init, Contract!Slots, Keys, ActionState
<1>2. Inv /\ [Next]_vars => [Contract!Next]_Mapped
  <2>1. UNCHANGED vars => UNCHANGED Mapped
    BY DEF vars, Mapped, ActionState
  <2>. QED
    BY <2>1, PlanContractStep
<1>3. Inv /\ [Next]_vars => [Contract!Next]_[i \in Keys |-> ActionState(status[i])]
  BY <1>2 DEF Mapped
<1>. QED
  BY <1>1, <1>3, Invariance, PTL DEF Spec, ImplementsPlan, Contract!Spec

-----------------------------------------------------------------------------
(* What is learned from stored results: the theorems about Learning, for   *)
(* every set of machines, tenants and deployments and every bound on       *)
(* faults.                                                                 *)
Learn == INSTANCE Learning

\* The number of results in an hour, or none that is one.
LEMMA Bounds ==
    ASSUME Learn!LearningAssumption
    PROVE  MaxRows \in Nat /\ Learn!Missing = MaxRows + 1
BY DEF Learn!LearningAssumption, Learn!Missing

-----------------------------------------------------------------------------
(* Which steps may change what.                                            *)

\* The rows and buckets of the two hours.
LEMMA HoursWriters ==
    ASSUME Learn!Next
    PROVE  \/ UNCHANGED <<rows, late, bucket, past, settled>>
           \/ \E m \in Machines : Learn!Write(m)
           \/ Learn!WriteForRequest \/ Learn!HourTurns
           \/ \E t \in Learn!Healthy :
                 Learn!RowArrives(t) \/ Learn!LateRowCommits(t) \/ Learn!PastAges(t)
BY DEF Learn!Next, Learn!StartTick, Learn!TickStep, Learn!NextTenant, Learn!EndTick,
       Learn!RollupStep, Learn!Count, Learn!Refresh, Learn!TrainingStep, Learn!Train,
       Learn!File, Learn!Series, Learn!Save, Learn!Replace, Learn!Score, Learn!Publish,
       Learn!Upload, Learn!StepFails, Learn!LoseLease, Learn!Crash, Learn!ServeRequest,
       Learn!CountForRequest, Learn!ReplaceForRequest, Learn!FileForRequest,
       Learn!ReadSignal, Learn!ReadWindow, Learn!ReadFallback, Learn!OverviewFails,
       Learn!Shown, Learn!Ask, Learn!AskAggregate, Learn!AskClassical,
       Learn!AskOverview, Learn!AskFit, Learn!AskScore, Learn!AskTrain, Learn!Time,
       Learn!HistoryGrows, Learn!ClassicalAges, Learn!TemporalAges, Learn!NoteAges,
       Learn!hours

\* The models' files and their published copies.
LEMMA FilesWriters ==
    ASSUME Learn!Next
    PROVE  \/ UNCHANGED <<disk, hub>>
           \/ \E m \in Machines : \/ Learn!Train(m) \/ Learn!File(m) \/ Learn!Save(m)
                                  \/ Learn!Replace(m) \/ Learn!Upload(m)
           \/ \E m \in Machines, t \in Learn!Healthy :
                 \/ Learn!AskFit(m, t)
                 \/ \E family \in Learn!Families \ {"temporal"} : Learn!AskTrain(m, t, family)
           \/ Learn!ReplaceForRequest \/ Learn!FileForRequest
BY DEF Learn!Next, Learn!StartTick, Learn!TickStep, Learn!NextTenant, Learn!EndTick,
       Learn!RollupStep, Learn!Count, Learn!Write, Learn!Refresh, Learn!TrainingStep,
       Learn!Series, Learn!Score, Learn!Publish,
       Learn!StepFails, Learn!LoseLease, Learn!Crash, Learn!ServeRequest,
       Learn!CountForRequest, Learn!WriteForRequest, Learn!ReadSignal, Learn!ReadWindow,
       Learn!ReadFallback, Learn!OverviewFails, Learn!Shown, Learn!Ask, Learn!AskAggregate,
       Learn!AskClassical, Learn!AskOverview, Learn!AskScore, Learn!Time, Learn!HourTurns,
       Learn!RowArrives, Learn!LateRowCommits, Learn!PastAges, Learn!HistoryGrows,
       Learn!ClassicalAges, Learn!TemporalAges, Learn!NoteAges, Learn!models

\* Scores, notes and forecasts.
LEMMA ScoresWriters ==
    ASSUME Learn!Next
    PROVE  \/ UNCHANGED <<enough, classical, temporal, noted, predicted>>
           \/ \E m \in Machines : \/ Learn!Refresh(m) \/ Learn!File(m) \/ Learn!Series(m)
                                  \/ Learn!Score(m)
           \/ \E m \in Machines, t \in Learn!Healthy : Learn!AskScore(m, t)
           \/ Learn!FileForRequest
           \/ \E t \in Learn!Healthy :
                 \/ Learn!AskClassical(t) \/ Learn!HistoryGrows(t)
                 \/ Learn!ClassicalAges(t) \/ Learn!TemporalAges(t) \/ Learn!NoteAges(t)
BY DEF Learn!Next, Learn!StartTick, Learn!TickStep, Learn!NextTenant, Learn!EndTick,
       Learn!RollupStep, Learn!Count, Learn!Write, Learn!TrainingStep,
       Learn!Train, Learn!Save, Learn!Replace, Learn!Publish, Learn!Upload,
       Learn!StepFails, Learn!LoseLease, Learn!Crash, Learn!ServeRequest,
       Learn!CountForRequest, Learn!WriteForRequest, Learn!ReplaceForRequest,
       Learn!ReadSignal, Learn!ReadWindow, Learn!ReadFallback, Learn!OverviewFails,
       Learn!Shown, Learn!Ask, Learn!AskAggregate, Learn!AskOverview, Learn!AskFit,
       Learn!AskTrain, Learn!Time, Learn!HourTurns, Learn!RowArrives,
       Learn!LateRowCommits, Learn!PastAges, Learn!models

\* What workers do.
LEMMA TickWriters ==
    ASSUME Learn!Next
    PROVE  \/ UNCHANGED tick
           \/ Learn!HourTurns
           \/ \E m \in Machines :
                 \/ \E worker \in Learn!Workers : Learn!StartTick(m, worker)
                 \/ Learn!TickStep(m) \/ Learn!StepFails(m) \/ Learn!Crash(m)
BY DEF Learn!Next, Learn!LoseLease, Learn!ServeRequest,
       Learn!CountForRequest, Learn!WriteForRequest, Learn!ReplaceForRequest,
       Learn!FileForRequest, Learn!ReadSignal, Learn!ReadWindow, Learn!ReadFallback,
       Learn!OverviewFails, Learn!Shown, Learn!Ask, Learn!AskAggregate,
       Learn!AskClassical, Learn!AskOverview, Learn!AskFit, Learn!AskTrain,
       Learn!AskScore, Learn!Time, Learn!RowArrives, Learn!LateRowCommits, Learn!PastAges,
       Learn!HistoryGrows, Learn!ClassicalAges, Learn!TemporalAges, Learn!NoteAges,
       Learn!loops

\* The request that is served.
LEMMA RequestWriters ==
    ASSUME Learn!Next
    PROVE  \/ UNCHANGED request
           \/ Learn!HourTurns
           \/ \E m \in Machines : Learn!Crash(m)
           \/ Learn!ServeRequest
           \/ \E t \in Learn!Healthy :
                 \/ Learn!AskAggregate(t) \/ Learn!AskOverview(t)
                 \/ \E m \in Machines :
                       \/ Learn!AskFit(m, t)
                       \/ \E family \in Learn!Families \ {"temporal"} :
                             Learn!AskTrain(m, t, family)
BY DEF Learn!Next, Learn!StartTick, Learn!TickStep, Learn!NextTenant, Learn!EndTick,
       Learn!RollupStep, Learn!Count, Learn!Write, Learn!Refresh, Learn!TrainingStep,
       Learn!Train, Learn!File, Learn!Series, Learn!Save, Learn!Replace, Learn!Score,
       Learn!Publish, Learn!Upload, Learn!StepFails, Learn!LoseLease, Learn!Ask,
       Learn!AskClassical, Learn!AskScore, Learn!Time, Learn!RowArrives,
       Learn!LateRowCommits, Learn!PastAges, Learn!HistoryGrows, Learn!ClassicalAges,
       Learn!TemporalAges, Learn!NoteAges

-----------------------------------------------------------------------------
(* Workers hold what their next step needs.                                *)

Ticking == tick \in [Machines -> Learn!Jobs]

Counts == [step: {"count", "write"}, worker: {"rollup"}, todo: SUBSET Tenants,
           tenant: Learn!Healthy, hour: Learn!Hours, total: 0..MaxRows, clean: BOOLEAN]

Trains == [step: {"series", "save", "replace", "score", "publish"},
           worker: {"training"}, todo: SUBSET Tenants, tenant: Learn!Healthy]

Auxiliary == [step: {"train", "file"}, worker: {"training"}, todo: SUBSET Tenants,
              tenant: Learn!Healthy, family: {"uptime", "threat"}]

Uploads == [step: {"upload"}, worker: {"training"}, todo: SUBSET Tenants,
            tenant: Learn!Healthy, left: SUBSET Learn!Families]

\* The kinds of work there are.
LEMMA JobKinds ==
    /\ Learn!Idle \in Learn!Jobs
    /\ \A w \in Learn!Workers, S \in SUBSET Tenants :
          [step |-> "next", worker |-> w, todo |-> S] \in Learn!Jobs
    /\ \A S \in SUBSET Tenants, t \in Learn!Healthy :
          [step |-> "refresh", worker |-> "rollup", todo |-> S, tenant |-> t] \in Learn!Jobs
    /\ Counts \subseteq Learn!Jobs /\ Trains \subseteq Learn!Jobs
    /\ Auxiliary \subseteq Learn!Jobs /\ Uploads \subseteq Learn!Jobs
<1>1. Learn!Idle \in Learn!Jobs
  BY DEF Learn!Jobs
<1>2. ASSUME NEW w \in Learn!Workers, NEW S \in SUBSET Tenants
      PROVE  [step |-> "next", worker |-> w, todo |-> S] \in Learn!Jobs
  BY DEF Learn!Jobs
<1>3. ASSUME NEW S \in SUBSET Tenants, NEW t \in Learn!Healthy
      PROVE  [step |-> "refresh", worker |-> "rollup", todo |-> S, tenant |-> t]
                \in Learn!Jobs
  BY DEF Learn!Jobs
<1>4. Counts \subseteq Learn!Jobs /\ Trains \subseteq Learn!Jobs
  BY DEF Learn!Jobs, Counts, Trains
<1>5. Auxiliary \subseteq Learn!Jobs /\ Uploads \subseteq Learn!Jobs
  BY DEF Learn!Jobs, Auxiliary, Uploads
<1> QED
  BY <1>1, <1>2, <1>3, <1>4, <1>5

\* What the work at a step holds.
LEMMA JobHolds ==
    ASSUME NEW j \in Learn!Jobs
    PROVE  /\ j.step # "idle" => j.todo \in SUBSET Tenants /\ j.worker \in Learn!Workers
           /\ j.step \in {"count", "write"} => j \in Counts
           /\ j.step = "refresh" => j.tenant \in Learn!Healthy /\ j.worker = "rollup"
           /\ j.step \in {"series", "save", "replace", "score", "publish"} => j \in Trains
           /\ j.step \in {"train", "file"} => j \in Auxiliary
           /\ j.step = "upload" => j \in Uploads
BY DEF Learn!Jobs, Learn!Idle, Learn!Workers, Counts, Trains, Auxiliary, Uploads

\* A worker that turns to the tenants it has left.
LEMMA Turning ==
    ASSUME Ticking, NEW m \in Machines, NEW todo \in SUBSET Tenants,
           tick[m].step # "idle", Learn!TurnTo(m, todo)
    PROVE  Ticking'
<1>1. tick[m].worker \in Learn!Workers
  BY JobHolds DEF Ticking
<1>2. [step |-> "next", worker |-> tick[m].worker, todo |-> todo] \in Learn!Jobs
  BY <1>1, JobKinds
<1> QED
  BY <1>2 DEF Learn!TurnTo, Ticking

\* A step of training that goes on to another.
LEMMA Training ==
    ASSUME Ticking, NEW m \in Machines,
           NEW next \in {"series", "save", "replace", "score", "publish"},
           tick[m] \in Trains, Learn!Goto(m, tick[m], next)
    PROVE  Ticking'
<1>1. [tick[m] EXCEPT !.step = next] \in Trains
  BY DEF Trains
<1>2. [tick[m] EXCEPT !.step = next] \in Learn!Jobs
  BY <1>1, JobKinds
<1> QED
  BY <1>2 DEF Learn!Goto, Ticking

\* The count of the hour under way, after that of the hour before.
LEMMA Afresh ==
    ASSUME Learn!LearningAssumption, NEW j \in Counts, NEW n,
           n = [j EXCEPT !.step = "count", !.hour = "current", !.total = 0]
    PROVE  n \in Counts /\ n.step = "count" /\ n.tenant = j.tenant /\ n.clean = j.clean
<1> DEFINE k == [j EXCEPT !.step = "count", !.hour = "current"]
<1>1. k \in Counts /\ k.step = "count" /\ k.tenant = j.tenant /\ k.clean = j.clean
  BY DEF Counts, Learn!Hours
<1>2. n = [k EXCEPT !.total = 0]
  OBVIOUS
<1> HIDE DEF k
<1>3. 0 \in 0..MaxRows
  BY Bounds
<1> QED
  BY <1>1, <1>2, <1>3 DEF Counts

\* Counting, storing and refreshing keep what workers hold.
LEMMA RollupSteps ==
    ASSUME Learn!LearningAssumption, Ticking,
           rows \in [Learn!Healthy -> [Learn!Hours -> 0..MaxRows]], NEW m \in Machines,
           Learn!RollupStep(m)
    PROVE  Ticking'
<1> DEFINE j == tick[m]
<1>1. j \in Learn!Jobs
  BY DEF Ticking
<1>2. CASE Learn!Count(m)
  <2>1. j \in Counts
    BY <1>1, <1>2, JobHolds DEF Learn!Count, Learn!At
  <2>2. rows[j.tenant][j.hour] \in 0..MaxRows
    BY <2>1 DEF Counts
  <2>3. Learn!Counted(j) \in Counts
    BY <2>1, <2>2 DEF Learn!Counted, Counts
  <2> QED
    BY <1>2, <2>3, JobKinds DEF Learn!Count, Ticking
<1>3. CASE Learn!Write(m)
  <2>1. j \in Counts
    BY <1>1, <1>3, JobHolds DEF Learn!Write, Learn!At
  <2>2. [j EXCEPT !.step = "count", !.hour = "current", !.total = 0] \in Counts
    BY <2>1, Afresh
  <2>3. [step |-> "refresh", worker |-> "rollup", todo |-> j.todo, tenant |-> j.tenant]
           \in Learn!Jobs
    BY <2>1, JobKinds DEF Counts
  <2>4. [j EXCEPT !.step = "count", !.hour = "current", !.total = 0] \in Learn!Jobs
    BY <2>2, JobKinds
  <2>5. \E k \in Learn!Jobs : tick' = [tick EXCEPT ![m] = k]
    BY <1>3, <2>3, <2>4 DEF Learn!Write
  <2> QED
    BY <2>5 DEF Ticking
<1>4. CASE Learn!Refresh(m)
  <2>1. j.step # "idle" /\ j.todo \in SUBSET Tenants
    BY <1>1, <1>4, JobHolds DEF Learn!Refresh, Learn!At
  <2> QED
    BY <1>4, <2>1, Turning DEF Learn!Refresh
<1> QED
  BY <1>2, <1>3, <1>4 DEF Learn!RollupStep

\* After an auxiliary model comes the next one, or the temporal one.
LEMMA Leaving ==
    ASSUME Ticking, NEW m \in Machines, tick[m] \in Auxiliary, Learn!LeaveModel(m)
    PROVE  Ticking'
<1> DEFINE j == tick[m]
<1>1. Learn!AfterModel(j) \in Auxiliary \cup Trains
  <2>1. CASE j.family = "uptime"
    <3>1. [j EXCEPT !.step = "train", !.family = "threat"] \in Auxiliary
      BY DEF Auxiliary
    <3> QED
      BY <2>1, <3>1 DEF Learn!AfterModel
  <2>2. CASE j.family # "uptime"
    BY <2>2 DEF Learn!AfterModel, Auxiliary, Trains
  <2> QED
    BY <2>1, <2>2
<1>2. Learn!AfterModel(j) \in Learn!Jobs
  BY <1>1, JobKinds
<1> QED
  BY <1>2 DEF Learn!LeaveModel, Ticking

\* So do the steps of training.
LEMMA TrainingSteps ==
    ASSUME Ticking, NEW m \in Machines, Learn!TrainingStep(m)
    PROVE  Ticking'
<1>1. CASE Learn!Train(m) \/ Learn!File(m)
  <2>1. tick[m] \in Auxiliary
    BY <1>1, JobHolds DEF Learn!Train, Learn!File, Learn!At, Ticking
  <2>2. ASSUME Learn!Goto(m, tick[m], "file") PROVE Ticking'
    <3>1. [tick[m] EXCEPT !.step = "file"] \in Auxiliary
      BY <2>1 DEF Auxiliary
    <3>2. [tick[m] EXCEPT !.step = "file"] \in Learn!Jobs
      BY <3>1, JobKinds
    <3> QED
      BY <2>2, <3>2 DEF Learn!Goto, Ticking
  <2>3. Learn!Goto(m, tick[m], "file") \/ Learn!LeaveModel(m)
    BY <1>1 DEF Learn!Train, Learn!File
  <2> QED
    BY <2>1, <2>2, <2>3, Leaving
<1>2. CASE Learn!Publish(m)
  <2> DEFINE j == tick[m]
             left == {f \in Learn!Families : disk[m][j.tenant][f] # "none"}
  <2>1. j \in Trains
    BY <1>2, JobHolds DEF Learn!Publish, Learn!At, Ticking
  <2>2. [step |-> "upload", worker |-> "training", todo |-> j.todo, tenant |-> j.tenant,
         left |-> left] \in Uploads
    BY <2>1 DEF Trains, Uploads
  <2>3. [step |-> "upload", worker |-> "training", todo |-> j.todo, tenant |-> j.tenant,
         left |-> left] \in Learn!Jobs
    BY <2>2, JobKinds
  <2> QED
    BY <1>2, <2>3 DEF Learn!Publish, Ticking
<1>3. CASE Learn!Upload(m)
  <2>1. tick[m] \in Uploads /\ tick[m].step # "idle"
    BY <1>3, JobHolds DEF Learn!Upload, Learn!At, Ticking
  <2>2. CASE Learn!TurnTo(m, tick[m].todo)
    BY <2>1, <2>2, Turning DEF Uploads
  <2>3. ASSUME NEW f, tick' = [tick EXCEPT ![m] = [tick[m] EXCEPT !.left = @ \ {f}]]
        PROVE  Ticking'
    <3>1. [tick[m] EXCEPT !.left = @ \ {f}] \in Uploads
      BY <2>1 DEF Uploads
    <3>2. [tick[m] EXCEPT !.left = @ \ {f}] \in Learn!Jobs
      BY <3>1, JobKinds
    <3> QED
      BY <2>3, <3>2 DEF Ticking
  <2> QED
    BY <1>3, <2>2, <2>3 DEF Learn!Upload
<1>4. CASE Learn!Series(m) \/ Learn!Save(m) \/ Learn!Replace(m) \/ Learn!Score(m)
  <2>1. tick[m] \in Trains
    BY <1>4, JobHolds DEF Learn!Series, Learn!Save, Learn!Replace, Learn!Score, Learn!At,
       Ticking
  <2>2. \E next \in {"save", "replace", "score", "publish"} : Learn!Goto(m, tick[m], next)
    BY <1>4 DEF Learn!Series, Learn!Save, Learn!Replace, Learn!Score
  <2> QED
    BY <2>1, <2>2, Training
<1> QED
  BY <1>1, <1>2, <1>3, <1>4 DEF Learn!TrainingStep

\* So does turning to the next tenant.
LEMMA NextTenantTyped ==
    ASSUME Learn!LearningAssumption, Ticking, NEW m \in Machines, Learn!NextTenant(m)
    PROVE  Ticking'
<1> DEFINE j == tick[m]
<1>1. j.step # "idle" /\ j.todo \in SUBSET Tenants /\ j.worker \in Learn!Workers
  BY JobHolds DEF Ticking, Learn!NextTenant
<1>2. ASSUME NEW t \in j.todo, Learn!TurnTo(m, j.todo \ {t}) PROVE Ticking'
  BY <1>1, <1>2, Turning
<1>3. ASSUME NEW t \in j.todo, NEW S \in SUBSET Tenants, t \in Learn!Healthy
      PROVE  Learn!RollupOf(t, S) \in Learn!Jobs /\ Learn!TrainingOf(t, S) \in Learn!Jobs
  <2>1. Learn!Complete(t) \in BOOLEAN /\ 0 \in 0..MaxRows
    BY Bounds DEF Learn!Complete
  <2>2. Learn!RollupOf(t, S) \in Counts
    BY <1>3, <2>1 DEF Learn!RollupOf, Counts, Learn!FirstHour, Learn!Hours
  <2>3. Learn!TrainingOf(t, S) \in Auxiliary
    BY <1>3 DEF Learn!TrainingOf, Auxiliary
  <2> QED
    BY <2>2, <2>3, JobKinds
<1>4. ASSUME NEW t \in j.todo, t \in Learn!Healthy,
             \/ tick' = [tick EXCEPT ![m] = Learn!RollupOf(t, j.todo \ {t})]
             \/ tick' = [tick EXCEPT ![m] = Learn!TrainingOf(t, j.todo \ {t})]
      PROVE  Ticking'
  <2>1. j.todo \ {t} \in SUBSET Tenants
    BY <1>1
  <2>2. /\ Learn!RollupOf(t, j.todo \ {t}) \in Learn!Jobs
        /\ Learn!TrainingOf(t, j.todo \ {t}) \in Learn!Jobs
    BY <1>3, <1>4, <2>1
  <2> QED
    BY <1>4, <2>2 DEF Ticking
<1> QED
  BY <1>2, <1>4 DEF Learn!NextTenant, Learn!LeftAfterFailure

\* So does every step.
LEMMA TickingStep ==
    ASSUME Learn!LearningAssumption, Ticking,
           rows \in [Learn!Healthy -> [Learn!Hours -> 0..MaxRows]], Learn!Next
    PROVE  Ticking'
<1>1. ASSUME NEW m \in Machines, NEW worker \in Learn!Workers, Learn!StartTick(m, worker)
      PROVE  Ticking'
  <2>1. PICK S \in Learn!ToVisit(worker) :
           tick' = [tick EXCEPT ![m] = [step |-> "next", worker |-> worker, todo |-> S]]
    BY <1>1 DEF Learn!StartTick
  <2>2. S \in SUBSET Tenants
    BY DEF Learn!ToVisit, Learn!Due, Learn!Healthy, Learn!LearningAssumption
  <2> QED
    BY <2>1, <2>2, JobKinds DEF Ticking
<1>2. ASSUME NEW m \in Machines, Learn!EndTick(m) PROVE Ticking'
  BY <1>2, JobKinds DEF Learn!EndTick, Ticking
<1>3. ASSUME NEW m \in Machines, Learn!StepFails(m) PROVE Ticking'
  <2>1. tick[m].step # "idle" /\ tick[m].todo \in SUBSET Tenants
    BY <1>3, JobHolds DEF Ticking, Learn!StepFails
  <2> QED
    BY <1>3, <2>1, Turning DEF Learn!StepFails, Learn!LeftAfterFailure
<1>4. ASSUME NEW m \in Machines, Learn!Crash(m) PROVE Ticking'
  BY <1>4, JobKinds DEF Learn!Crash, Ticking
<1>5. CASE Learn!HourTurns
  <2>1. ASSUME NEW j \in Learn!Jobs PROVE Learn!OlderTick(j) \in Learn!Jobs
    <3>1. CASE j.step \in {"count", "write"}
      <4>1. j \in Counts
        BY <3>1, JobHolds
      <4>2. [j EXCEPT !.hour = "previous", !.clean = FALSE] \in Counts
        BY <4>1 DEF Counts, Learn!Hours
      <4> QED
        BY <3>1, <4>2, JobKinds DEF Learn!OlderTick
    <3> QED
      BY <3>1 DEF Learn!OlderTick
  <2> QED
    BY <1>5, <2>1 DEF Learn!HourTurns, Ticking
<1> QED
  BY TickWriters, <1>1, <1>2, <1>3, <1>4, <1>5, NextTenantTyped, RollupSteps, TrainingSteps
  DEF Learn!TickStep, Ticking

-----------------------------------------------------------------------------
(* So does the request.                                                    *)

Requesting == request \in Learn!Asked

Tallies == [step: {"count", "write"}, tenant: Learn!Healthy, hour: Learn!Hours, total: 0..MaxRows]

Views == [step: {"temporal", "uptime", "window", "fallback", "shown"},
          tenant: Learn!Healthy, blank: SUBSET Learn!Kinds,
          failed: SUBSET {"temporal", "uptime"}]

ViewSteps == {"temporal", "uptime", "window", "fallback", "shown"}

\* The kinds of requests there are.
LEMMA AskedKinds ==
    /\ Learn!Idle \in Learn!Asked
    /\ Tallies \subseteq Learn!Asked /\ Views \subseteq Learn!Asked
    /\ \A m \in Machines, t \in Learn!Healthy :
          [step |-> "replace", machine |-> m, tenant |-> t] \in Learn!Asked
    /\ \A m \in Machines, t \in Learn!Healthy, f \in Learn!Families \ {"temporal"} :
          [step |-> "file", machine |-> m, tenant |-> t, family |-> f] \in Learn!Asked
<1>1. /\ Learn!Idle \in Learn!Asked
      /\ Tallies \subseteq Learn!Asked /\ Views \subseteq Learn!Asked
  BY DEF Learn!Asked, Tallies, Views
<1>2. \A m \in Machines, t \in Learn!Healthy :
         [step |-> "replace", machine |-> m, tenant |-> t] \in Learn!Asked
  BY DEF Learn!Asked
<1>3. \A m \in Machines, t \in Learn!Healthy, f \in Learn!Families \ {"temporal"} :
         [step |-> "file", machine |-> m, tenant |-> t, family |-> f] \in Learn!Asked
  BY DEF Learn!Asked
<1> QED
  BY <1>1, <1>2, <1>3

\* What a request holds at a step.
LEMMA AskedHolds ==
    ASSUME NEW r \in Learn!Asked
    PROVE  /\ r.step \in {"count", "write"} => r \in Tallies
           /\ r.step \in ViewSteps => r \in Views
           /\ r.step \in {"replace", "file"} => r.machine \in Machines /\ r.tenant \in Learn!Healthy
           /\ r.step = "file" => r.family \in Learn!Families \ {"temporal"}
BY DEF Learn!Asked, Learn!Idle, Tallies, Views, ViewSteps

\* The overview goes on to its next read, with less left to find or a read failed.
LEMMA Viewing ==
    ASSUME NEW r \in Views, NEW next \in ViewSteps, NEW kind \in Learn!Kinds,
           NEW signal \in {"temporal", "uptime"}
    PROVE  /\ [r EXCEPT !.step = next] \in Views
           /\ [r EXCEPT !.step = next, !.blank = @ \ {kind}] \in Views
           /\ [[r EXCEPT !.step = next] EXCEPT !.blank = @ \ {kind}] \in Views
           /\ [[r EXCEPT !.step = next] EXCEPT !.failed = @ \cup {signal}] \in Views
<1>1. [r EXCEPT !.step = next] \in Views
  BY DEF Views, ViewSteps
<1>2. \A v \in Views : [v EXCEPT !.blank = @ \ {kind}] \in Views
  BY DEF Views
<1>3. \A v \in Views : [v EXCEPT !.failed = @ \cup {signal}] \in Views
  BY DEF Views
<1>4. [r EXCEPT !.step = next, !.blank = @ \ {kind}] \in Views
  BY DEF Views, ViewSteps
<1> QED
  BY <1>1, <1>2, <1>3, <1>4

\* What a read of the overview leaves to find, and which reads have failed.
LEMMA Reading ==
    ASSUME Requesting,
           Learn!ReadSignal \/ Learn!ReadWindow \/ Learn!ReadFallback
    PROVE  /\ request \in Views /\ request' \in Views
           /\ request'.tenant = request.tenant /\ request'.step \in ViewSteps
           /\ request'.blank \subseteq request.blank
           /\ request.failed \subseteq request'.failed
<1>1. request \in Views
  BY AskedHolds DEF Learn!ReadSignal, Learn!ReadWindow, Learn!ReadFallback, Requesting,
     ViewSteps
<1> DEFINE Left(v) == /\ v \in Views /\ v.tenant = request.tenant
                      /\ v.blank \subseteq request.blank
                      /\ request.failed \subseteq v.failed
<1>2. ASSUME NEW next \in ViewSteps, NEW kind \in Learn!Kinds,
             NEW signal \in {"temporal", "uptime"}
      PROVE  /\ Left([request EXCEPT !.step = next])
             /\ Left([request EXCEPT !.step = next, !.blank = @ \ {kind}])
             /\ Left([[request EXCEPT !.step = next] EXCEPT !.blank = @ \ {kind}])
             /\ Left([[request EXCEPT !.step = next] EXCEPT !.failed = @ \cup {signal}])
  BY <1>1, Viewing DEF Views
<1> HIDE DEF Left
<1>3. CASE Learn!ReadSignal
  <2>1. request.step \in {"temporal", "uptime"} /\ request.step \in Learn!Kinds
    BY <1>3 DEF Learn!ReadSignal, Learn!Kinds
  <2>2. Learn!AfterSignal(request.step) \in ViewSteps
    BY DEF Learn!AfterSignal, ViewSteps
  <2>3. Left(request')
    BY <1>2, <1>3, <2>1, <2>2 DEF Learn!ReadSignal
  <2> QED
    BY <1>1, <2>3 DEF Left, Views, ViewSteps
<1>4. CASE Learn!ReadWindow
  <2>1. Left(request')
    BY <1>2, <1>4 DEF Learn!ReadWindow, ViewSteps, Learn!Kinds
  <2> QED
    BY <1>1, <2>1 DEF Left, Views, ViewSteps
<1>5. CASE Learn!ReadFallback
  <2>1. Learn!AnyBucket(request.tenant) => Left(request')
    BY <1>2, <1>5 DEF Learn!ReadFallback, ViewSteps, Learn!Kinds
  <2>2. ~Learn!AnyBucket(request.tenant) => request' = [request EXCEPT !.step = "shown"]
    BY <1>1, <1>5 DEF Learn!ReadFallback, Views
  <2>3. Left(request')
    BY <1>2, <2>1, <2>2 DEF ViewSteps, Learn!Kinds
  <2> QED
    BY <1>1, <2>3 DEF Left, Views, ViewSteps
<1> QED
  BY <1>3, <1>4, <1>5

\* Every step keeps what the request holds.
LEMMA RequestingStep ==
    ASSUME Learn!LearningAssumption, Requesting,
           rows \in [Learn!Healthy -> [Learn!Hours -> 0..MaxRows]], Learn!Next
    PROVE  Requesting'
<1>1. CASE Learn!HourTurns
  <2>1. CASE request.step \in {"count", "write"}
    <3>1. request \in Tallies
      BY <2>1, AskedHolds DEF Requesting
    <3>2. [request EXCEPT !.hour = "previous"] \in Tallies
      BY <3>1 DEF Tallies, Learn!Hours
    <3> QED
      BY <1>1, <2>1, <3>2, AskedKinds DEF Learn!HourTurns, Learn!Older, Requesting
  <2> QED
    BY <1>1, <2>1 DEF Learn!HourTurns, Learn!Older, Requesting
<1>2. ASSUME UNCHANGED request \/ request' = Learn!Idle PROVE Requesting'
  BY <1>2, AskedKinds DEF Requesting
<1>3. ASSUME NEW m \in Machines, Learn!Crash(m) PROVE Requesting'
  BY <1>2, <1>3 DEF Learn!Crash, Learn!Answer
<1>4. ASSUME NEW t \in Learn!Healthy, Learn!AskAggregate(t) PROVE Requesting'
  <2>1. request' = [step |-> "count", tenant |-> t, hour |-> "current", total |-> 0]
    BY <1>4 DEF Learn!AskAggregate
  <2>2. request' \in Tallies
    BY <2>1, Bounds DEF Tallies, Learn!Hours
  <2> QED
    BY <2>2, AskedKinds DEF Requesting
<1>5. ASSUME NEW t \in Learn!Healthy, Learn!AskOverview(t) PROVE Requesting'
  <2>1. Learn!ToShow(t) \in SUBSET Learn!Kinds
    BY DEF Learn!ToShow
  <2>2. [step |-> "temporal", tenant |-> t, blank |-> Learn!ToShow(t), failed |-> {}]
           \in Views
    BY <2>1 DEF Views
  <2> QED
    BY <1>5, <2>2, AskedKinds DEF Learn!AskOverview, Requesting
<1>6. ASSUME NEW t \in Learn!Healthy, NEW m \in Machines,
             \/ Learn!AskFit(m, t)
             \/ \E family \in Learn!Families \ {"temporal"} : Learn!AskTrain(m, t, family)
      PROVE  Requesting'
  BY <1>6, AskedKinds DEF Learn!AskFit, Learn!AskTrain, Requesting
<1>7. CASE Learn!CountForRequest
  <2>1. request \in Tallies
    BY <1>7, AskedHolds DEF Learn!CountForRequest, Requesting
  <2>2. rows[request.tenant][request.hour] \in 0..MaxRows
    BY <2>1 DEF Tallies
  <2>3. Learn!Counted(request) \in Tallies
    BY <2>1, <2>2 DEF Learn!Counted, Tallies
  <2> QED
    BY <1>7, <2>3, AskedKinds DEF Learn!CountForRequest, Requesting
<1>8. CASE Learn!ReadSignal \/ Learn!ReadWindow \/ Learn!ReadFallback
  BY <1>8, Reading, AskedKinds DEF Requesting
<1>9. CASE \/ Learn!WriteForRequest \/ Learn!ReplaceForRequest \/ Learn!FileForRequest
           \/ Learn!OverviewFails \/ Learn!Shown
  BY <1>2, <1>9 DEF Learn!WriteForRequest, Learn!ReplaceForRequest, Learn!FileForRequest,
     Learn!OverviewFails, Learn!Shown, Learn!Answer
<1> QED
  BY RequestWriters, <1>1, <1>2, <1>3, <1>4, <1>5, <1>6, <1>7, <1>8, <1>9
  DEF Learn!ServeRequest

-----------------------------------------------------------------------------
(* The tables, the models and the lease.                                   *)

\* A transaction still to commit has room among the rows of its hour.
Stored ==
    /\ rows \in [Learn!Healthy -> [Learn!Hours -> 0..MaxRows]]
    /\ bucket \in [Learn!Healthy -> [Learn!Hours -> 0..(MaxRows + 1)]]
    /\ late \in [Learn!Healthy -> BOOLEAN]
    /\ settled \in [Learn!Healthy -> BOOLEAN]
    /\ past \in [Learn!Healthy -> {"none", "recent", "old"}]
    /\ \A t \in Learn!Healthy : late[t] => rows[t]["previous"] < MaxRows

\* Every step keeps the tables, and room for what is still to commit.
LEMMA StoredStep ==
    ASSUME Learn!LearningAssumption, Stored, Ticking, Requesting, Learn!Next
    PROVE  Stored'
<1> USE Bounds
<1>1. CASE UNCHANGED <<rows, late, bucket, past, settled>>
  BY <1>1 DEF Stored
<1>2. ASSUME NEW t \in Learn!Healthy, NEW h \in Learn!Hours, NEW n \in 0..(MaxRows + 1)
      PROVE  [bucket EXCEPT ![t][h] = n] \in [Learn!Healthy -> [Learn!Hours -> 0..(MaxRows + 1)]]
  BY DEF Stored
<1>3. ASSUME NEW m \in Machines, Learn!Write(m) PROVE Stored'
  <2> DEFINE j == tick[m]
  <2>1. j \in Counts
    BY <1>3, JobHolds DEF Learn!Write, Learn!At, Ticking
  <2>2. j.tenant \in Learn!Healthy /\ j.hour \in Learn!Hours /\ j.total \in 0..(MaxRows + 1)
        /\ j.clean \in BOOLEAN
    BY <2>1 DEF Counts
  <2>3. bucket' \in [Learn!Healthy -> [Learn!Hours -> 0..(MaxRows + 1)]]
    BY <1>2, <1>3, <2>2 DEF Learn!Write, Learn!Stored
  <2>4. settled' \in [Learn!Healthy -> BOOLEAN]
    BY <1>3, <2>2 DEF Learn!Write, Stored
  <2>5. UNCHANGED <<rows, late, past>>
    BY <1>3 DEF Learn!Write
  <2> QED
    BY <2>3, <2>4, <2>5 DEF Stored
<1>4. CASE Learn!WriteForRequest
  <2>1. request \in Tallies
    BY <1>4, AskedHolds DEF Learn!WriteForRequest, Requesting
  <2>2. request.tenant \in Learn!Healthy /\ request.hour \in Learn!Hours
        /\ request.total \in 0..(MaxRows + 1)
    BY <2>1 DEF Tallies
  <2>3. bucket' \in [Learn!Healthy -> [Learn!Hours -> 0..(MaxRows + 1)]]
    BY <1>2, <1>4, <2>2 DEF Learn!WriteForRequest, Learn!Stored
  <2> QED
    BY <1>4, <2>3 DEF Learn!WriteForRequest, Stored
<1>5. ASSUME NEW t \in Learn!Healthy, Learn!RowArrives(t) PROVE Stored'
  <2>1. rows[t]["current"] + 1 \in 0..MaxRows
    BY <1>5 DEF Learn!RowArrives, Stored, Learn!Hours
  <2>2. rows' = [rows EXCEPT ![t]["current"] = rows[t]["current"] + 1]
    BY <1>5 DEF Learn!RowArrives
  <2>3. /\ rows' \in [Learn!Healthy -> [Learn!Hours -> 0..MaxRows]]
        /\ \A u \in Learn!Healthy : rows'[u]["previous"] = rows[u]["previous"]
    BY <2>1, <2>2 DEF Stored, Learn!Hours
  <2> QED
    BY <1>5, <2>3 DEF Learn!RowArrives, Stored
<1>6. ASSUME NEW t \in Learn!Healthy, Learn!LateRowCommits(t) PROVE Stored'
  <2>1. rows[t]["previous"] + 1 \in 0..MaxRows /\ late[t]
    BY <1>6 DEF Learn!LateRowCommits, Stored, Learn!Hours
  <2>2. rows' = [rows EXCEPT ![t]["previous"] = rows[t]["previous"] + 1]
    BY <1>6 DEF Learn!LateRowCommits
  <2>3. /\ rows' \in [Learn!Healthy -> [Learn!Hours -> 0..MaxRows]]
        /\ \A u \in Learn!Healthy \ {t} : rows'[u]["previous"] = rows[u]["previous"]
    <3>1. \A u \in Learn!Healthy \ {t} : rows'[u] = rows[u]
      BY <2>2 DEF Stored
    <3> QED
      BY <2>1, <2>2, <3>1 DEF Stored, Learn!Hours
  <2>4. late' = [late EXCEPT ![t] = FALSE]
    BY <1>6 DEF Learn!LateRowCommits
  <2>5. UNCHANGED <<bucket, past, settled>>
    BY <1>6 DEF Learn!LateRowCommits
  <2>6. late' \in [Learn!Healthy -> BOOLEAN]
    BY <2>4, Zenon DEF Stored
  <2>7. \A u \in Learn!Healthy : late'[u] => u # t /\ late[u]
    BY <2>4 DEF Stored
  <2> QED
    BY <2>3, <2>5, <2>6, <2>7 DEF Stored
<1>7. ASSUME NEW t \in Learn!Healthy, Learn!PastAges(t) PROVE Stored'
  BY <1>7 DEF Learn!PastAges, Stored
<1>8. CASE Learn!HourTurns
  <2>1. rows' \in [Learn!Healthy -> [Learn!Hours -> 0..MaxRows]]
    <3>1. ASSUME NEW n \in 0..MaxRows
          PROVE  [previous |-> n, current |-> 0] \in [Learn!Hours -> 0..MaxRows]
      BY DEF Learn!Hours
    <3>2. \A t \in Learn!Healthy : rows[t]["current"] \in 0..MaxRows
      BY DEF Stored, Learn!Hours
    <3>3. rows' = [t \in Learn!Healthy |-> [previous |-> rows[t]["current"], current |-> 0]]
      BY <1>8 DEF Learn!HourTurns
    <3> QED
      BY <3>1, <3>2, <3>3
  <2>2. bucket' \in [Learn!Healthy -> [Learn!Hours -> 0..(MaxRows + 1)]]
    <3>1. ASSUME NEW n \in 0..(MaxRows + 1)
          PROVE  [previous |-> n, current |-> MaxRows + 1] \in [Learn!Hours -> 0..(MaxRows + 1)]
      BY DEF Learn!Hours
    <3>2. \A t \in Learn!Healthy : bucket[t]["current"] \in 0..(MaxRows + 1)
      BY DEF Stored, Learn!Hours
    <3>3. bucket' = [t \in Learn!Healthy |->
                        [previous |-> bucket[t]["current"], current |-> MaxRows + 1]]
      BY <1>8 DEF Learn!HourTurns
    <3> QED
      BY <3>1, <3>2, <3>3
  <2>3. /\ late' \in [Learn!Healthy -> BOOLEAN]
        /\ \A t \in Learn!Healthy : late'[t] => rows[t]["current"] < MaxRows
    BY <1>8 DEF Learn!HourTurns
  <2>4. \A t \in Learn!Healthy : rows'[t]["previous"] = rows[t]["current"]
    BY <1>8 DEF Learn!HourTurns
  <2>6. settled' \in [Learn!Healthy -> BOOLEAN]
    BY <1>8 DEF Learn!HourTurns
  <2>7. past' \in [Learn!Healthy -> {"none", "recent", "old"}]
    BY <1>8 DEF Learn!HourTurns, Stored
  <2> QED
    BY <2>1, <2>2, <2>3, <2>4, <2>6, <2>7 DEF Stored
<1> QED
  BY HoursWriters, <1>1, <1>3, <1>4, <1>5, <1>6, <1>7, <1>8

States == {"none", "part", "whole"}

\* No file of a temporal model is ever a part of one, nor was one published that was.
Files ==
    /\ disk \in [Machines -> [Learn!Healthy -> [Learn!Families -> States]]]
    /\ hub \in [Learn!Healthy -> [Learn!Families -> States]]
    /\ \A m \in Machines, t \in Learn!Healthy : disk[m][t]["temporal"] # "part"
    /\ \A t \in Learn!Healthy : hub[t]["temporal"] # "part"

\* A file that is written keeps the rest as it was.
LEMMA Writes ==
    ASSUME Files, NEW m \in Machines, NEW t \in Learn!Healthy, NEW f \in Learn!Families,
           NEW state \in States, f = "temporal" => state # "part",
           disk' = Learn!Filed(m, t, f, state), UNCHANGED hub
    PROVE  Files'
<1>1. CASE f \notin enabled
  BY <1>1 DEF Learn!Filed, Files
<1>2. CASE f \in enabled
  <2>1. disk' = [disk EXCEPT ![m][t][f] = state]
    BY <1>2 DEF Learn!Filed
  <2>2. disk' \in [Machines -> [Learn!Healthy -> [Learn!Families -> States]]]
    BY <2>1 DEF Files
  <2>3. ASSUME NEW n \in Machines, NEW u \in Learn!Healthy
        PROVE  disk'[n][u]["temporal"] # "part"
    <3>1. disk[n][u]["temporal"] # "part"
      BY DEF Files
    <3>2. CASE n = m /\ u = t /\ f = "temporal"
      BY <2>1, <3>2 DEF Files
    <3>3. CASE ~(n = m /\ u = t /\ f = "temporal")
      <4>1. "temporal" \in Learn!Families
        BY DEF Learn!Families
      <4>2. disk'[n][u]["temporal"] = disk[n][u]["temporal"]
        BY <2>1, <3>3, <4>1 DEF Files
      <4> QED
        BY <3>1, <4>2
    <3> QED
      BY <3>2, <3>3
  <2> QED
    BY <2>2, <2>3 DEF Files
<1> QED
  BY <1>1, <1>2

\* A temporal model's file is replaced as a whole, wherever a step or a crash comes
\* in between; what happens to other families' files does not touch it.
LEMMA FilesStep ==
    ASSUME Files, Ticking, Requesting, Learn!Next
    PROVE  Files'
<1>0. /\ "temporal" \in Learn!Families /\ "part" \in States /\ "whole" \in States
      /\ {"uptime", "threat"} \subseteq Learn!Families \ {"temporal"}
  BY DEF Learn!Families, States
<1>1. CASE UNCHANGED <<disk, hub>>
  BY <1>1 DEF Files
<1>2. ASSUME NEW m \in Machines, NEW t \in Learn!Healthy,
             disk' = Learn!Beside(m, t) \/ disk' = Learn!Replaced(m, t), UNCHANGED hub
      PROVE  Files'
  <2>1. /\ Learn!Saving(disk[m][t]["temporal"]) \in States
        /\ Learn!Saving(disk[m][t]["temporal"]) # "part"
    BY <1>0 DEF Files, Learn!Saving
  <2>2. CASE disk' = Learn!Beside(m, t)
    BY <1>0, <1>2, <2>1, <2>2, Writes DEF Learn!Beside
  <2>3. CASE disk' = Learn!Replaced(m, t)
    BY <1>0, <1>2, <2>3, Writes DEF Learn!Replaced
  <2> QED
    BY <1>2, <2>2, <2>3
<1>3. ASSUME NEW m \in Machines, NEW t \in Learn!Healthy,
             NEW f \in Learn!Families \ {"temporal"}, NEW state \in {"part", "whole"},
             disk' = Learn!Filed(m, t, f, state), UNCHANGED hub
      PROVE  Files'
  BY <1>0, <1>3, Writes
<1>4. ASSUME NEW m \in Machines, Learn!Save(m) \/ Learn!Replace(m) PROVE Files'
  <2>1. tick[m] \in Trains
    BY <1>4, JobHolds DEF Learn!Save, Learn!Replace, Learn!At, Ticking
  <2>2. tick[m].tenant \in Learn!Healthy
    BY <2>1 DEF Trains
  <2> QED
    BY <1>2, <1>4, <2>2 DEF Learn!Save, Learn!Replace
<1>5. ASSUME NEW m \in Machines, Learn!Train(m) \/ Learn!File(m) PROVE Files'
  <2>1. tick[m] \in Auxiliary
    BY <1>5, JobHolds DEF Learn!Train, Learn!File, Learn!At, Ticking
  <2>2. tick[m].tenant \in Learn!Healthy /\ tick[m].family \in Learn!Families \ {"temporal"}
    BY <1>0, <2>1 DEF Auxiliary
  <2> QED
    BY <1>1, <1>3, <1>5, <2>2 DEF Learn!Train, Learn!File
<1>6. ASSUME NEW m \in Machines, NEW t \in Learn!Healthy,
             \/ Learn!AskFit(m, t)
             \/ \E family \in Learn!Families \ {"temporal"} : Learn!AskTrain(m, t, family)
      PROVE  Files'
  BY <1>2, <1>3, <1>6 DEF Learn!AskFit, Learn!AskTrain
<1>7. CASE Learn!ReplaceForRequest \/ Learn!FileForRequest
  <2>1. request.machine \in Machines /\ request.tenant \in Learn!Healthy
    BY <1>7, AskedHolds DEF Learn!ReplaceForRequest, Learn!FileForRequest, Requesting
  <2>2. CASE Learn!ReplaceForRequest
    BY <1>2, <2>1, <2>2 DEF Learn!ReplaceForRequest
  <2>3. CASE Learn!FileForRequest
    <3>1. request.family \in Learn!Families \ {"temporal"}
      BY <2>3, AskedHolds DEF Learn!FileForRequest, Requesting
    <3> QED
      BY <1>1, <1>3, <2>1, <2>3, <3>1 DEF Learn!FileForRequest
  <2> QED
    BY <1>7, <2>2, <2>3
<1>8. ASSUME NEW m \in Machines, Learn!Upload(m) PROVE Files'
  <2> DEFINE t == tick[m].tenant
  <2>1. tick[m] \in Uploads
    BY <1>8, JobHolds DEF Learn!Upload, Learn!At, Ticking
  <2>2. t \in Learn!Healthy /\ tick[m].left \subseteq Learn!Families
    BY <2>1 DEF Uploads
  <2>3. ASSUME NEW f \in Learn!Families, UNCHANGED disk,
               hub' = [hub EXCEPT ![t][f] = disk[m][t][f]]
        PROVE  Files'
    <3>1. disk[m][t][f] \in States /\ disk[m][t]["temporal"] # "part"
      BY <2>2 DEF Files
    <3>2. hub' \in [Learn!Healthy -> [Learn!Families -> States]]
      BY <2>2, <2>3, <3>1 DEF Files
    <3>3. ASSUME NEW u \in Learn!Healthy PROVE hub'[u]["temporal"] # "part"
      <4>1. CASE u = t /\ f = "temporal"
        BY <2>2, <2>3, <3>1, <4>1 DEF Files
      <4>2. CASE ~(u = t /\ f = "temporal")
        <5>1. hub'[u]["temporal"] = hub[u]["temporal"]
          BY <1>0, <2>3, <4>2 DEF Files
        <5> QED
          BY <5>1 DEF Files
      <4> QED
        BY <4>1, <4>2
    <3> QED
      BY <2>3, <3>2, <3>3 DEF Files
  <2>4. \/ UNCHANGED <<disk, hub>>
        \/ \E f \in Learn!Families : /\ UNCHANGED disk
                                     /\ hub' = [hub EXCEPT ![t][f] = disk[m][t][f]]
    BY <1>8, <2>2 DEF Learn!Upload
  <2> QED
    BY <1>1, <2>3, <2>4
<1> QED
  BY FilesWriters, <1>1, <1>4, <1>5, <1>6, <1>7, <1>8

Scores ==
    /\ enough \in [Learn!Healthy -> BOOLEAN]
    /\ classical \in [Learn!Healthy -> BOOLEAN]
    /\ temporal \in [Learn!Healthy -> {"none", "fresh", "stale"}]
    /\ noted \in [Learn!Healthy -> BOOLEAN]
    /\ predicted \in [Learn!Healthy -> BOOLEAN]

\* Scores and notes are made and age.
LEMMA ScoresStep ==
    ASSUME Scores, Learn!Next
    PROVE  Scores'
<1> DEFINE Flags == [Learn!Healthy -> BOOLEAN]
<1>1. /\ \A t : Learn!ClassicalMade(t) \in Flags
      /\ \A t : Learn!NoteMade(t) \in Flags
      /\ \A t : Learn!ForecastMade(t) \in Flags
      /\ \A t : [enough EXCEPT ![t] = TRUE] \in Flags
      /\ \A t : [classical EXCEPT ![t] = FALSE] \in Flags
      /\ \A t : [noted EXCEPT ![t] = FALSE] \in Flags
  BY Zenon DEF Scores, Learn!ClassicalMade, Learn!NoteMade, Learn!ForecastMade
<1>2. /\ \A t : Learn!ScoreMade(t) \in [Learn!Healthy -> {"none", "fresh", "stale"}]
      /\ \A t : [temporal EXCEPT ![t] = "stale"]
                   \in [Learn!Healthy -> {"none", "fresh", "stale"}]
  BY DEF Scores, Learn!ScoreMade
<1>3. enough' = enough \/ \E t : enough' = [enough EXCEPT ![t] = TRUE]
  BY ScoresWriters, Zenon DEF Learn!Refresh, Learn!File, Learn!Series, Learn!Score,
     Learn!AskScore, Learn!AskClassical, Learn!FileForRequest, Learn!HistoryGrows,
     Learn!ClassicalAges, Learn!TemporalAges, Learn!NoteAges
<1>4. \/ classical' = classical
      \/ \E t : classical' \in {Learn!ClassicalMade(t), [classical EXCEPT ![t] = FALSE]}
  BY ScoresWriters DEF Learn!Refresh, Learn!File, Learn!Series, Learn!Score,
     Learn!AskScore, Learn!AskClassical, Learn!FileForRequest, Learn!HistoryGrows,
     Learn!ClassicalAges, Learn!TemporalAges, Learn!NoteAges
<1>5. \/ temporal' = temporal
      \/ \E t : temporal' \in {Learn!ScoreMade(t), [temporal EXCEPT ![t] = "stale"]}
  BY ScoresWriters DEF Learn!Refresh, Learn!File, Learn!Series, Learn!Score,
     Learn!AskScore, Learn!AskClassical, Learn!FileForRequest, Learn!HistoryGrows,
     Learn!ClassicalAges, Learn!TemporalAges, Learn!NoteAges
<1>6. \/ noted' = noted
      \/ \E t : noted' \in {Learn!NoteMade(t), [noted EXCEPT ![t] = FALSE]}
  BY ScoresWriters DEF Learn!Refresh, Learn!File, Learn!Series, Learn!Score,
     Learn!AskScore, Learn!AskClassical, Learn!FileForRequest, Learn!HistoryGrows,
     Learn!ClassicalAges, Learn!TemporalAges, Learn!NoteAges
<1>7. predicted' = predicted \/ \E t : predicted' = Learn!ForecastMade(t)
  BY ScoresWriters DEF Learn!Refresh, Learn!File, Learn!Series, Learn!Score,
     Learn!AskScore, Learn!AskClassical, Learn!FileForRequest, Learn!HistoryGrows,
     Learn!ClassicalAges, Learn!TemporalAges, Learn!NoteAges, Learn!Recorded
<1>8. enough \in Flags /\ classical \in Flags /\ noted \in Flags /\ predicted \in Flags
  BY Zenon DEF Scores
<1> HIDE DEF Flags
<1>10. enough' \in Flags /\ classical' \in Flags /\ noted' \in Flags /\ predicted' \in Flags
  BY <1>1, <1>3, <1>4, <1>6, <1>7, <1>8
<1>9. temporal' \in [Learn!Healthy -> {"none", "fresh", "stale"}]
  BY <1>2, <1>5 DEF Scores
<1> QED
  BY <1>9, <1>10, Zenon DEF Scores, Flags

Leases ==
    /\ enabled \in Deployments
    /\ lease \in Machines \cup {Free}
    /\ lost \subseteq Machines
    /\ faults \in 0..MaxFaults

\* The lease has one holder at most.
LEMMA LeasesStep ==
    ASSUME Learn!LearningAssumption, Leases, Learn!Next
    PROVE  Leases'
<1>1. UNCHANGED enabled
  BY DEF Learn!Next
<1>2. faults' \in 0..MaxFaults
  <2>1. UNCHANGED faults \/ Learn!Faulted
    BY DEF Learn!Next, Learn!StartTick, Learn!TickStep, Learn!NextTenant, Learn!EndTick,
       Learn!RollupStep, Learn!Count, Learn!Write, Learn!Refresh, Learn!TrainingStep,
       Learn!Train, Learn!File, Learn!Series, Learn!Save, Learn!Replace, Learn!Score,
       Learn!Publish, Learn!Upload, Learn!StepFails, Learn!LoseLease, Learn!Crash,
       Learn!ServeRequest,
       Learn!CountForRequest, Learn!WriteForRequest, Learn!ReplaceForRequest,
       Learn!FileForRequest, Learn!ReadSignal, Learn!OverviewFails,
       Learn!ReadWindow, Learn!ReadFallback, Learn!Shown, Learn!Ask, Learn!AskAggregate,
       Learn!AskClassical, Learn!AskTrain, Learn!AskOverview, Learn!AskFit,
       Learn!AskScore, Learn!Time, Learn!HourTurns, Learn!RowArrives, Learn!LateRowCommits,
       Learn!PastAges, Learn!HistoryGrows, Learn!ClassicalAges, Learn!TemporalAges,
       Learn!NoteAges
  <2> QED
    BY <2>1 DEF Leases, Learn!Faulted, Learn!LearningAssumption
<1>3. lease' \in Machines \cup {Free} /\ lost' \subseteq Machines
  <2>1. \/ UNCHANGED <<lease, lost>>
        \/ \E m \in Machines :
              \/ \E worker : Learn!StartTick(m, worker)
              \/ Learn!EndTick(m) \/ Learn!LoseLease(m) \/ Learn!Crash(m)
    BY DEF Learn!Next, Learn!TickStep, Learn!NextTenant,
       Learn!RollupStep, Learn!Count, Learn!Write, Learn!Refresh, Learn!TrainingStep,
       Learn!Train, Learn!File, Learn!Series, Learn!Save, Learn!Replace, Learn!Score,
       Learn!Publish, Learn!Upload, Learn!StepFails, Learn!ServeRequest,
       Learn!CountForRequest, Learn!WriteForRequest, Learn!ReplaceForRequest,
       Learn!FileForRequest, Learn!ReadSignal, Learn!OverviewFails,
       Learn!ReadWindow, Learn!ReadFallback, Learn!Shown, Learn!Ask, Learn!AskAggregate,
       Learn!AskClassical, Learn!AskTrain, Learn!AskOverview, Learn!AskFit,
       Learn!AskScore, Learn!Time, Learn!HourTurns, Learn!RowArrives, Learn!LateRowCommits,
       Learn!PastAges, Learn!HistoryGrows, Learn!ClassicalAges, Learn!TemporalAges,
       Learn!NoteAges, Learn!loops
  <2> QED
    BY <2>1 DEF Leases, Learn!StartTick, Learn!EndTick, Learn!LoseLease, Learn!Crash
<1> QED
  BY <1>1, <1>2, <1>3 DEF Leases

-----------------------------------------------------------------------------
(* The overview.                                                           *)

\* What the overview has yet to find is there still, and is what it has yet to read.
Showing ==
    /\ request.step \in ViewSteps =>
          "overview" \in enabled /\ request.blank \subseteq Learn!ToShow(request.tenant)
    /\ request.step = "uptime" => request.blank \subseteq {"series", "uptime"} \cup request.failed
    /\ request.step \in {"window", "fallback"} =>
          request.blank \subseteq {"series"} \cup request.failed
    /\ request.step = "shown" => request.blank \subseteq request.failed

\* A series a tenant has does not vanish.
Series(t) == past[t] # "none" \/ \E h \in Learn!Hours : bucket[t][h] # MaxRows + 1

\* Not by the hour's turning nor by a rollup that writes its bucket again.
LEMMA SeriesStay ==
    ASSUME Learn!LearningAssumption, Stored, Ticking, Requesting, Learn!Next,
           "overview" \in enabled,
           NEW t \in Learn!Healthy, Series(t)
    PROVE  Series(t)'
<1> USE Bounds
<1>1. ASSUME NEW u, NEW h, NEW n \in 0..MaxRows, bucket' = [bucket EXCEPT ![u][h] = n],
             UNCHANGED past
      PROVE  Series(t)'
  BY <1>1 DEF Series, Stored
<1>2. ASSUME NEW m \in Machines, Learn!Write(m) PROVE Series(t)'
  <2>1. tick[m] \in Counts
    BY <1>2, JobHolds DEF Learn!Write, Learn!At, Ticking
  <2>2. tick[m].total \in 0..MaxRows
    BY <2>1 DEF Counts
  <2> QED
    BY <1>1, <1>2, <2>2 DEF Learn!Write, Learn!Stored
<1>3. CASE Learn!WriteForRequest
  <2>1. request \in Tallies
    BY <1>3, AskedHolds DEF Learn!WriteForRequest, Requesting
  <2>2. request.total \in 0..MaxRows
    BY <2>1 DEF Tallies
  <2> QED
    BY <1>1, <1>3, <2>2 DEF Learn!WriteForRequest, Learn!Stored
<1>4. CASE Learn!HourTurns
  <2>1. past'[t] = IF bucket[t]["previous"] # MaxRows + 1 THEN "recent" ELSE past[t]
    BY <1>4 DEF Learn!HourTurns
  <2>2. bucket'[t]["previous"] = bucket[t]["current"]
    BY <1>4 DEF Learn!HourTurns
  <2> QED
    BY <2>1, <2>2 DEF Series, Learn!Hours
<1>5. ASSUME NEW u \in Learn!Healthy, Learn!PastAges(u) PROVE Series(t)'
  BY <1>5 DEF Learn!PastAges, Series, Stored
<1>6. ASSUME UNCHANGED <<bucket, past>> PROVE Series(t)'
  BY <1>6 DEF Series
<1> QED
  BY HoursWriters, <1>2, <1>3, <1>4, <1>5, <1>6 DEF Learn!RowArrives, Learn!LateRowCommits

\* What there is to show of a tenant does not vanish: scores age and forecasts are
\* made again.
LEMMA ShowsStay ==
    ASSUME Learn!LearningAssumption, Stored, Ticking, Requesting, Scores, Learn!Next,
           "overview" \in enabled, NEW t \in Learn!Healthy
    PROVE  Learn!ToShow(t) \subseteq Learn!ToShow(t)'
<1>1. "series" \in Learn!ToShow(t) => "series" \in Learn!ToShow(t)'
  <2>1. "series" \in Learn!ToShow(t) => Series(t)
    BY Bounds DEF Learn!ToShow, Series
  <2>2. Series(t)' => "series" \in Learn!ToShow(t)'
    BY Bounds DEF Learn!ToShow, Series, Learn!Kinds
  <2> QED
    BY <2>1, <2>2, SeriesStay
<1>2. temporal[t] # "none" => temporal'[t] # "none"
  <2>1. \/ temporal' = temporal
        \/ \E u : temporal' \in {Learn!ScoreMade(u), [temporal EXCEPT ![u] = "stale"]}
    BY ScoresWriters DEF Learn!Refresh, Learn!File, Learn!Series, Learn!Score,
       Learn!AskScore, Learn!AskClassical, Learn!FileForRequest, Learn!HistoryGrows,
       Learn!ClassicalAges, Learn!TemporalAges, Learn!NoteAges
  <2> QED
    BY <2>1 DEF Scores, Learn!ScoreMade
<1>3. predicted[t] => predicted'[t]
  <2>1. predicted' = predicted \/ \E u : predicted' = Learn!ForecastMade(u)
    BY ScoresWriters DEF Learn!Refresh, Learn!File, Learn!Series, Learn!Score,
       Learn!AskScore, Learn!AskClassical, Learn!FileForRequest, Learn!HistoryGrows,
       Learn!ClassicalAges, Learn!TemporalAges, Learn!NoteAges, Learn!Recorded
  <2> QED
    BY <2>1, Zenon DEF Scores, Learn!ForecastMade
<1>4. /\ "temporal" \in Learn!ToShow(t) => "temporal" \in Learn!ToShow(t)'
      /\ "uptime" \in Learn!ToShow(t) => "uptime" \in Learn!ToShow(t)'
  BY <1>2, <1>3 DEF Learn!ToShow, Learn!Kinds
<1>5. Learn!ToShow(t) \subseteq {"series", "temporal", "uptime"}
  BY DEF Learn!ToShow, Learn!Kinds
<1> QED
  BY <1>1, <1>4, <1>5

\* A read of the overview finds what there is, or fails and says so.
LEMMA Finds ==
    ASSUME Requesting, request \in Views, Showing,
           Learn!ReadSignal \/ Learn!ReadWindow \/ Learn!ReadFallback
    PROVE  /\ request'.step # "temporal"
           /\ request'.step = "uptime" =>
                 request'.blank \subseteq {"series", "uptime"} \cup request'.failed
           /\ request'.step \in {"window", "fallback"} =>
                 request'.blank \subseteq {"series"} \cup request'.failed
           /\ request'.step = "shown" => request'.blank \subseteq request'.failed
<1> DEFINE r == request
<1>1. r.blank \subseteq Learn!Kinds /\ r.blank \subseteq Learn!ToShow(r.tenant)
  BY DEF Views, ViewSteps, Showing, Learn!ReadSignal, Learn!ReadWindow, Learn!ReadFallback
<1>2. CASE Learn!ReadSignal
  <2>1. r.step \in {"temporal", "uptime"}
    BY <1>2 DEF Learn!ReadSignal
  <2>2. r.step \in r.blank => Learn!Found(r.tenant, r.step)
    BY <1>1, <2>1 DEF Learn!ToShow, Learn!Found
  <2>3. /\ request'.step = Learn!AfterSignal(r.step)
        /\ \/ request'.blank = r.blank \ {r.step} /\ request'.failed = r.failed
           \/ request'.blank = r.blank /\ request'.failed = r.failed \cup {r.step}
    <3> DEFINE n == [r EXCEPT !.step = Learn!AfterSignal(r.step)]
    <3>1. /\ n.step = Learn!AfterSignal(r.step) /\ n.blank = r.blank /\ n.failed = r.failed
          /\ n \in [step: {n.step}, tenant: Learn!Healthy, blank: SUBSET Learn!Kinds,
                     failed: SUBSET {"temporal", "uptime"}]
      BY DEF Views
    <3>2. \/ request' = [n EXCEPT !.blank = @ \ {r.step}]
          \/ request' = n /\ ~Learn!Found(r.tenant, r.step)
          \/ request' = [n EXCEPT !.failed = @ \cup {r.step}]
      BY <1>2 DEF Learn!ReadSignal
    <3> HIDE DEF n
    <3>3. CASE request' = [n EXCEPT !.blank = @ \ {r.step}]
      BY <3>1, <3>3
    <3>4. CASE request' = n /\ ~Learn!Found(r.tenant, r.step)
      <4>1. r.blank = r.blank \ {r.step}
        BY <2>2, <3>4
      <4> QED
        BY <3>1, <3>4, <4>1
    <3>5. CASE request' = [n EXCEPT !.failed = @ \cup {r.step}]
      BY <3>1, <3>5
    <3> QED
      BY <3>2, <3>3, <3>4, <3>5
  <2>4. CASE r.step = "temporal"
    <3>1. r.blank \subseteq {"series", "temporal", "uptime"}
      BY <1>1 DEF Learn!Kinds
    <3> QED
      BY <2>3, <2>4, <3>1 DEF Learn!AfterSignal
  <2>5. CASE r.step = "uptime"
    <3>1. r.blank \subseteq {"series", "uptime"} \cup r.failed
      BY <2>5 DEF Showing
    <3> QED
      BY <2>3, <2>5, <3>1 DEF Learn!AfterSignal
  <2> QED
    BY <2>1, <2>4, <2>5
<1>3. CASE Learn!ReadWindow
  <2>1. r.blank \subseteq {"series"} \cup r.failed
    BY <1>3 DEF Learn!ReadWindow, Showing
  <2>2. \/ request'.step = "shown" /\ request'.blank = r.blank \ {"series"}
        \/ request'.step = "fallback" /\ request'.blank = r.blank
    BY <1>3 DEF Learn!ReadWindow, Views
  <2>3. request'.failed = r.failed
    BY <1>3 DEF Learn!ReadWindow, Views
  <2> QED
    BY <2>1, <2>2, <2>3
<1>4. CASE Learn!ReadFallback
  <2>1. r.blank \subseteq {"series"} \cup r.failed
    BY <1>4 DEF Learn!ReadFallback, Showing
  <2>2. "series" \in r.blank => Learn!AnyBucket(r.tenant)
    BY <1>1 DEF Learn!ToShow, Learn!AnyBucket, Learn!Bucketed
  <2>3. /\ request'.step = "shown" /\ request'.failed = r.failed
        /\ request'.blank = IF Learn!AnyBucket(r.tenant) THEN r.blank \ {"series"}
                                                         ELSE r.blank
    BY <1>4 DEF Learn!ReadFallback, Views
  <2> QED
    BY <2>1, <2>2, <2>3
<1> QED
  BY <1>2, <1>3, <1>4

\* Every step keeps it: a day without results is looked for further back, and a
\* read that fails hides nothing else.
LEMMA ShowingStep ==
    ASSUME Learn!LearningAssumption, Showing, Stored, Ticking, Requesting, Scores, Learn!Next
    PROVE  Showing'
<1>1. UNCHANGED enabled
  BY DEF Learn!Next
<1>0. ASSUME request.step \in ViewSteps, NEW t \in Learn!Healthy, t = request.tenant
      PROVE  "overview" \in enabled' /\ request.blank \subseteq Learn!ToShow(t)'
  <2>1. "overview" \in enabled /\ request.blank \subseteq Learn!ToShow(t)
    BY <1>0 DEF Showing
  <2>2. Learn!ToShow(t) \subseteq Learn!ToShow(t)'
    BY <2>1, ShowsStay
  <2> QED
    BY <1>1, <2>1, <2>2
<1>2. ASSUME UNCHANGED request PROVE Showing'
  <2>1. CASE request.step \in ViewSteps
    <3>1. request \in Views
      BY <2>1, AskedHolds DEF Requesting
    <3>2. PICK t \in Learn!Healthy : t = request.tenant
      BY <3>1 DEF Views
    <3>3. "overview" \in enabled' /\ request.blank \subseteq Learn!ToShow(t)'
      BY <1>0, <2>1, <3>2
    <3>4. Learn!ToShow(request.tenant)' = Learn!ToShow(t)'
      BY <1>2, <3>2
    <3> QED
      BY <1>2, <3>3, <3>4 DEF Showing
  <2>2. CASE request.step \notin ViewSteps
    BY <1>2, <2>2 DEF Showing, ViewSteps
  <2> QED
    BY <2>1, <2>2
<1>3. ASSUME request'.step \notin ViewSteps PROVE Showing'
  BY <1>3 DEF Showing, ViewSteps
<1>4. CASE Learn!HourTurns
  BY <1>2, <1>3, <1>4, AskedHolds DEF Learn!HourTurns, Learn!Older, Requesting, Tallies, ViewSteps
<1>5. ASSUME NEW t \in Learn!Healthy, Learn!AskOverview(t) PROVE Showing'
  <2>1. /\ request'.step = "temporal" /\ request'.tenant = t
        /\ request'.blank = Learn!ToShow(t) /\ "overview" \in enabled
    BY <1>5 DEF Learn!AskOverview
  <2>2. Learn!ToShow(t)' = Learn!ToShow(t)
    BY <1>5 DEF Learn!AskOverview, Learn!ToShow, Learn!hours, Learn!models
  <2> QED
    BY <1>1, <2>1, <2>2 DEF Showing
<1>6. CASE Learn!ReadSignal \/ Learn!ReadWindow \/ Learn!ReadFallback
  <2>1. /\ request \in Views /\ request' \in Views
        /\ request'.tenant = request.tenant /\ request'.step \in ViewSteps
        /\ request'.blank \subseteq request.blank
    BY <1>6, Reading
  <2>2. request.step \in ViewSteps
    BY <2>1 DEF Views, ViewSteps
  <2>3. PICK t \in Learn!Healthy : t = request.tenant
    BY <2>1 DEF Views
  <2>4. "overview" \in enabled' /\ request'.blank \subseteq Learn!ToShow(t)'
    BY <1>0, <2>1, <2>2, <2>3
  <2>5. Learn!ToShow(request.tenant)' = Learn!ToShow(t)'
    BY <2>1, <2>3
  <2> QED
    BY <1>6, <2>1, <2>4, <2>5, Finds DEF Showing
<1>7. ASSUME NEW m, Learn!Crash(m) PROVE Showing'
  BY <1>2, <1>3, <1>7 DEF Learn!Crash, Learn!Answer, Learn!Idle, ViewSteps
<1>8. ASSUME NEW m, NEW t, NEW f,
             Learn!AskAggregate(t) \/ Learn!AskFit(m, t) \/ Learn!AskTrain(m, t, f)
      PROVE  Showing'
  BY <1>3, <1>8 DEF Learn!AskAggregate, Learn!AskFit, Learn!AskTrain, ViewSteps
<1>9. CASE \/ Learn!WriteForRequest \/ Learn!ReplaceForRequest \/ Learn!FileForRequest
           \/ Learn!OverviewFails \/ Learn!Shown
  BY <1>3, <1>9 DEF Learn!WriteForRequest, Learn!ReplaceForRequest, Learn!FileForRequest,
     Learn!OverviewFails, Learn!Shown, Learn!Answer, Learn!Idle, ViewSteps
<1>10. CASE Learn!CountForRequest
  <2>1. request \in Tallies
    BY <1>10, AskedHolds DEF Learn!CountForRequest, Requesting
  <2>2. request'.step = "write"
    BY <1>10, <2>1 DEF Learn!CountForRequest, Learn!Counted, Tallies
  <2> QED
    BY <1>3, <2>2 DEF ViewSteps
<1> QED
  BY RequestWriters, <1>2, <1>4, <1>5, <1>6, <1>7, <1>8, <1>9, <1>10
  DEF Learn!ServeRequest

-----------------------------------------------------------------------------
(* The hour that is over.                                                  *)

Counting(j) == j.step \in {"count", "write"}

\* The previous hour of t is complete, and what is written for it is right.
Closed(t) ==
    \/ settled[t]
    \/ \E m \in Machines : Counting(tick[m]) /\ tick[m].tenant = t /\ tick[m].clean

Right(j) ==
    j.step = "write" /\ j.hour = "previous" => j.total = rows[j.tenant]["previous"]

Same(t) == bucket[t]["previous"] = rows[t]["previous"]

\* A count that was clean when it began makes every other count right, so the
\* last of them to be written cannot take rows away again.
Kept ==
    /\ \A t \in Learn!Healthy : Closed(t) => ~late[t]
    /\ \A m \in Machines : Counting(tick[m]) /\ Closed(tick[m].tenant) => Right(tick[m])
    /\ Counting(request) /\ Closed(request.tenant) => Right(request)
    /\ \A t \in Learn!Healthy : settled[t] => Same(t)
    /\ \A m \in Machines :
          Counting(tick[m]) /\ tick[m].clean /\ tick[m].hour = "current"
             => Same(tick[m].tenant)

\* A step that takes up no count, and writes none of the previous hour.
LEMMA NoCount ==
    ASSUME Kept, Ticking, Requesting,
           UNCHANGED <<late, settled>>,
           \A t \in Learn!Healthy : /\ rows'[t]["previous"] = rows[t]["previous"]
                                    /\ bucket'[t]["previous"] = bucket[t]["previous"],
           \A m \in Machines : tick'[m] = tick[m] \/ ~Counting(tick'[m]),
           request' = request \/ request'.step # "write"
    PROVE  Kept'
<1>1. ASSUME NEW t, Closed(t)' PROVE Closed(t)
  BY <1>1 DEF Closed, Counting
<1>2. ASSUME NEW m \in Machines, Counting(tick[m]) PROVE tick[m].tenant \in Learn!Healthy
  <2>1. tick[m] \in Counts
    BY <1>2, JobHolds DEF Counting, Ticking
  <2> QED
    BY <2>1 DEF Counts
<1>3. Counting(request) => request.tenant \in Learn!Healthy
  <2>1. Counting(request) => request \in Tallies
    BY AskedHolds DEF Counting, Requesting
  <2> QED
    BY <2>1 DEF Tallies
<1>4. \A t \in Learn!Healthy : Closed(t)' => ~late'[t]
  BY <1>1 DEF Kept
<1>5. ASSUME NEW m \in Machines, Counting(tick'[m]), Closed(tick[m].tenant)'
      PROVE  Right(tick[m])'
  BY <1>1, <1>2, <1>5 DEF Kept, Right, Counting
<1>6. Counting(request') /\ Closed(request.tenant)' => Right(request)'
  BY <1>1, <1>3 DEF Kept, Right, Counting
<1>7. \A t \in Learn!Healthy : settled'[t] => Same(t)'
  BY DEF Kept, Same
<1>8. ASSUME NEW m \in Machines, Counting(tick'[m]), tick'[m].clean,
             tick'[m].hour = "current"
      PROVE  Same(tick[m].tenant)'
  BY <1>2, <1>8 DEF Kept, Same, Counting
<1> QED
  BY <1>4, <1>5, <1>6, <1>7, <1>8 DEF Kept, Counting

\* A rollup begins: if its count is clean, no other count of the hour is out.
LEMMA Begins ==
    ASSUME Kept, Ticking, NEW m \in Machines, NEW t \in Learn!Healthy, NEW todo,
           UNCHANGED <<rows, late, bucket, settled, request>>,
           tick' = [tick EXCEPT ![m] = Learn!RollupOf(t, todo)],
           ~Counting(tick[m])
    PROVE  Kept'
<1> DEFINE k == Learn!RollupOf(t, todo)
<1>1. /\ k.step = "count" /\ k.tenant = t /\ k.hour = "previous"
      /\ k.clean = Learn!Complete(t)
  BY DEF Learn!RollupOf, Learn!FirstHour
<1>2. tick'[m] = k /\ \A n \in Machines \ {m} : tick'[n] = tick[n]
  BY DEF Ticking
<1> HIDE DEF k
<1>3. ASSUME NEW u, Closed(u)' PROVE Closed(u) \/ (u = t /\ Learn!Complete(t))
  BY <1>1, <1>2, <1>3 DEF Closed, Counting
<1>4. Learn!Complete(t) =>
         /\ ~late[t]
         /\ \A n \in Machines : Counting(tick[n]) /\ tick[n].tenant = t => Right(tick[n])
         /\ Counting(request) /\ request.tenant = t => Right(request)
  BY DEF Learn!Complete, Counting, Right
<1>5. \A u \in Learn!Healthy : Closed(u)' => ~late'[u]
  BY <1>3, <1>4 DEF Kept
<1>6. ASSUME NEW n \in Machines, Counting(tick'[n]), Closed(tick[n].tenant)'
      PROVE  Right(tick[n])'
  <2>1. CASE n = m
    BY <1>1, <1>2, <2>1 DEF Right
  <2>2. CASE n # m
    <3>1. tick'[n] = tick[n] /\ Right(tick[n])
      BY <1>2, <1>3, <1>4, <1>6, <2>2 DEF Kept
    <3> QED
      BY <3>1 DEF Right
  <2> QED
    BY <2>1, <2>2
<1>7. Counting(request') /\ Closed(request.tenant)' => Right(request)'
  BY <1>3, <1>4 DEF Kept, Right
<1>8. \A u \in Learn!Healthy : settled'[u] => Same(u)'
  BY DEF Kept, Same
<1>9. ASSUME NEW n \in Machines, Counting(tick'[n]), tick'[n].clean,
             tick'[n].hour = "current"
      PROVE  Same(tick[n].tenant)'
  BY <1>1, <1>2, <1>9 DEF Kept, Same
<1> QED
  BY <1>5, <1>6, <1>7, <1>8, <1>9 DEF Kept, Counting

\* A count is taken.
LEMMA Takes ==
    ASSUME Kept, Ticking, NEW m \in Machines, Learn!Count(m)
    PROVE  Kept'
<1> DEFINE k == Learn!Counted(tick[m])
<1>1. tick[m] \in Counts
  BY JobHolds DEF Learn!Count, Learn!At, Ticking
<1>2. /\ k.step = "write" /\ k.tenant = tick[m].tenant /\ k.hour = tick[m].hour
      /\ k.clean = tick[m].clean /\ k.total = rows[tick[m].tenant][tick[m].hour]
  BY <1>1 DEF Learn!Counted, Counts
<1>3. tick'[m] = k /\ \A n \in Machines \ {m} : tick'[n] = tick[n]
  BY DEF Learn!Count, Ticking
<1>4. UNCHANGED <<rows, late, bucket, settled, request>>
  BY DEF Learn!Count, Learn!hours
<1> HIDE DEF k
<1>5. Counting(tick[m])
  BY <1>1 DEF Counts, Counting
<1>6. ASSUME NEW u, Closed(u)' PROVE Closed(u)
  BY <1>2, <1>3, <1>4, <1>5, <1>6 DEF Closed
<1>7. \A u \in Learn!Healthy : Closed(u)' => ~late'[u]
  BY <1>4, <1>6 DEF Kept
<1>8. ASSUME NEW n \in Machines, Counting(tick'[n]), Closed(tick[n].tenant)'
      PROVE  Right(tick[n])'
  <2>1. CASE n = m
    BY <1>2, <1>3, <1>4, <2>1 DEF Right
  <2>2. CASE n # m
    <3>1. tick'[n] = tick[n] /\ Right(tick[n])
      BY <1>3, <1>6, <1>8, <2>2 DEF Kept
    <3> QED
      BY <1>4, <3>1 DEF Right
  <2> QED
    BY <2>1, <2>2
<1>9. Counting(request') /\ Closed(request.tenant)' => Right(request)'
  BY <1>4, <1>6 DEF Kept, Right
<1>10. \A u \in Learn!Healthy : settled'[u] => Same(u)'
  BY <1>4 DEF Kept, Same
<1>11. ASSUME NEW n \in Machines, Counting(tick'[n]), tick'[n].clean,
              tick'[n].hour = "current"
       PROVE  Same(tick[n].tenant)'
  BY <1>2, <1>3, <1>4, <1>5, <1>11 DEF Kept, Same
<1> QED
  BY <1>7, <1>8, <1>9, <1>10, <1>11 DEF Kept, Counting

\* So is one by hand.
LEMMA TakesForRequest ==
    ASSUME Kept, Requesting, Learn!CountForRequest
    PROVE  Kept'
<1>1. request \in Tallies
  BY AskedHolds DEF Learn!CountForRequest, Requesting
<1>2. /\ request'.step = "write" /\ request'.tenant = request.tenant
      /\ request'.hour = request.hour
      /\ request'.total = rows[request.tenant][request.hour]
  BY <1>1 DEF Learn!CountForRequest, Learn!Counted, Tallies
<1>3. UNCHANGED <<rows, late, bucket, settled, tick>>
  BY DEF Learn!CountForRequest, Learn!hours, Learn!loops
<1>4. Right(request)'
  BY <1>2, <1>3 DEF Right
<1> QED
  BY <1>3, <1>4 DEF Kept, Closed, Same, Right

\* A count is stored.
LEMMA Stores ==
    ASSUME Learn!LearningAssumption, Kept, Ticking, Requesting, Stored,
           NEW m \in Machines, Learn!Write(m)
    PROVE  Kept'
<1>1. PICK j \in Counts : j = tick[m]
  BY JobHolds DEF Learn!Write, Learn!At, Ticking
<1>2. /\ j.tenant \in Learn!Healthy /\ j.hour \in {"previous", "current"}
      /\ j.step = "write" /\ j.clean \in BOOLEAN
  BY <1>1 DEF Counts, Learn!Hours, Learn!Write, Learn!At
<1>3. /\ \A n \in Machines \ {m} : tick'[n] = tick[n]
      /\ j.hour = "previous" =>
            /\ tick'[m].step = "count" /\ tick'[m].tenant = j.tenant
            /\ tick'[m].clean = j.clean
      /\ j.hour = "current" => tick'[m].step = "refresh"
  <2>1. CASE j.hour = "previous"
    <3>1. PICK n : n = [j EXCEPT !.step = "count", !.hour = "current", !.total = 0]
      OBVIOUS
    <3>2. n.step = "count" /\ n.tenant = j.tenant /\ n.clean = j.clean
      BY <3>1, Afresh
    <3>3. tick' = [tick EXCEPT ![m] = n]
      BY <1>1, <2>1, <3>1 DEF Learn!Write
    <3> QED
      BY <2>1, <3>2, <3>3 DEF Ticking
  <2>2. CASE j.hour = "current"
    BY <1>1, <2>2 DEF Learn!Write, Ticking
  <2> QED
    BY <1>2, <2>1, <2>2
<1>4. UNCHANGED <<rows, late, request>>
  BY DEF Learn!Write
<1>5. ASSUME NEW u \in Learn!Healthy
      PROVE  bucket'[u]["previous"] = IF u = j.tenant /\ j.hour = "previous"
                                      THEN j.total ELSE bucket[u]["previous"]
  BY <1>1, <1>2 DEF Learn!Write, Learn!Stored, Stored, Learn!Hours
<1>6. ASSUME NEW u \in Learn!Healthy, settled'[u]
      PROVE  settled[u] \/ (u = j.tenant /\ j.clean /\ j.hour = "current")
  <2>1. CASE j.hour = "previous"
    BY <1>1, <1>6, <2>1 DEF Learn!Write
  <2>2. CASE j.hour = "current"
    <3>1. settled' = [settled EXCEPT ![j.tenant] = settled[j.tenant] \/ j.clean]
      BY <1>1, <2>2 DEF Learn!Write
    <3>2. settled \in [Learn!Healthy -> BOOLEAN]
      BY Zenon DEF Stored
    <3>3. settled'[u] = IF u = j.tenant THEN settled[j.tenant] \/ j.clean ELSE settled[u]
      BY <3>1, <3>2, Zenon
    <3> QED
      BY <1>6, <2>2, <3>3, Zenon
  <2> QED
    BY <1>2, <2>1, <2>2
<1>7. ASSUME NEW u \in Learn!Healthy, Closed(u)' PROVE Closed(u)
  <2>1. CASE settled'[u]
    BY <1>1, <1>2, <1>6, <2>1 DEF Closed, Counting
  <2>2. ASSUME NEW n \in Machines, Counting(tick'[n]), tick'[n].tenant = u, tick'[n].clean
        PROVE  Closed(u)
    BY <1>1, <1>2, <1>3, <2>2 DEF Closed, Counting
  <2> QED
    BY <1>7, <2>1, <2>2 DEF Closed
<1>8. Closed(j.tenant) => Right(j)
  BY <1>1, <1>2 DEF Kept, Counting
<1>9. ASSUME NEW u \in Learn!Healthy, Closed(u), Same(u) \/ (u = j.tenant /\ j.hour = "previous")
      PROVE  Same(u)'
  BY <1>2, <1>4, <1>5, <1>8, <1>9 DEF Same, Right
<1>10. \A u \in Learn!Healthy : Closed(u)' => ~late'[u]
  BY <1>4, <1>7 DEF Kept
<1>11. ASSUME NEW n \in Machines, Counting(tick'[n]) PROVE tick'[n].tenant \in Learn!Healthy
  <2>1. CASE n = m
    BY <1>2, <1>3, <1>11, <2>1 DEF Counting
  <2>2. CASE n # m
    <3>1. tick[n] \in Counts
      BY <1>3, <1>11, <2>2, JobHolds DEF Counting, Ticking
    <3> QED
      BY <1>3, <2>2, <3>1 DEF Counts
  <2> QED
    BY <2>1, <2>2
<1>12. ASSUME NEW n \in Machines, Counting(tick'[n]), Closed(tick[n].tenant)'
       PROVE  Right(tick[n])'
  <2>1. CASE n = m
    BY <1>2, <1>3, <1>12, <2>1 DEF Right, Counting
  <2>2. CASE n # m
    <3>1. tick'[n] = tick[n] /\ Right(tick[n])
      BY <1>3, <1>7, <1>11, <1>12, <2>2 DEF Kept
    <3> QED
      BY <1>4, <3>1 DEF Right
  <2> QED
    BY <2>1, <2>2
<1>13. Counting(request') /\ Closed(request.tenant)' => Right(request)'
  <2>1. Counting(request) => request \in Tallies
    BY AskedHolds DEF Counting, Requesting
  <2>2. Counting(request) => request.tenant \in Learn!Healthy
    BY <2>1 DEF Tallies
  <2> QED
    BY <1>4, <1>7, <2>2 DEF Kept, Right
<1>14. \A u \in Learn!Healthy : settled'[u] => Same(u)'
  <2>1. ASSUME NEW u \in Learn!Healthy, settled'[u] PROVE Closed(u) /\ Same(u)
    BY <1>1, <1>2, <1>6, <2>1 DEF Kept, Closed, Counting
  <2> QED
    BY <1>9, <2>1
<1>15. ASSUME NEW n \in Machines, Counting(tick'[n]), tick'[n].clean,
              tick'[n].hour = "current"
       PROVE  Same(tick[n].tenant)'
  <2>1. CASE n = m
    <3>1. j.hour = "previous" /\ Closed(j.tenant) /\ tick'[m].tenant = j.tenant
      BY <1>1, <1>2, <1>3, <1>15, <2>1 DEF Counting, Closed
    <3> QED
      BY <1>2, <1>9, <2>1, <3>1 DEF Same
  <2>2. CASE n # m
    <3>1. tick'[n] = tick[n] /\ Same(tick[n].tenant) /\ Closed(tick[n].tenant)
      BY <1>3, <1>15, <2>2 DEF Kept, Closed
    <3> QED
      BY <1>9, <1>11, <1>15, <3>1 DEF Same
  <2> QED
    BY <2>1, <2>2
<1> QED
  BY <1>10, <1>12, <1>13, <1>14, <1>15 DEF Kept, Counting

\* So is one by hand, in the hour under way or the one it has become.
LEMMA StoresForRequest ==
    ASSUME Kept, Ticking, Requesting, Stored, Learn!WriteForRequest
    PROVE  Kept'
<1>1. request \in Tallies /\ request.step = "write"
  BY AskedHolds DEF Learn!WriteForRequest, Requesting
<1>2. request.tenant \in Learn!Healthy /\ request.hour \in {"previous", "current"}
  BY <1>1 DEF Tallies, Learn!Hours
<1>3. UNCHANGED <<rows, late, settled, tick>> /\ request'.step = "idle"
  BY DEF Learn!WriteForRequest, Learn!loops, Learn!Answer, Learn!Idle
<1>4. ASSUME NEW u \in Learn!Healthy
      PROVE  bucket'[u]["previous"] =
                IF u = request.tenant /\ request.hour = "previous"
                THEN request.total ELSE bucket[u]["previous"]
  BY <1>2 DEF Learn!WriteForRequest, Learn!Stored, Stored, Learn!Hours
<1>5. Closed(request.tenant) => Right(request)
  BY <1>1 DEF Kept, Counting
<1>6. ASSUME NEW u \in Learn!Healthy, Closed(u), Same(u) PROVE Same(u)'
  BY <1>1, <1>3, <1>4, <1>5, <1>6 DEF Same, Right
<1>7. \A u \in Learn!Healthy : settled[u] => Same(u)'
  BY <1>6 DEF Kept, Closed
<1>8. ASSUME NEW n \in Machines, Counting(tick[n]), tick[n].clean, tick[n].hour = "current"
      PROVE  Same(tick[n].tenant)'
  <2>1. tick[n] \in Counts
    BY <1>8, JobHolds DEF Counting, Ticking
  <2>2. PICK u \in Learn!Healthy : u = tick[n].tenant
    BY <2>1 DEF Counts
  <2>3. Closed(u) /\ Same(u)
    BY <1>8, <2>2 DEF Kept, Closed
  <2>4. Same(u)'
    BY <1>6, <2>3
  <2> QED
    BY <1>3, <2>2, <2>4 DEF Same
<1> QED
  BY <1>3, <1>7, <1>8 DEF Kept, Closed, Right, Counting, Same

\* While a transaction is still to commit nothing counts as the whole hour.
LEMMA Commits ==
    ASSUME Kept, Ticking, Requesting, Stored, NEW t \in Learn!Healthy, Learn!LateRowCommits(t)
    PROVE  Kept'
<1>1. /\ late[t] /\ late' = [late EXCEPT ![t] = FALSE]
      /\ UNCHANGED <<bucket, settled, tick, request>>
  BY DEF Learn!LateRowCommits, Learn!loops
<1>2. ~Closed(t)
  BY <1>1 DEF Kept
<1>3. ASSUME NEW u \in Learn!Healthy \ {t} PROVE rows'[u]["previous"] = rows[u]["previous"]
  BY DEF Learn!LateRowCommits, Stored
<1>4. ASSUME NEW u, Closed(u)' PROVE Closed(u) /\ u # t
  BY <1>1, <1>2, <1>4 DEF Closed
<1>5. \A u \in Learn!Healthy : Closed(u)' => ~late'[u]
  <2>1. late \in [Learn!Healthy -> BOOLEAN]
    BY Zenon DEF Stored
  <2>2. \A u \in Learn!Healthy \ {t} : late'[u] = late[u]
    BY <1>1, <2>1, Zenon
  <2> QED
    BY <1>4, <2>2 DEF Kept
<1>6. ASSUME NEW n \in Machines, Counting(tick[n]) PROVE tick[n].tenant \in Learn!Healthy
  <2>1. tick[n] \in Counts
    BY <1>6, JobHolds DEF Counting, Ticking
  <2> QED
    BY <2>1 DEF Counts
<1>7. Counting(request) => request.tenant \in Learn!Healthy
  <2>1. Counting(request) => request \in Tallies
    BY AskedHolds DEF Counting, Requesting
  <2> QED
    BY <2>1 DEF Tallies
<1>8. ASSUME NEW n \in Machines, Counting(tick'[n]), Closed(tick[n].tenant)'
      PROVE  Right(tick[n])'
  BY <1>1, <1>3, <1>4, <1>6, <1>8 DEF Kept, Right
<1>9. Counting(request') /\ Closed(request.tenant)' => Right(request)'
  BY <1>1, <1>3, <1>4, <1>7 DEF Kept, Right
<1>10. ASSUME NEW u \in Learn!Healthy, settled'[u] PROVE Same(u)'
  BY <1>1, <1>2, <1>3, <1>10 DEF Kept, Same, Closed
<1>11. ASSUME NEW n \in Machines, Counting(tick'[n]), tick'[n].clean,
              tick'[n].hour = "current"
       PROVE  Same(tick[n].tenant)'
  <2>1. tick[n].tenant # t
    BY <1>1, <1>2, <1>11 DEF Closed
  <2> QED
    BY <1>1, <1>3, <1>6, <1>11, <2>1 DEF Kept, Same
<1> QED
  BY <1>5, <1>8, <1>9, <1>10, <1>11 DEF Kept, Counting

\* With the hour, whatever was settled about the one before is forgotten.
LEMMA Turns ==
    ASSUME Ticking, Requesting, Learn!HourTurns
    PROVE  Kept'
<1>1. \A t \in Learn!Healthy : ~settled'[t]
  BY DEF Learn!HourTurns
<1>2. ASSUME NEW m \in Machines, Counting(tick'[m]) PROVE ~tick'[m].clean
  <2>1. tick'[m] = Learn!OlderTick(tick[m])
    BY DEF Learn!HourTurns
  <2>2. CASE tick[m].step \in {"count", "write"}
    <3>1. tick[m] \in Counts
      BY <2>2, JobHolds DEF Ticking
    <3> QED
      BY <2>1, <2>2, <3>1 DEF Learn!OlderTick, Counts
  <2> QED
    BY <1>2, <2>1, <2>2 DEF Learn!OlderTick, Counting
<1>3. ASSUME NEW t \in Learn!Healthy PROVE ~Closed(t)'
  BY <1>1, <1>2 DEF Closed, Counting
<1>4. ASSUME NEW m \in Machines, Counting(tick'[m]) PROVE tick'[m].tenant \in Learn!Healthy
  <2>1. tick'[m] = Learn!OlderTick(tick[m])
    BY DEF Learn!HourTurns
  <2>2. tick[m].step \in {"count", "write"}
    BY <1>4, <2>1 DEF Learn!OlderTick, Counting
  <2>3. tick[m] \in Counts
    BY <2>2, JobHolds DEF Ticking
  <2> QED
    BY <2>1, <2>2, <2>3 DEF Learn!OlderTick, Counts
<1>5. ASSUME Counting(request') PROVE request'.tenant \in Learn!Healthy
  <2>1. request' = Learn!Older(request)
    BY DEF Learn!HourTurns
  <2>2. request.step \in {"count", "write"}
    BY <1>5, <2>1 DEF Learn!Older, Counting
  <2>3. request \in Tallies
    BY <1>5, <2>2, AskedHolds DEF Requesting
  <2> QED
    BY <2>1, <2>2, <2>3 DEF Learn!Older, Tallies
<1> QED
  BY <1>1, <1>2, <1>3, <1>4, <1>5 DEF Kept, Counting

\* Every step keeps counts right.
LEMMA KeptStep ==
    ASSUME Learn!LearningAssumption, Kept, Ticking, Requesting, Stored, Learn!Next
    PROVE  Kept'
<1>1. CASE \E m \in Machines : Learn!Write(m) \/ Learn!Count(m)
  BY <1>1, Stores, Takes
<1>2. CASE Learn!WriteForRequest \/ Learn!CountForRequest \/ Learn!HourTurns
  BY <1>2, StoresForRequest, TakesForRequest, Turns
<1>3. CASE \E t \in Learn!Healthy : Learn!LateRowCommits(t)
  BY <1>3, Commits
<1>4. ASSUME NEW m \in Machines, NEW t \in Learn!Healthy, Learn!NextTenant(m),
             tick' = [tick EXCEPT ![m] = Learn!RollupOf(t, tick[m].todo \ {t})]
      PROVE  Kept'
  <2>1. UNCHANGED <<rows, late, bucket, settled, request>> /\ ~Counting(tick[m])
    BY <1>4 DEF Learn!NextTenant, Learn!hours, Counting
  <2> QED
    BY <1>4, <2>1, Begins
<1>5. CASE /\ ~ \E m \in Machines : Learn!Write(m) \/ Learn!Count(m)
           /\ ~Learn!WriteForRequest /\ ~Learn!CountForRequest /\ ~Learn!HourTurns
           /\ ~ \E t \in Learn!Healthy : Learn!LateRowCommits(t)
           /\ ~ \E m \in Machines, t \in Learn!Healthy :
                   /\ Learn!NextTenant(m)
                   /\ tick' = [tick EXCEPT ![m] = Learn!RollupOf(t, tick[m].todo \ {t})]
  <2>1. /\ UNCHANGED <<late, settled>>
        /\ \A t \in Learn!Healthy : /\ rows'[t]["previous"] = rows[t]["previous"]
                                    /\ bucket'[t]["previous"] = bucket[t]["previous"]
    <3>1. ASSUME NEW t \in Learn!Healthy, Learn!RowArrives(t)
          PROVE  /\ UNCHANGED <<late, settled, bucket>>
                 /\ \A u \in Learn!Healthy : rows'[u]["previous"] = rows[u]["previous"]
      BY <3>1 DEF Learn!RowArrives, Stored, Learn!Hours
    <3> QED
      BY <1>5, <3>1, HoursWriters DEF Learn!PastAges
  <2>2. ASSUME NEW n \in Machines PROVE tick'[n] = tick[n] \/ ~Counting(tick'[n])
    <3>1. ASSUME NEW m \in Machines, NEW j, tick' = [tick EXCEPT ![m] = j], ~Counting(j)
          PROVE  tick'[n] = tick[n] \/ ~Counting(tick'[n])
      BY <3>1 DEF Ticking
    <3>2. ASSUME NEW m \in Machines, NEW todo, Learn!TurnTo(m, todo)
          PROVE  tick'[n] = tick[n] \/ ~Counting(tick'[n])
      BY <3>1, <3>2 DEF Learn!TurnTo, Counting
    <3>3. ASSUME NEW m \in Machines, NEW worker, Learn!StartTick(m, worker)
          PROVE  tick'[n] = tick[n] \/ ~Counting(tick'[n])
      BY <3>1, <3>3 DEF Learn!StartTick, Counting
    <3>4. ASSUME NEW m \in Machines, Learn!EndTick(m) \/ Learn!Crash(m)
          PROVE  tick'[n] = tick[n] \/ ~Counting(tick'[n])
      BY <3>1, <3>4 DEF Learn!EndTick, Learn!Crash, Learn!Idle, Counting
    <3>5. ASSUME NEW m \in Machines, Learn!StepFails(m) \/ Learn!Refresh(m)
          PROVE  tick'[n] = tick[n] \/ ~Counting(tick'[n])
      BY <3>2, <3>5 DEF Learn!StepFails, Learn!Refresh
    <3>6. ASSUME NEW m \in Machines, Learn!TrainingStep(m)
          PROVE  tick'[n] = tick[n] \/ ~Counting(tick'[n])
      <4>1. ASSUME NEW job, tick' = [tick EXCEPT ![m] = job],
                   job.step \notin {"count", "write"}
            PROVE  tick'[n] = tick[n] \/ ~Counting(tick'[n])
        BY <3>1, <4>1 DEF Counting
      <4>2. CASE Learn!Train(m) \/ Learn!File(m)
        <5>1. tick[m] \in Auxiliary
          BY <4>2, JobHolds DEF Learn!Train, Learn!File, Learn!At, Ticking
        <5>2. /\ [tick[m] EXCEPT !.step = "file"].step = "file"
              /\ [tick[m] EXCEPT !.step = "train", !.family = "threat"].step = "train"
          BY <5>1 DEF Auxiliary
        <5>3. Learn!AfterModel(tick[m]).step \in {"train", "series"}
          BY <5>2 DEF Learn!AfterModel
        <5> QED
          BY <4>1, <4>2, <5>2, <5>3 DEF Learn!Train, Learn!File, Learn!Goto, Learn!LeaveModel
      <4>3. CASE Learn!Series(m) \/ Learn!Save(m) \/ Learn!Replace(m) \/ Learn!Score(m)
        <5>1. tick[m] \in Trains
          BY <4>3, JobHolds DEF Learn!Series, Learn!Save, Learn!Replace, Learn!Score,
             Learn!At, Ticking
        <5>2. PICK next \in {"save", "replace", "score", "publish"} :
                 Learn!Goto(m, tick[m], next)
          BY <4>3 DEF Learn!Series, Learn!Save, Learn!Replace, Learn!Score
        <5>3. [tick[m] EXCEPT !.step = next].step = next
          BY <5>1 DEF Trains
        <5> QED
          BY <4>1, <5>2, <5>3 DEF Learn!Goto
      <4>4. CASE Learn!Publish(m)
        BY <4>1, <4>4 DEF Learn!Publish
      <4>5. CASE Learn!Upload(m)
        <5>1. tick[m] \in Uploads
          BY <4>5, JobHolds DEF Learn!Upload, Learn!At, Ticking
        <5>2. ASSUME NEW f PROVE [tick[m] EXCEPT !.left = @ \ {f}].step = "upload"
          BY <5>1 DEF Uploads
        <5> QED
          BY <3>2, <4>1, <4>5, <5>2 DEF Learn!Upload
      <4> QED
        BY <3>6, <4>2, <4>3, <4>4, <4>5 DEF Learn!TrainingStep
    <3>7. ASSUME NEW m \in Machines, Learn!NextTenant(m)
          PROVE  tick'[n] = tick[n] \/ ~Counting(tick'[n])
      <4>1. ASSUME NEW t, tick' = [tick EXCEPT ![m] = Learn!TrainingOf(t, tick[m].todo \ {t})]
            PROVE  tick'[n] = tick[n] \/ ~Counting(tick'[n])
        BY <3>1, <4>1 DEF Learn!TrainingOf, Counting
      <4> QED
        BY <1>5, <3>2, <3>7, <4>1 DEF Learn!NextTenant
    <3> QED
      BY <1>5, <3>3, <3>4, <3>5, <3>6, <3>7, TickWriters
      DEF Learn!TickStep, Learn!RollupStep
  <2>3. request' = request \/ request'.step # "write"
    <3>1. CASE Learn!ReadSignal \/ Learn!ReadWindow \/ Learn!ReadFallback
      BY <3>1, Reading DEF ViewSteps
    <3> QED
      BY <1>5, <3>1, RequestWriters DEF Learn!ServeRequest, Learn!ReplaceForRequest,
         Learn!FileForRequest, Learn!OverviewFails, Learn!Shown, Learn!Answer, Learn!Idle,
         Learn!Crash, Learn!AskAggregate, Learn!AskOverview, Learn!AskFit, Learn!AskTrain
  <2> QED
    BY <2>1, <2>2, <2>3, NoCount
<1> QED
  BY <1>1, <1>2, <1>3, <1>4, <1>5

-----------------------------------------------------------------------------
(* The theorems.                                                           *)

\* The inductive invariant: what is stored, the models' files, what the overview
\* still has to show, and that a complete hour is only counted right.
LearnInv ==
    /\ Ticking /\ Requesting /\ Stored /\ Files /\ Scores /\ Leases
    /\ Showing /\ Kept

\* It holds at first: nothing is stored and nobody works.
LEMMA LearnInit ==
    ASSUME Learn!LearningAssumption, Learn!Init
    PROVE  LearnInv
<1> USE Bounds
<1>1. Ticking /\ Requesting
  BY JobKinds, AskedKinds DEF Learn!Init, Ticking, Requesting
<1>2. Stored
  BY DEF Learn!Init, Stored, Learn!Hours
<1>3. Files
  BY DEF Learn!Init, Files, States, Learn!Families
<1>4. Scores
  BY DEF Learn!Init, Scores
<1>5. Leases
  BY DEF Learn!Init, Leases, Learn!LearningAssumption
<1>6. Showing /\ Kept
  BY DEF Learn!Init, Learn!Idle, Showing, ViewSteps, Kept, Closed, Counting
<1> QED
  BY <1>1, <1>2, <1>3, <1>4, <1>5, <1>6 DEF LearnInv

\* Every step keeps it.
LEMMA LearnStep ==
    ASSUME Learn!LearningAssumption, LearnInv, [Learn!Next]_Learn!vars
    PROVE  LearnInv'
<1>1. CASE Learn!Next
  <2>1. rows \in [Learn!Healthy -> [Learn!Hours -> 0..MaxRows]]
    BY DEF LearnInv, Stored
  <2> QED
    BY <1>1, <2>1, TickingStep, RequestingStep, StoredStep, FilesStep, ScoresStep,
       LeasesStep, ShowingStep, KeptStep DEF LearnInv
<1>2. CASE UNCHANGED Learn!vars
  BY <1>2 DEF Learn!vars, Learn!hours, Learn!models, Learn!loops, LearnInv, Ticking,
     Requesting, Stored, Files, Scores, Leases, Showing, Learn!ToShow, Kept, Closed,
     Counting, Right, Same
<1> QED
  BY <1>1, <1>2

\* So it always holds.
LEMMA LearnAlways == Learn!Spec => []LearnInv
<1>0. Learn!LearningAssumption
  BY LearningAssumption DEF Learn!LearningAssumption, Learn!Activities, Activities,
     Learn!Families, Families
<1>1. Learn!Init => LearnInv
  BY <1>0, LearnInit
<1>2. LearnInv /\ [Learn!Next]_Learn!vars => LearnInv'
  BY <1>0, LearnStep
<1> QED
  BY <1>1, <1>2, PTL DEF Learn!Spec

\* Workers and requests hold what their next step needs, and every table, score
\* and file keeps its type.
THEOREM LearningTyped == Learn!Spec => []Learn!TypeOK
<1>0. Learn!LearningAssumption
  BY LearningAssumption DEF Learn!LearningAssumption, Learn!Activities, Activities,
     Learn!Families, Families
<1>1. LearnInv => Learn!TypeOK
  <2>1. LearnInv => Files /\ Stored /\ Ticking /\ Requesting /\ Leases /\ Scores
    BY DEF LearnInv
  <2>2. Files =>
           /\ disk \in [Machines ->
                          [Learn!Healthy -> [Learn!Families -> {"none", "part", "whole"}]]]
           /\ hub \in [Learn!Healthy -> [Learn!Families -> {"none", "part", "whole"}]]
    BY DEF Files, States
  <2>3. Stored => /\ rows \in [Learn!Healthy -> [Learn!Hours -> 0..MaxRows]]
                  /\ bucket \in [Learn!Healthy -> [Learn!Hours -> 0..Learn!Missing]]
                  /\ late \in [Learn!Healthy -> BOOLEAN]
                  /\ settled \in [Learn!Healthy -> BOOLEAN]
                  /\ past \in [Learn!Healthy -> {"none", "recent", "old"}]
    BY <1>0, Bounds, Zenon DEF Stored
  <2> QED
    BY <2>1, <2>2, <2>3, Zenon DEF Learn!TypeOK, Ticking, Requesting, Leases, Scores
<1> QED
  BY <1>1, LearnAlways, PTL

\* The temporal model is never published half written, whoever fits and saves on
\* the machine and wherever a crash cuts in, whatever happens to the files of the
\* other families (ml/norse_ssn.py: _save_checkpoint).
THEOREM ModelsWhole == Learn!Spec => []TemporalPublishedWhole
<1>1. LearnInv => TemporalPublishedWhole
  BY DEF LearnInv, Files, TemporalPublishedWhole, Healthy, Learn!Healthy
<1> QED
  BY <1>1, LearnAlways, PTL

\* Of all there was to show when it was asked for, the overview leaves out nothing
\* but a forecast whose own read failed (services/analytics.py: overview,
\* _latest_temporal_signal and _latest_predicted_sla).
THEOREM OverviewFull == Learn!Spec => []NeverBlankAgain
<1>1. LearnInv => NeverBlankAgain
  BY DEF LearnInv, Showing, NeverBlankAgain
<1> QED
  BY <1>1, LearnAlways, PTL

\* When an hour can no longer be rolled up, its bucket holds every row it had,
\* however the counts of it raced (analytics_worker.py).
THEOREM ClosedWhole == Learn!Spec => ClosedHoursWhole
<1>1. ASSUME LearnInv, HourTurns, NEW t \in Healthy, rows[t]["previous"] > 0
      PROVE  bucket[t]["previous"] = rows[t]["previous"]
  <2>1. settled[t]
    BY <1>1 DEF HourTurns
  <2>2. t \in Learn!Healthy
    BY DEF Healthy, Learn!Healthy
  <2> QED
    BY <1>1, <2>1, <2>2 DEF LearnInv, Kept, Same
<1>2. LearnInv =>
         [HourTurns => \A t \in Healthy :
             rows[t]["previous"] > 0 => bucket[t]["previous"] = rows[t]["previous"]]_hours
  BY <1>1
<1> QED
  BY <1>2, LearnAlways, PTL DEF ClosedHoursWhole

=============================================================================
