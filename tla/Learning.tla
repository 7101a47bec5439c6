------------------------------ MODULE Learning ------------------------------
(***************************************************************************)
(* What the platform learns from the results it stored: the worker that    *)
(* rolls them up hour by hour and refreshes the classical anomaly scores,  *)
(* the worker that retrains and publishes a tenant's models, the requests  *)
(* that do the same by hand, and the overview that shows the outcome.      *)
(* Each machine runs both workers; a lease in the database is to keep a    *)
(* worker to one machine at a time, and is lost with its connection.       *)
(***************************************************************************)
EXTENDS LearningState

vars == <<enabled, hours, models, loops, request, faults>>

Workers == {"rollup", "training"}

Busy(m) == tick[m].step # "idle"

\* What the overview shows.
Kinds == {"series", "temporal", "uptime"}

\* Something goes wrong.
Faulted == faults < MaxFaults /\ faults' = faults + 1

-----------------------------------------------------------------------------
(* The lease, and whose turn it is.                                        *)

Leased(m) == lease = Free

\* The look-back of two hours covers the hour under way and the one before.
Active == {t \in Healthy : \E h \in Hours : rows[t][h] > 0}

Due == {t \in Healthy :
            temporal[t] # "fresh" /\ ~noted[t]}

\* Exports keep further tenants warm; a faulty tenant may always be there.
ToVisit(worker) ==
    IF worker = "rollup" THEN {S \in SUBSET Tenants : Active \subseteq S}
                         ELSE {Due \cup S : S \in SUBSET Faulty}

\* The two workers touch different rows and different files, so their ticks
\* commute: the model lets only one of them be at work at a time.
StartTick(m, worker) ==
    /\ ~Busy(m) /\ m \in enabled
    /\ \A n \in Machines : Busy(n) => tick[n].worker = worker
    /\ Leased(m)
    /\ lease' = m
    /\ \E S \in ToVisit(worker) :
           tick' = [tick EXCEPT ![m] =
                       [step |-> "next", worker |-> worker, todo |-> S]]
    /\ UNCHANGED <<hours, models, lost, request, faults>>

\* Mutant: the first tenant that fails ends the tick.
NoneAfterFailure(todo) == {}

\* What a tick that failed for one tenant still has to do.
LeftAfterFailure(todo) == todo

Goto(m, j, step) == tick' = [tick EXCEPT ![m] = [j EXCEPT !.step = step]]

TurnTo(m, todo) ==
    tick' = [tick EXCEPT ![m] =
                [step |-> "next", worker |-> tick[m].worker, todo |-> todo]]

\* The previous hour of t is complete and nobody still holds a count of it.
Complete(t) ==
    /\ ~late[t]
    /\ \A n \in Machines :
           tick[n].step \in {"count", "write"} =>
               tick[n].tenant # t \/ tick[n].hour # "previous"
    /\ request.step \in {"count", "write"} =>
           request.tenant # t \/ request.hour # "previous"

\* Mutant: only the hour under way is rolled up.
CurrentOnly == "current"

FirstHour == "previous"

RollupOf(t, todo) ==
    [step |-> "count", worker |-> "rollup", todo |-> todo, tenant |-> t,
     hour |-> FirstHour, total |-> 0, clean |-> Complete(t)]

TrainingOf(t, todo) ==
    [step |-> "train", worker |-> "training", todo |-> todo, tenant |-> t,
     family |-> "uptime"]

\* A faulty tenant's own results concern nobody else: it fails, or it passes.
NextTenant(m) ==
    LET j == tick[m] IN
    /\ j.step = "next"
    /\ \E t \in j.todo :
        LET rest == j.todo \ {t} IN
        \/ /\ t \in Faulty
           /\ TurnTo(m, rest) \/ TurnTo(m, LeftAfterFailure(rest))
        \/ /\ t \in Healthy
           /\ tick' = [tick EXCEPT ![m] =
                IF j.worker = "rollup" THEN RollupOf(t, rest)
                                       ELSE TrainingOf(t, rest)]
    /\ UNCHANGED <<hours, models, lease, lost, request, faults>>

EndTick(m) ==
    /\ tick[m].step = "next" /\ tick[m].todo = {}
    /\ tick' = [tick EXCEPT ![m] = Idle]
    /\ lease' = IF lease = m THEN Free ELSE lease
    /\ lost' = lost \ {m}
    /\ UNCHANGED <<hours, models, request, faults>>

-----------------------------------------------------------------------------
(* Rolling up one tenant: count an hour, store the bucket, the next hour;  *)
(* then refresh the classical scores unless they are fresh.                *)

At(m, step) == tick[m].step = step

Counted(j) == [j EXCEPT !.step = "write", !.total = rows[j.tenant][j.hour]]

Stored(j) == [bucket EXCEPT ![j.tenant][j.hour] = j.total]

Count(m) ==
    /\ At(m, "count")
    /\ tick' = [tick EXCEPT ![m] = Counted(@)]
    /\ UNCHANGED <<hours, models, lease, lost, request, faults>>

\* The last writer wins, whichever counted first.
Write(m) ==
    LET j == tick[m] IN
    /\ At(m, "write")
    /\ bucket' = Stored(j)
    /\ IF j.hour = "previous"
       THEN /\ tick' = [tick EXCEPT ![m] =
                 [j EXCEPT !.step = "count", !.hour = "current", !.total = 0]]
            /\ UNCHANGED settled
       ELSE /\ tick' = [tick EXCEPT ![m] =
                 [step |-> "refresh", worker |-> "rollup",
                  todo |-> j.todo, tenant |-> j.tenant]]
            /\ settled' = [settled EXCEPT ![j.tenant] = @ \/ j.clean]
    /\ UNCHANGED <<rows, late, past, models, lease, lost, request, faults>>

ClassicalMade(t) == [classical EXCEPT ![t] = TRUE]

\* Unless they are fresh or there are too few results: fit, record the run, score
\* and store the scores. A failure on the way is a StepFails.
Refresh(m) ==
    LET t == tick[m].tenant IN
    /\ At(m, "refresh")
    /\ classical' \in {classical, ClassicalMade(t)}
    /\ TurnTo(m, tick[m].todo)
    /\ UNCHANGED <<hours, enough, temporal, noted, predicted, disk, hub,
                   lease, lost, request, faults>>

-----------------------------------------------------------------------------
(* Training one tenant: the auxiliary models, whose failure is not to stop *)
(* the temporal one; then the temporal model; then publishing.             *)

Filed(m, t, family, state) ==
    IF family \in enabled THEN [disk EXCEPT ![m][t][family] = state] ELSE disk

\* Uptime and threat models are saved on the event loop of the machine, one at a
\* time, forecasts and temporal models in threads of their own.
LoopFree(m) ==
    /\ ~At(m, "file")
    /\ request.step = "file" => request.machine # m \/ request.family = "forecast"

AfterModel(j) ==
    IF j.family = "uptime" THEN [j EXCEPT !.step = "train", !.family = "threat"]
    ELSE [step |-> "series", worker |-> "training", todo |-> j.todo, tenant |-> j.tenant]

\* Whatever goes wrong with an auxiliary model is caught, and the next is trained.
LeaveModel(m) == tick' = [tick EXCEPT ![m] = AfterModel(@)]

\* Gather samples, fit, open the model's own file and begin to write.
Train(m) ==
    LET j == tick[m] IN
    /\ At(m, "train")
    /\ \/ /\ LoopFree(m)
          /\ disk' = Filed(m, j.tenant, j.family, "part")
          /\ Goto(m, j, "file")
       \/ LeaveModel(m) /\ UNCHANGED disk
    /\ UNCHANGED <<hours, enough, classical, temporal, noted, predicted, hub,
                   lease, lost, request, faults>>

ForecastMade(t) == [predicted EXCEPT ![t] = TRUE]

\* The run that is recorded of an uptime model is the forecast the overview shows.
Recorded(j) ==
    IF j.family = "uptime" THEN {predicted, ForecastMade(j.tenant)} ELSE {predicted}

\* The file is complete and the run recorded, or not; or writing it failed.
File(m) ==
    LET j == tick[m] IN
    /\ At(m, "file")
    /\ \/ /\ disk' = Filed(m, j.tenant, j.family, "whole")
          /\ predicted' \in Recorded(j)
       \/ UNCHANGED <<disk, predicted>>
    /\ LeaveModel(m)
    /\ UNCHANGED <<hours, enough, classical, temporal, noted, hub,
                   lease, lost, request, faults>>

NoteMade(t) == [noted EXCEPT ![t] = TRUE]

Series(m) ==
    LET j == tick[m] IN
    /\ At(m, "series")
    /\ IF enough[j.tenant]
       THEN Goto(m, j, "save") /\ UNCHANGED noted
       ELSE Goto(m, j, "publish") /\ noted' = NoteMade(j.tenant)
    /\ UNCHANGED <<hours, enough, classical, temporal, predicted, disk, hub,
                   lease, lost, request, faults>>

\* Mutant: the checkpoint is written in place.
SavingInPlace(file) == "part"

\* The new model is written beside the old one, which stays whole.
Saving(file) == file

Replaced(m, t) == Filed(m, t, "temporal", "whole")

Beside(m, t) == Filed(m, t, "temporal", Saving(disk[m][t]["temporal"]))

Save(m) ==
    LET j == tick[m] IN
    /\ At(m, "save")
    /\ disk' = Beside(m, j.tenant)
    /\ Goto(m, j, "replace")
    /\ UNCHANGED <<hours, enough, classical, temporal, noted, predicted, hub,
                   lease, lost, request, faults>>

Replace(m) ==
    LET j == tick[m] IN
    /\ At(m, "replace")
    /\ disk' = Replaced(m, j.tenant)
    /\ Goto(m, j, "score")
    /\ UNCHANGED <<hours, enough, classical, temporal, noted, predicted, hub,
                   lease, lost, request, faults>>

ScoreMade(t) == [temporal EXCEPT ![t] = "fresh"]

\* Scoring reads the file of this machine.
Scorable(m, t) == "temporal" \in enabled => disk[m][t]["temporal"] = "whole"

Score(m) ==
    LET j == tick[m] IN
    /\ At(m, "score")
    /\ Scorable(m, j.tenant)
    /\ temporal' = ScoreMade(j.tenant)
    /\ Goto(m, j, "publish")
    /\ UNCHANGED <<hours, enough, classical, noted, predicted, disk, hub,
                   lease, lost, request, faults>>

\* Whatever model files this machine has of the tenant are to be uploaded.
Publish(m) ==
    LET j == tick[m] IN
    /\ At(m, "publish")
    /\ tick' = [tick EXCEPT ![m] =
          [step |-> "upload", worker |-> "training", todo |-> j.todo, tenant |-> j.tenant,
           left |-> {f \in Families : disk[m][j.tenant][f] # "none"}]]
    /\ UNCHANGED <<hours, models, lease, lost, request, faults>>

\* The order of the uploads.
Rank == [uptime |-> 1, threat |-> 2, forecast |-> 3, temporal |-> 4]

\* Each file goes to the hub as it is by then; one that fails ends the uploads, and
\* so they end when no hub is configured.
Upload(m) ==
    LET j == tick[m] IN
    /\ At(m, "upload")
    /\ \/ \E f \in j.left :
            /\ \A g \in j.left : Rank[f] <= Rank[g]
            /\ hub' = [hub EXCEPT ![j.tenant][f] = disk[m][j.tenant][f]]
            /\ tick' = [tick EXCEPT ![m] = [j EXCEPT !.left = @ \ {f}]]
       \/ TurnTo(m, j.todo) /\ UNCHANGED hub
    /\ UNCHANGED <<hours, enough, classical, temporal, noted, predicted, disk,
                   lease, lost, request, faults>>

-----------------------------------------------------------------------------
(* Requests: they roll up the hour under way, fit and score by hand, and   *)
(* read the overview.                                                      *)

Answer == request' = Idle

AskAggregate(t) ==
    /\ request = Idle /\ "rollup" \in enabled
    /\ request' = [step |-> "count", tenant |-> t, hour |-> "current", total |-> 0]
    /\ UNCHANGED <<hours, models, loops, faults>>

CountForRequest ==
    /\ request.step = "count"
    /\ request' = Counted(request)
    /\ UNCHANGED <<hours, models, loops, faults>>

WriteForRequest ==
    /\ request.step = "write"
    /\ bucket' = Stored(request)
    /\ Answer
    /\ UNCHANGED <<rows, late, past, settled, models, loops, faults>>

\* A request brings a series of its own, or takes the tenant's if that will do.
AskFit(m, t) ==
    /\ request = Idle /\ {"training", "temporal", m} \subseteq enabled
    /\ request' = [step |-> "replace", machine |-> m, tenant |-> t]
    /\ disk' = Beside(m, t)
    /\ UNCHANGED <<hours, enough, classical, temporal, noted, predicted, hub,
                   loops, faults>>

ReplaceForRequest ==
    /\ request.step = "replace"
    /\ disk' = Replaced(request.machine, request.tenant)
    /\ Answer
    /\ UNCHANGED <<hours, enough, classical, temporal, noted, predicted, hub,
                   loops, faults>>

\* A score by hand is a row like any other: it puts off the next refresh.
AskScore(m, t) ==
    /\ request = Idle /\ {"training", "temporal", m} \subseteq enabled
    /\ Scorable(m, t)
    /\ temporal' = ScoreMade(t)
    /\ UNCHANGED <<hours, enough, classical, noted, predicted, disk, hub, loops,
                   request, faults>>

AskClassical(t) ==
    /\ request = Idle /\ "rollup" \in enabled
    /\ classical' = ClassicalMade(t)
    /\ UNCHANGED <<hours, enough, temporal, noted, predicted, disk, hub, loops,
                   request, faults>>

\* The other families are trained by hand too, and saved in place as well.
AskTrain(m, t, family) ==
    /\ request = Idle /\ {"training", family, m} \subseteq enabled
    /\ family = "forecast" \/ LoopFree(m)
    /\ request' = [step |-> "file", machine |-> m, tenant |-> t, family |-> family]
    /\ disk' = Filed(m, t, family, "part")
    /\ UNCHANGED <<hours, enough, classical, temporal, noted, predicted, hub,
                   loops, faults>>

FileForRequest ==
    LET r == request IN
    /\ r.step = "file"
    /\ \/ /\ disk' = Filed(r.machine, r.tenant, r.family, "whole")
          /\ predicted' \in Recorded(r)
       \/ UNCHANGED <<disk, predicted>>
    /\ Answer
    /\ UNCHANGED <<hours, enough, classical, temporal, noted, hub, loops, faults>>

\* What there is of t to show: hourly series, forecasts of two kinds.
ToShow(t) ==
    {k \in Kinds :
        CASE k = "series"   -> past[t] # "none" \/ \E h \in Hours : bucket[t][h] # Missing
          [] k = "temporal" -> temporal[t] # "none"
          [] k = "uptime"   -> predicted[t]}

\* "blank" keeps what there was when the request came and is not yet found.
AskOverview(t) ==
    /\ request = Idle /\ "overview" \in enabled
    /\ request' = [step |-> "temporal", tenant |-> t, blank |-> ToShow(t), failed |-> {}]
    /\ UNCHANGED <<hours, models, loops, faults>>

\* The newest score goes before any note; the forecast is that of a whole run.
Found(t, signal) == IF signal = "temporal" THEN temporal[t] # "none" ELSE predicted[t]

AfterSignal(signal) == IF signal = "temporal" THEN "uptime" ELSE "window"

\* A read that fails is answered with an empty forecast.
ReadSignal ==
    LET r == request
        next == [r EXCEPT !.step = AfterSignal(r.step)] IN
    /\ r.step \in {"temporal", "uptime"}
    /\ \/ /\ request' = IF Found(r.tenant, r.step)
                        THEN [next EXCEPT !.blank = @ \ {r.step}] ELSE next
          /\ UNCHANGED faults
       \/ /\ request' = [next EXCEPT !.failed = @ \cup {r.step}]
          /\ Faulted
    /\ UNCHANGED <<hours, models, loops>>

Bucketed(t) == \E h \in Hours : bucket[t][h] # Missing

RecentBucket(t) == past[t] = "recent" \/ Bucketed(t)

\* Mutant: the second query looks no further back than the first.
RecentOnly(t) == past[t] = "recent" \/ Bucketed(t)

AnyBucket(t) == past[t] # "none" \/ Bucketed(t)

\* The buckets of the last day, and if there are none the newest there are.
ReadWindow ==
    LET r == request IN
    /\ r.step = "window"
    /\ request' = IF RecentBucket(r.tenant)
                  THEN [r EXCEPT !.step = "shown", !.blank = @ \ {"series"}]
                  ELSE [r EXCEPT !.step = "fallback"]
    /\ UNCHANGED <<hours, models, loops, faults>>

ReadFallback ==
    LET r == request IN
    /\ r.step = "fallback"
    /\ request' = [r EXCEPT !.step = "shown",
                            !.blank = IF AnyBucket(r.tenant) THEN @ \ {"series"} ELSE @]
    /\ UNCHANGED <<hours, models, loops, faults>>

\* A failed read of the buckets is an error, not an empty page.
OverviewFails ==
    /\ request.step \in {"window", "fallback"}
    /\ Faulted
    /\ Answer
    /\ UNCHANGED <<hours, models, loops>>

Shown ==
    /\ request.step = "shown"
    /\ Answer
    /\ UNCHANGED <<hours, models, loops, faults>>

-----------------------------------------------------------------------------
(* What goes wrong.                                                        *)

\* A step for a healthy tenant fails: the database or a library gave up. What goes
\* wrong with an auxiliary model, or in publishing, is caught where it happens.
StepFails(m) ==
    /\ Faulted
    /\ tick[m].step \in {"count", "write", "refresh", "series", "save", "replace", "score"}
    /\ TurnTo(m, LeftAfterFailure(tick[m].todo))
    /\ UNCHANGED <<hours, models, lease, lost, request>>

\* The connection that holds the lease drops: the lease is free, and the tick,
\* which has other connections, goes on.
LoseLease(m) ==
    /\ Faulted
    /\ lease = m
    /\ lease' = Free
    /\ lost' = lost \cup {m}
    /\ UNCHANGED <<hours, models, tick, request>>

\* The process ends and is started again; its files are still there.
Crash(m) ==
    /\ Faulted
    /\ tick' = [tick EXCEPT ![m] = Idle]
    /\ lease' = IF lease = m THEN Free ELSE lease
    /\ lost' = lost \ {m}
    /\ IF request.step \in {"replace", "file"} /\ request.machine = m
       THEN Answer ELSE UNCHANGED request
    /\ UNCHANGED <<hours, models>>

-----------------------------------------------------------------------------
Init ==
    /\ enabled \in Deployments
    /\ rows = [t \in Healthy |-> [h \in Hours |-> 0]]
    /\ late = [t \in Healthy |-> FALSE]
    /\ bucket = [t \in Healthy |-> [h \in Hours |-> Missing]]
    /\ past \in [Healthy -> IF "rollup" \in enabled THEN {"none"}
                                                   ELSE {"recent", "old"}]
    /\ settled = [t \in Healthy |-> FALSE]
    /\ enough = [t \in Healthy |-> FALSE]
    /\ classical = [t \in Healthy |-> FALSE]
    /\ temporal = [t \in Healthy |-> "none"]
    /\ noted = [t \in Healthy |-> FALSE]
    /\ predicted = [t \in Healthy |-> FALSE]
    /\ disk = [m \in Machines |-> [t \in Healthy |-> [f \in Families |-> "none"]]]
    /\ hub = [t \in Healthy |-> [f \in Families |-> "none"]]
    /\ lease = Free /\ lost = {}
    /\ tick = [m \in Machines |-> Idle]
    /\ request = Idle
    /\ faults = 0

RollupStep(m)   == Count(m) \/ Write(m) \/ Refresh(m)
TrainingStep(m) ==
    \/ Train(m) \/ File(m) \/ Series(m)
    \/ Save(m) \/ Replace(m) \/ Score(m) \/ Publish(m) \/ Upload(m)

TickStep(m) == NextTenant(m) \/ EndTick(m) \/ RollupStep(m) \/ TrainingStep(m)

ServeRequest ==
    \/ CountForRequest \/ WriteForRequest \/ ReplaceForRequest \/ FileForRequest
    \/ ReadSignal \/ ReadWindow \/ ReadFallback \/ OverviewFails \/ Shown

Ask ==
    \E t \in Healthy :
        \/ AskAggregate(t) \/ AskClassical(t) \/ AskOverview(t)
        \/ \E m \in Machines :
            \/ AskFit(m, t) \/ AskScore(m, t)
            \/ \E family \in Families \ {"temporal"} : AskTrain(m, t, family)

Next ==
    /\ \/ \E m \in Machines :
           \/ \E worker \in Workers \cap enabled : StartTick(m, worker)
           \/ TickStep(m)
           \/ StepFails(m) \/ LoseLease(m) \/ Crash(m)
       \/ ServeRequest \/ Ask
       \/ Time
    /\ UNCHANGED enabled

Spec == Init /\ [][Next]_vars

\* Either worker starts its tick again and again and carries it on, requests
\* are served, transactions commit, and time passes.
Fairness ==
    /\ \A m \in Machines : WF_vars(TickStep(m) /\ UNCHANGED enabled)
    /\ \A worker \in Workers :
           WF_vars(/\ \E m \in Machines : StartTick(m, worker)
                   /\ worker \in enabled
                   /\ UNCHANGED enabled)
    /\ WF_vars(ServeRequest /\ UNCHANGED enabled)
    /\ \A t \in Healthy :
        /\ WF_vars(LateRowCommits(t) /\ UNCHANGED enabled)
        /\ WF_vars(NoteAges(t) /\ UNCHANGED enabled)

LiveSpec == Spec /\ Fairness

-----------------------------------------------------------------------------
\* What a worker holds, by the step it takes next.
Jobs ==
    {Idle}
    \cup [step: {"next"}, worker: Workers, todo: SUBSET Tenants]
    \cup [step: {"count", "write"}, worker: {"rollup"}, todo: SUBSET Tenants,
          tenant: Healthy, hour: Hours, total: 0..MaxRows, clean: BOOLEAN]
    \cup [step: {"refresh"}, worker: {"rollup"}, todo: SUBSET Tenants, tenant: Healthy]
    \cup [step: {"train", "file"}, worker: {"training"}, todo: SUBSET Tenants,
          tenant: Healthy, family: {"uptime", "threat"}]
    \cup [step: {"series", "save", "replace", "score", "publish"},
          worker: {"training"}, todo: SUBSET Tenants, tenant: Healthy]
    \cup [step: {"upload"}, worker: {"training"}, todo: SUBSET Tenants,
          tenant: Healthy, left: SUBSET Families]

\* What a request holds.
Asked ==
    {Idle}
    \cup [step: {"count", "write"}, tenant: Healthy, hour: Hours, total: 0..MaxRows]
    \cup [step: {"replace"}, machine: Machines, tenant: Healthy]
    \cup [step: {"file"}, machine: Machines, tenant: Healthy,
          family: Families \ {"temporal"}]
    \cup [step: {"temporal", "uptime", "window", "fallback", "shown"}, tenant: Healthy,
          blank: SUBSET Kinds, failed: SUBSET {"temporal", "uptime"}]

\* Every variable keeps its type, and worker and request hold what their next
\* step needs.
TypeOK ==
    /\ enabled \in Deployments
    /\ rows \in [Healthy -> [Hours -> 0..MaxRows]]
    /\ late \in [Healthy -> BOOLEAN]
    /\ bucket \in [Healthy -> [Hours -> 0..Missing]]
    /\ past \in [Healthy -> {"none", "recent", "old"}]
    /\ settled \in [Healthy -> BOOLEAN]
    /\ enough \in [Healthy -> BOOLEAN]
    /\ classical \in [Healthy -> BOOLEAN]
    /\ temporal \in [Healthy -> {"none", "fresh", "stale"}]
    /\ noted \in [Healthy -> BOOLEAN]
    /\ predicted \in [Healthy -> BOOLEAN]
    /\ disk \in [Machines -> [Healthy -> [Families -> {"none", "part", "whole"}]]]
    /\ hub \in [Healthy -> [Families -> {"none", "part", "whole"}]]
    /\ lease \in Machines \cup {Free}
    /\ lost \subseteq Machines
    /\ tick \in [Machines -> Jobs]
    /\ request \in Asked
    /\ faults \in 0..MaxFaults

\* Whatever fails for other tenants, the results of a healthy one are rolled up
\* once their hour is over (tick_analytics_rollups: "isolate one tenant").
RollupsKeepUp ==
    \A t \in Healthy : rows[t]["previous"] > 0 ~> settled[t]

=============================================================================
