------------------------------ MODULE StatusPage ------------------------------
(***************************************************************************)
(* Status pages: the handlers that write pages, services and incidents,    *)
(* the tool that moves a page to another tenant, the prober that writes    *)
(* observations, and the reader that answers the public address and the    *)
(* owner's list.  A handler checks the page in one statement and writes in *)
(* another, the prober works on a list it read a while ago, and an answer  *)
(* is put together from several reads, so all of them overlap.             *)
(***************************************************************************)
EXTENDS StatusTables

vars == <<page, service, incident, observed, spent, bucket, prober, call, reader, asked,
          standing>>

Asleep == [step |-> "idle"]

-----------------------------------------------------------------------------
Init ==
    /\ page = <<>> /\ service = <<>> /\ incident = <<>>
    /\ observed = {} /\ spent = {} /\ bucket = 0
    /\ prober = [batch |-> {}, bucket |-> 0]
    /\ call = [c \in Callers |-> Idle]
    /\ reader = Asleep
    /\ asked = 0 /\ standing = {}

Enter(c, record) == call[c] = Idle /\ call' = [call EXCEPT ![c] = record]

Leave(c) == call' = [call EXCEPT ![c] = Idle]

Advance(c, step) == call' = [call EXCEPT ![c].step = step]

(* Pages *)

\* The product creates a page; the slug of the platform's own page is refused.
CreatePage(tenant, p, slug, published) ==
    /\ p \notin spent
    /\ slug # Platform
    /\ SlugFree(slug, p)
    /\ page' = Put(page, p, [tenant |-> tenant, slug |-> slug, published |-> published])
    /\ spent' = spent \cup {p}
    /\ UNCHANGED <<service, incident, observed, bucket, prober, call, reader>>

\* The migration that seeds the platform's own page.
SeedPlatform(tenant, p) ==
    /\ p \notin spent
    /\ SlugFree(Platform, p)
    /\ page' = Put(page, p, [tenant |-> tenant, slug |-> Platform, published |-> TRUE])
    /\ spent' = spent \cup {p}
    /\ UNCHANGED <<service, incident, observed, bucket, prober, call, reader>>

PatchPage(c, tenant, p, slug, published) ==
    /\ Enter(c, [op |-> "update", step |-> "check", tenant |-> tenant, page |-> p,
                 slug |-> slug, published |-> published])
    /\ UNCHANGED <<rows, bucket, prober, reader>>

RemovePage(c, tenant, p) ==
    /\ Enter(c, [op |-> "delete", step |-> "check", tenant |-> tenant, page |-> p])
    /\ UNCHANGED <<rows, bucket, prober, reader>>

Allowed(k) == /\ PageKey(k.page, k.tenant)
              /\ k.op \in {"update", "delete"} => page[k.page].slug # Platform
              /\ k.op = "update" => k.slug # Platform

\* Every handler of a page's rows first finds the page under the tenant.
RequirePage(c) ==
    /\ call[c].step = "check"
    /\ IF ~Allowed(call[c]) THEN Leave(c)
       ELSE Advance(c, IF call[c].op = "upsert" THEN "find" ELSE "write")
    /\ UNCHANGED <<rows, bucket, prober, reader>>

UpdatePage(c) ==
    LET k == call[c] IN
    /\ k.op = "update" /\ k.step = "write"
    /\ page' = IF PageKey(k.page, k.tenant) /\ SlugFree(k.slug, k.page)
               THEN [page EXCEPT ![k.page].slug = k.slug,
                                 ![k.page].published = k.published]
               ELSE page
    /\ Leave(c)
    /\ UNCHANGED <<service, incident, observed, spent, bucket, prober, reader>>

DeletePage(c) ==
    LET k == call[c] IN
    /\ k.op = "delete" /\ k.step = "write"
    /\ IF PageKey(k.page, k.tenant) THEN CascadePage(k.page)
       ELSE UNCHANGED <<page, service, incident, observed>>
    /\ Leave(c)
    /\ UNCHANGED <<spent, bucket, prober, reader>>

(* Services *)

PostService(c, tenant, p, name, status) ==
    /\ Enter(c, [op |-> "upsert", step |-> "check", tenant |-> tenant, page |-> p,
                 name |-> name, status |-> status, row |-> {}])
    /\ UNCHANGED <<rows, bucket, prober, reader>>

Named(k) == {s \in DOMAIN service : /\ service[s].page = k.page
                                    /\ service[s].tenant = k.tenant
                                    /\ service[s].name = k.name}

FindService(c) ==
    LET k == call[c] IN
    /\ k.step = "find"
    /\ \/ /\ Named(k) = {}
          /\ call' = [call EXCEPT ![c].step = "write"]
       \/ \E s \in Named(k) :
             call' = [call EXCEPT ![c].step = "write", ![c].row = {s}]
    /\ UNCHANGED <<rows, bucket, prober, reader>>

\* The row found is written by its id; none found, a new one is inserted.
SaveService(c) ==
    LET k == call[c] IN
    /\ k.op = "upsert" /\ k.step = "write"
    /\ \/ /\ \E s \in k.row : IF ServiceKey(s, k.tenant)
                              THEN service' = [service EXCEPT ![s].status = k.status]
                              ELSE service' = service
          /\ UNCHANGED spent
       \/ /\ k.row = {} /\ PageKey(k.page, k.tenant)
          /\ \E s \in Services \ spent :
                /\ service' = Put(service, s, [page |-> k.page, tenant |-> k.tenant,
                                               name |-> k.name, status |-> k.status])
                /\ spent' = spent \cup {s}
       \/ /\ k.row = {} /\ ~PageKey(k.page, k.tenant)       \* refused by the constraint
          /\ UNCHANGED <<service, spent>>
    /\ Leave(c)
    /\ UNCHANGED <<page, incident, observed, bucket, prober, reader>>

UpdateService(tenant, s, name, status) ==
    /\ ServiceKey(s, tenant)
    /\ service' = [service EXCEPT ![s].name = name, ![s].status = status]
    /\ UNCHANGED <<page, incident, observed, spent, bucket, prober, call, reader>>

DeleteService(tenant, s) ==
    /\ ServiceKey(s, tenant)
    /\ CascadeServices({s})
    /\ UNCHANGED <<page, incident, spent, bucket, prober, call, reader>>

(* Incidents *)

PostIncident(c, tenant, p, status) ==
    /\ Enter(c, [op |-> "incident", step |-> "check", tenant |-> tenant, page |-> p,
                 status |-> status])
    /\ UNCHANGED <<rows, bucket, prober, reader>>

CreateIncident(c) ==
    LET k == call[c] IN
    /\ k.op = "incident" /\ k.step = "write"
    /\ IF PageKey(k.page, k.tenant)
       THEN \E i \in Incidents \ spent :
               /\ incident' = Put(incident, i, [page |-> k.page, tenant |-> k.tenant,
                                                status |-> k.status,
                                                resolved |-> k.status = "resolved"])
               /\ spent' = spent \cup {i}
       ELSE UNCHANGED <<incident, spent>>
    /\ Leave(c)
    /\ UNCHANGED <<page, service, observed, bucket, prober, reader>>

UpdateIncident(tenant, i, status) ==
    /\ i \in DOMAIN incident /\ incident[i].tenant = tenant
    /\ incident' = [incident EXCEPT ![i].status = status,
                                    ![i].resolved = (status = "resolved")]
    /\ UNCHANGED <<page, service, observed, spent, bucket, prober, call, reader>>

DeleteIncident(tenant, i) ==
    /\ i \in DOMAIN incident /\ incident[i].tenant = tenant
    /\ incident' = Restrict(incident, DOMAIN incident \ {i})
    /\ UNCHANGED <<page, service, observed, spent, bucket, prober, call, reader>>

(* Moving a page to another tenant *)

StartMove(c, p, target) ==
    /\ p \in DOMAIN page /\ page[p].tenant # target
    /\ Enter(c, [op |-> "move", step |-> "write", page |-> p,
                 source |-> page[p].tenant, target |-> target])
    /\ UNCHANGED <<rows, bucket, prober, reader>>

\* Services and incidents are given the new tenant before the page is, each
\* in a statement of its own, and the tables check a child's page and tenant
\* at the end of every statement: a page with a child cannot be moved, and a
\* trigger keeps the platform's own page where it is.  A page that left the
\* source meanwhile is reported as moved all the same.
MovePage(c) ==
    LET k == call[c]
        mine == PageKey(k.page, k.source) IN
    /\ k.op = "move" /\ k.step = "write"
    /\ IF mine /\ (Referenced(k.page) \/ Immutable(k.page))
       THEN Advance(c, "refused") /\ UNCHANGED page
       ELSE /\ Advance(c, "moved")
            /\ page' = IF mine THEN [page EXCEPT ![k.page].tenant = k.target] ELSE page
    /\ UNCHANGED <<service, incident, observed, spent, bucket, prober, reader>>

EndMove(c) ==
    /\ call[c].step \in {"moved", "refused"}
    /\ Leave(c)
    /\ UNCHANGED <<rows, bucket, prober, reader>>

(* The prober *)

StartCycle ==
    /\ prober.batch = {} /\ DOMAIN service # {}
    /\ prober' = [batch |-> {[service |-> s, tenant |-> service[s].tenant] :
                             s \in DOMAIN service},
                  bucket |-> bucket]
    /\ UNCHANGED <<rows, bucket, call, reader>>

StatusOf(answer) == CASE answer = "2xx" -> "operational"
                      [] answer = "5xx" -> "major_outage"
                      [] OTHER          -> "degraded"

Recorded(target) == \E o \in observed : /\ o.service = target.service
                                        /\ o.bucket = prober.bucket

\* One result: the observation and the service's status commit together, and
\* neither is written when the bucket has its observation or the row is gone.
PersistResult(target, answer) ==
    /\ target \in prober.batch
    /\ prober' = [prober EXCEPT !.batch = @ \ {target}]
    /\ IF ~ServiceKey(target.service, target.tenant) \/ Recorded(target)
       THEN UNCHANGED <<service, observed>>
       ELSE /\ observed' = observed \cup
                  {[service |-> target.service, tenant |-> target.tenant,
                    bucket |-> prober.bucket, active |-> answer = "2xx"]}
            /\ service' = [service EXCEPT ![target.service].status = StatusOf(answer)]
    /\ UNCHANGED <<page, incident, spent, bucket, call, reader>>

\* A cycle that dies on the way is started over, perhaps in the same bucket.
CycleFails ==
    /\ prober.batch # {}
    /\ prober' = [prober EXCEPT !.batch = {}]
    /\ UNCHANGED <<rows, bucket, call, reader>>

NextBucket ==
    /\ bucket < MaxBucket
    /\ bucket' = bucket + 1
    /\ UNCHANGED <<rows, prober, call, reader>>

\* Retention takes the oldest observations.
PurgeObservations ==
    /\ \E o \in observed : o.bucket < bucket
    /\ observed' = {o \in observed : o.bucket = bucket}
    /\ UNCHANGED <<page, service, incident, spent, bucket, prober, call, reader>>

-----------------------------------------------------------------------------
(* Reads *)

Lookup(raw) ==
    /\ reader = Asleep
    /\ reader' = [step |-> "exact", raw |-> raw, at |-> 1]
    /\ UNCHANGED <<rows, bucket, prober, call>>

Bind(p, how) ==
    reader' = [step |-> "services", how |-> how, raw |-> reader.raw, page |-> p,
               tenant |-> page[p].tenant]

Missed == reader' = [step |-> "missing", raw |-> reader.raw]

\* One query per candidate, in order.
TryCandidate ==
    LET slug == Candidates(reader.raw)[reader.at] IN
    /\ reader.step = "exact"
    /\ IF PublishedAt(slug) # {}
       THEN \E p \in PublishedAt(slug) : Bind(p, "exact")
       ELSE reader' = IF reader.at < Len(Candidates(reader.raw))
                      THEN [reader EXCEPT !.at = @ + 1]
                      ELSE [reader EXCEPT !.step = "stem"]
    /\ UNCHANGED <<rows, bucket, prober, call>>

\* Mutant: the first page under the stem is taken.
TryStemFirst ==
    LET found == PublishedUnder(Stem(reader.raw)) IN
    /\ reader.step = "stem"
    /\ IF found # {} THEN \E p \in found : Bind(p, "stem") ELSE Missed
    /\ UNCHANGED <<rows, bucket, prober, call>>

\* The stem binds only a page that alone matches it.
TryStem ==
    LET found == PublishedUnder(Stem(reader.raw)) IN
    /\ reader.step = "stem"
    /\ IF Cardinality(found) = 1 THEN \E p \in found : Bind(p, "stem") ELSE Missed
    /\ UNCHANGED <<rows, bucket, prober, call>>

Reading(p, how) ==
    /\ reader = Asleep
    /\ reader' = [step |-> "services", how |-> how, page |-> p, tenant |-> page[p].tenant]
    /\ UNCHANGED <<rows, bucket, prober, call>>

\* The owner's list, the public directory and the services of one page read a
\* page without a lookup.
ListPages(tenant, p) == PageKey(p, tenant) /\ Reading(p, "owned")

ListPublished(p) == p \in DOMAIN page /\ page[p].published /\ Reading(p, "directory")

ListServices(tenant, p) == PageKey(p, tenant) /\ Reading(p, "managed")

\* The owner's list does not repeat the tenant in the query of the services.
ServicesRead == {s \in DOMAIN service : /\ service[s].page = reader.page
                                        /\ \/ reader.how = "owned"
                                           \/ service[s].tenant = reader.tenant}

HydratePage ==
    /\ reader.step = "services"
    /\ reader' = [step |-> "probes", tenant |-> reader.tenant, ids |-> ServicesRead,
                  seen |-> {service[s].status : s \in ServicesRead}]
    /\ UNCHANGED <<rows, bucket, prober, call>>

\* Probes are counted of the tenant and services read before, as they are now.
ReadUptime ==
    /\ reader.step = "probes"
    /\ \E counted \in Windows(ProbesOf(reader.tenant, reader.ids), bucket) :
          reader' = [step |-> "latency", tenant |-> reader.tenant, ids |-> reader.ids,
                     seen |-> reader.seen, counted |-> counted]
    /\ UNCHANGED <<rows, bucket, prober, call>>

\* Latency is asked in a query of its own, over the last day only; the days of
\* the history are laid out after it.
ReadLatency ==
    /\ reader.step = "latency"
    /\ reader' = [step |-> "done", seen |-> reader.seen, counted |-> reader.counted,
                  history |-> UptimeHistory(reader.counted, bucket),
                  overall |-> HonestOverall(reader.seen, UptimeKnown(reader.counted)),
                  latency |-> DayOf(ProbesOf(reader.tenant, reader.ids), 0, bucket) # {}]
    /\ UNCHANGED <<rows, bucket, prober, call>>

EndRead ==
    /\ reader.step \in {"done", "missing"}
    /\ reader' = Asleep
    /\ UNCHANGED <<rows, bucket, prober, call>>

-----------------------------------------------------------------------------
Request(c) ==
    \E t \in Tenants, p \in DOMAIN page :
      \/ \E s \in Slugs, b \in BOOLEAN : PatchPage(c, t, p, s, b)
      \/ RemovePage(c, t, p)
      \/ \E n \in Names, s \in Reported : PostService(c, t, p, n, s)
      \/ \E s \in {"investigating", "resolved"} : PostIncident(c, t, p, s)
      \/ StartMove(c, p, t)

SingleWrite ==
    \E t \in Tenants :
      \/ \E p \in Pages : \/ \E s \in Slugs, b \in BOOLEAN : CreatePage(t, p, s, b)
                          \/ SeedPlatform(t, p)
      \/ \E s \in Services : \/ \E n \in Names, st \in Reported : UpdateService(t, s, n, st)
                             \/ DeleteService(t, s)
      \/ \E i \in Incidents : \/ \E st \in {"monitoring", "resolved"} : UpdateIncident(t, i, st)
                              \/ DeleteIncident(t, i)

\* Requests that write are counted, so that their number has a bound.
Asking == /\ asked < MaxAsked
          /\ asked' = asked + 1
          /\ SingleWrite \/ \E c \in Callers : Request(c)

Handling(c) == \/ RequirePage(c) \/ UpdatePage(c) \/ DeletePage(c) \/ FindService(c)
               \/ SaveService(c) \/ CreateIncident(c) \/ MovePage(c) \/ EndMove(c)

Probing == \/ StartCycle \/ CycleFails \/ NextBucket \/ PurgeObservations
           \/ \E target \in prober.batch, answer \in {"2xx", "4xx", "5xx"} :
                 PersistResult(target, answer)

Reads == \/ \E raw \in Raws : Lookup(raw)
         \/ \E t \in Tenants, p \in Pages : ListPages(t, p) \/ ListServices(t, p)
         \/ \E p \in Pages : ListPublished(p)
         \/ TryCandidate \/ TryStem \/ HydratePage \/ ReadUptime \/ ReadLatency \/ EndRead

Public(p) == p \in DOMAIN page /\ page[p].published

\* A page stands while it is published under the slug it had at the start.
Stand == standing' = IF reader = Asleep /\ reader' # Asleep
                     THEN {p \in DOMAIN page : page[p].published}
                     ELSE IF reader' = Asleep THEN {}
                     ELSE {p \in standing : Public(p)' /\ page'[p].slug = page[p].slug}

Next == /\ \/ Asking
           \/ /\ \/ \E c \in Callers : Handling(c)
                 \/ Probing
                 \/ Reads
              /\ UNCHANGED asked
        /\ Stand

Spec == Init /\ [][Next]_vars

-----------------------------------------------------------------------------
\* What a handler holds, by the operation it carries out.
Calls ==
    {Idle}
    \cup [op: {"update"}, step: {"check", "write"}, tenant: Tenants, page: Pages,
          slug: Slugs, published: BOOLEAN]
    \cup [op: {"delete"}, step: {"check", "write"}, tenant: Tenants, page: Pages]
    \cup [op: {"upsert"}, step: {"check", "find", "write"}, tenant: Tenants, page: Pages,
          name: Names, status: Reported, row: SUBSET Services]
    \cup [op: {"incident"}, step: {"check", "write"}, tenant: Tenants, page: Pages,
          status: {"investigating", "resolved"}]
    \cup [op: {"move"}, step: {"write", "moved", "refused"}, page: Pages,
          source: Tenants, target: Tenants]

\* What the reader holds, by the query that is next.
Lights == {"no_data", "up", "down", "partial"}

Readers ==
    {Asleep}
    \cup [step: {"exact", "stem"}, raw: Raws, at: 1..2]
    \cup [step: {"missing"}, raw: Raws]
    \cup [step: {"services"}, how: {"exact", "stem"}, raw: Raws, page: Pages,
          tenant: Tenants]
    \cup [step: {"services"}, how: {"owned", "directory", "managed"}, page: Pages,
          tenant: Tenants]
    \cup [step: {"probes"}, tenant: Tenants, ids: SUBSET Services, seen: SUBSET Statuses]
    \cup [step: {"latency"}, tenant: Tenants, ids: SUBSET Services, seen: SUBSET Statuses,
          counted: SUBSET Observations]
    \cup [step: {"done"}, seen: SUBSET Statuses, counted: SUBSET Observations,
          history: [DaysAgo -> Lights], overall: Statuses, latency: BOOLEAN]

\* Every stored row has the fields its table demands, and every handler, the
\* prober and the reader hold what their next step needs.
TypeOK ==
    /\ DOMAIN page \subseteq Pages /\ DOMAIN service \subseteq Services
    /\ DOMAIN incident \subseteq Incidents
    /\ PagesOK /\ ServicesOK /\ IncidentsOK /\ ObservedOK
    /\ spent \subseteq Pages \cup Services \cup Incidents
    /\ bucket \in 0..MaxBucket
    /\ prober \in [batch: SUBSET [service: Services, tenant: Tenants],
                   bucket: 0..MaxBucket]
    /\ call \in [Callers -> Calls]
    /\ reader \in Readers
    /\ asked \in 0..MaxAsked
    /\ standing \subseteq DOMAIN page

\* A page shown green shows a probed day.
GreenShown ==
    (reader.step = "done" /\ reader.overall = "operational") =>
        \E ago \in DOMAIN reader.history : reader.history[ago] # "no_data"

\* The moving tool, past its checks, leaves a page that is still there with
\* the tenant it was told, whatever services and incidents the page has.
PageMoves == \A c \in Callers : LET k == call[c] IN
    (/\ k.step \in {"moved", "refused"}
     /\ k.page \in DOMAIN page /\ page[k.page].slug # Platform)
    => page[k.page].tenant = k.target
=============================================================================
