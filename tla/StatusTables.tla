----------------------------- MODULE StatusTables -----------------------------
(***************************************************************************)
(* The tables of the status pages: what they hold, what an answer made     *)
(* from them says, which constraints the database keeps, and what must     *)
(* hold of rows and answers whoever reads and writes them.                 *)
(*                                                                         *)
(* A slug is the sequence of its hyphenated words.  Every word is long     *)
(* enough for the slug pattern and for the stem lookup (three letters).    *)
(***************************************************************************)
EXTENDS Naturals, FiniteSets, Sequences, SequencesExt

CONSTANTS Tenants, Pages, Services, Incidents,   \* identities of rows, never reused
          Callers,                               \* requests in flight
          Slugs, Platform,                       \* slugs asked for; the reserved one
          Raws,                                  \* identifiers asked of the public address
          Names, Reported,                       \* service names, states a caller reports
          HistoryDays,                           \* days a history shows
          MaxBucket,                             \* bound on the probe clock, in days
          MaxAsked                               \* bound on the requests that write

Statuses == {"operational", "degraded", "partial_outage", "major_outage",
             "maintenance", "unknown"}

ASSUME StatusAssumption == /\ Platform \in Slugs
                           /\ HistoryDays \in Nat \ {0}
                           /\ MaxBucket \in Nat /\ MaxAsked \in Nat
                           /\ Reported \subseteq Statuses
                           /\ \A raw \in Raws : raw.words # <<>>

VARIABLES page,       \* the rows of status_pages, by id
          service,    \* the rows of status_services, by id
          incident,   \* the rows of status_incidents, by id
          observed,   \* the rows of health_probe_observations
          spent,      \* ids once given to a row
          bucket,     \* the prober's time bucket, and today
          prober,     \* services of the running probe cycle, and its bucket
          call,       \* per caller, the handler it is in
          reader,     \* the public or owned read in progress
          asked,      \* how many writing requests were made
          standing    \* pages published under one slug since the lookup began

rows == <<page, service, incident, observed, spent>>

Idle == [op |-> "idle", step |-> "none"]

-----------------------------------------------------------------------------
(* Addresses.  "joe.dev" is [words |-> <<"joe","dev">>, dotted |-> TRUE].    *)

Candidates(raw) == IF raw.dotted THEN <<raw.words, <<Head(raw.words)>> >>
                                 ELSE <<raw.words>>

Stem(raw) == IF raw.dotted THEN <<Head(raw.words)>> ELSE raw.words

PublishedAt(slug) == {p \in DOMAIN page : page[p].published /\ page[p].slug = slug}

PublishedUnder(stem) ==
    {p \in DOMAIN page : page[p].published /\ IsPrefix(stem, page[p].slug)}

-----------------------------------------------------------------------------
(* What an answer says of a page.                                          *)

Rank == [s \in Statuses |->
            CASE s = "major_outage"   -> 5
              [] s = "partial_outage" -> 4
              [] s = "degraded"       -> 3
              [] s = "maintenance"    -> 2
              [] s = "unknown"        -> 1
              [] s = "operational"    -> 0]

OverallStatus(seen) ==
    IF seen = {} THEN "unknown"
    ELSE CHOOSE s \in seen : \A other \in seen : Rank[s] >= Rank[other]

\* Mutant: a page whose services were set green by hand is shown green.
HonestOverallBare(seen, hasSamples) == OverallStatus(seen)

HonestOverall(seen, hasSamples) ==
    IF OverallStatus(seen) = "operational" /\ ~hasSamples
    THEN "unknown" ELSE OverallStatus(seen)

\* A day's light.
DayStatus(active, total) ==
    CASE total = 0      -> "no_data"
      [] active = total -> "up"
      [] active = 0     -> "down"
      [] OTHER          -> "partial"

ProbesOf(tenant, ids) == {o \in observed : o.tenant = tenant /\ o.service \in ids}

\* The window reaches back HistoryDays times 24 hours from now: the day before
\* those shown falls into it with its later hours.
BeforeShown(o, today) == o.bucket + HistoryDays <= today

InWindow(probes, today) ==
    {o \in probes : o.bucket + HistoryDays > today}

EdgeOfWindow(probes, today) ==
    {o \in probes : o.bucket + HistoryDays = today}

Windows(probes, today) ==
    {InWindow(probes, today) \cup late : late \in SUBSET EdgeOfWindow(probes, today)}

DayOf(probes, ago, today) == {o \in probes : o.bucket + ago = today}

\* One light per day, by how long ago it is: 0 is today.
DaysAgo == 0..(HistoryDays - 1)

UptimeHistory(counted, today) ==
    [ago \in DaysAgo |->
        DayStatus(Cardinality({o \in DayOf(counted, ago, today) : o.active}),
                  Cardinality(DayOf(counted, ago, today)))]

\* Uptime is told of all that was counted, shown or not.
UptimeKnown(counted) == counted # {}

-----------------------------------------------------------------------------
(* Constraints of the tables: a child names a page of its own tenant, an   *)
(* observation a service of its own tenant, slugs are unique, and a        *)
(* deletion takes the children with it.                                    *)

\* Mutant: the constraint is on the page alone, without its tenant.
PageKeyLoose(p, tenant) == p \in DOMAIN page

PageKey(p, tenant) == p \in DOMAIN page /\ page[p].tenant = tenant

ServiceKey(s, tenant) == s \in DOMAIN service /\ service[s].tenant = tenant

\* A table once a row is stored under an id.
Put(table, id, row) ==
    [x \in DOMAIN table \cup {id} |-> IF x = id THEN row ELSE table[x]]

SlugFree(slug, p) == \A q \in DOMAIN page \ {p} : page[q].slug # slug

Immutable(p) == page[p].slug = Platform

Referenced(p) == \/ \E s \in DOMAIN service : service[s].page = p
                 \/ \E i \in DOMAIN incident : incident[i].page = p

CascadeServices(gone) ==
    /\ service' = Restrict(service, DOMAIN service \ gone)
    /\ observed' = {o \in observed : o.service \notin gone}

CascadePage(p) ==
    /\ page' = Restrict(page, DOMAIN page \ {p})
    /\ CascadeServices({s \in DOMAIN service : service[s].page = p})
    /\ incident' = Restrict(incident, {i \in DOMAIN incident : incident[i].page # p})

-----------------------------------------------------------------------------
(* Types and properties                                                    *)
PagesOK == page \in [DOMAIN page -> [tenant: Tenants, slug: Slugs, published: BOOLEAN]]

ServicesOK == service \in [DOMAIN service -> [page: Pages, tenant: Tenants, name: Names,
                                              status: Statuses]]

IncidentsOK == incident \in [DOMAIN incident ->
                                [page: Pages, tenant: Tenants, resolved: BOOLEAN,
                                 status: {"investigating", "monitoring", "resolved"}]]

Observations == [service: Services, tenant: Tenants, bucket: 0..MaxBucket, active: BOOLEAN]

ObservedOK == observed \subseteq Observations

Values(table) == {table[id] : id \in DOMAIN table}

\* Every service and incident belongs to a page of its own tenant, and every
\* observation to a service of its own tenant, although the page a handler
\* checked may be deleted or moved before it writes, and the service a probe
\* was sent to may be gone when its answer comes.
ChildrenFollowPage ==
    /\ \A child \in Values(service) \cup Values(incident) :
          child.page \in DOMAIN page /\ page[child.page].tenant = child.tenant
    /\ \A o \in observed : /\ o.service \in DOMAIN service
                          /\ service[o.service].tenant = o.tenant

\* A page is shown green only when every service read was green and a probe of
\* its own services was counted: one on a day the answer shows, or, the days
\* shown all without data, one on the day before them that the window reaches
\* into.  The two reads and the day they are told of are not the same moment.
HonestAnswer ==
    (reader.step = "done" /\ reader.overall = "operational") =>
        /\ reader.seen = {"operational"}
        /\ \/ \E ago \in DOMAIN reader.history : reader.history[ago] # "no_data"
           \/ \E o \in reader.counted : BeforeShown(o, bucket)

\* The lookup reads once per candidate while pages are published, renamed and
\* withdrawn.  A page that stood under the identifier's own slug all along is
\* the one answered, a stem never binds one page while another stood under it
\* all along, and no address is missing under whose own slug a page stood.
RightPageAnswered ==
    reader.step \notin {"idle", "exact", "stem"} /\ "raw" \in DOMAIN reader =>
        LET exact == {p \in standing : page[p].slug = reader.raw.words}
            near == {p \in standing : IsPrefix(Stem(reader.raw), page[p].slug)}
        IN  IF reader.step = "missing" THEN exact = {}
            ELSE /\ exact \subseteq {reader.page}
                 /\ reader.how = "stem" => near \subseteq {reader.page}
=============================================================================
