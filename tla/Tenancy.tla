------------------------------- MODULE Tenancy -------------------------------
(***************************************************************************)
(* Who may act on a tenant's rows, and how they come and go: credentials   *)
(* and memberships, partner provisioning, crypto sessions, acceptance of   *)
(* telemetry, retention, and the erasure of a whole tenant.  A request is  *)
(* authenticated in one statement, authorised in a second one and writes   *)
(* in a third, so the tenant, the membership or the credential it was      *)
(* granted on may be gone by then.                                         *)
(***************************************************************************)
EXTENDS Naturals, TLC

CONSTANTS Tenants, Accounts,    \* ids of rows, drawn at random and never twice
          Users, Machines,      \* auth users: people, and those JWTs of services name
          Refs,                 \* external references of the partner
          Slugs, Reserved,      \* slugs asked for; the platform's
          Roles,                \* roles of members
          Sessions,             \* session ids, chosen by the clients
          Callers,              \* requests in flight
          MaxAsked              \* bound on the requests

None == "none"

ASSUME TenancyAssumption ==
    /\ None \notin Tenants \cup Accounts \cup Users \cup Machines \cup Refs \cup Slugs \cup Roles
    /\ "owner" \in Roles
    /\ Users \cap Accounts = {}
    /\ MaxAsked \in Nat

VARIABLES tenant,      \* tenants: the slug of each row, or None
          role,        \* tenant_members: the role of each pair, or None
          account,     \* service_accounts
          provision,   \* partner_provisions, by external reference
          session,     \* crypto_sessions
          sealed,      \* tenants with rows in telemetry_events
          queued,      \* the unfinished row of ingest_processing_batches, per tenant
          receipt,     \* tenant_erase_receipts
          spent,       \* ids once given to a tenant or an account
          call,        \* per caller, the handler it is in
          asked        \* how many requests were made

rows == <<tenant, role, account, provision, session, sealed, queued, receipt, spent>>
vars == <<tenant, role, account, provision, session, sealed, queued, receipt, spent, call, asked>>

Scopes == {"sessions:write", "ingest:write", "tenants:erase"}
DefaultScopes == Scopes \ {"tenants:erase"}
Elevated == {"owner", "admin"}
Writers == {"owner", "admin", "member"}

NoAccount == [tenant |-> None, scopes |-> {}, active |-> FALSE, key |-> FALSE,
              machine |-> None, ref |-> None]
NoProvision == [tenant |-> None, account |-> None]
NoSession == [owner |-> None, state |-> "none"]
NoReceipt == [by |-> None, tomb |-> None, with |-> [kind |-> None, id |-> None]]
Idle == [op |-> "idle", step |-> "none"]

Exists(t) == tenant[t] # None
Erased(t) == receipt[t] # NoReceipt
AccountsOf(t) == {a \in Accounts : account[a].tenant = t}

\* FOREIGN KEY (tenant_id) of every table that has one.
\* Mutant: the tenant of an inserted row is not looked up.
TenantKeyLoose(t) == TRUE

TenantKey(t) == Exists(t)

SlugFree(slug) == \A t \in Tenants : tenant[t] # slug

Fresh(ids) == ids \ spent

-----------------------------------------------------------------------------
(* Authentication: from a credential, which is [kind, id], to a principal. *)

Credentials == [kind : {"user"}, id : Users] \cup [kind : {"opaque"}, id : Accounts]
                   \cup [kind : {"machine"}, id : Machines]

Nobody == [kind |-> "nobody", id |-> None, tenant |-> None, scopes |-> {}, token |-> None]
User(u) == [Nobody EXCEPT !.kind = "user", !.id = u]
Service(a, token) == [kind |-> "service", id |-> a, tenant |-> account[a].tenant,
                      scopes |-> account[a].scopes, token |-> token]
Tombstone(t) == [Nobody EXCEPT !.kind = "tombstone", !.tenant = t]

\* An opaque token opens the live row that has its hash.
Usable(a) == account[a].active /\ account[a].key

\* The hash kept in the receipt of an erasure opens that receipt alone.
ErasedOpaque(t, a) == Erased(t) /\ receipt[t].tomb = a

\* What a token is worth on a request of this kind to this tenant.  Its prefix and hash
\* go with the principal only on the way to an erasure.
OpaquePrincipal(a, op, t) ==
    CASE Usable(a) -> Service(a, IF op = "erase" THEN a ELSE None)
      [] ~Usable(a) /\ op = "erase" /\ ErasedOpaque(t, a) -> Tombstone(t)
      [] OTHER -> Nobody

BoundMachine(m) ==
    IF \E a \in Accounts : account[a].machine = m /\ account[a].active
    THEN Service(CHOOSE a \in Accounts : account[a].machine = m /\ account[a].active, None)
    ELSE Nobody

Principal(k, op, t) ==
    CASE k.kind = "user"    -> User(k.id)
      [] k.kind = "opaque"  -> OpaquePrincipal(k.id, op, t)
      [] k.kind = "machine" -> BoundMachine(k.id)

-----------------------------------------------------------------------------
(* Authorisation.                                                          *)

Member(p, t, wanted) == p.kind = "user" /\ role[t][p.id] \in wanted

Bound(p, t, scope) == p.kind = "service" /\ p.tenant = t /\ scope \in p.scopes

TenantAccess(p, t, wanted, scope) == Member(p, t, wanted) \/ Bound(p, t, scope)

Allowed(p, op, t) ==
    CASE op \in {"create_account", "revoke_account"} -> Member(p, t, Elevated)
      [] op \in {"upsert", "revoke"} -> TenantAccess(p, t, Writers, "sessions:write")
      [] op = "ingest" -> TenantAccess(p, t, Writers, "ingest:write")
      [] op = "erase"  -> TenantAccess(p, t, Elevated, "tenants:erase")

Ops == {"create_account", "revoke_account", "upsert", "revoke", "ingest", "erase"}

CanReadReceipt(p, t) ==
    \/ receipt[t].by = p.id
    \/ p.kind = "tombstone" /\ p.tenant = t
    \/ Bound(p, t, "tenants:erase")

-----------------------------------------------------------------------------
Init ==
    /\ tenant = [t \in Tenants |-> None]
    /\ role = [t \in Tenants |-> [u \in Users |-> None]]
    /\ account = [a \in Accounts |-> NoAccount]
    /\ provision = [r \in Refs |-> NoProvision]
    /\ session = [t \in Tenants |-> [s \in Sessions |-> NoSession]]
    /\ sealed = {}
    /\ queued = [t \in Tenants |-> "no"]
    /\ receipt = [t \in Tenants |-> NoReceipt]
    /\ spent = {}
    /\ call = [c \in Callers |-> Idle]
    /\ asked = 0

Ask == asked < MaxAsked /\ asked' = asked + 1
Enter(c, record) == call[c] = Idle /\ call' = [call EXCEPT ![c] = record]
At(c, op, step) == call[c].op = op /\ call[c].step = step
Go(c, step) == call' = [call EXCEPT ![c].step = step]
Return(c) == call' = [call EXCEPT ![c] = Idle]

\* A request that shows a credential some row stands behind.
Arrive(c, k, op, t) ==
    /\ Ask
    /\ Principal(k, op, t) # Nobody
    /\ Enter(c, [op |-> op, step |-> IF op = "erase" THEN "prior" ELSE "access",
                 tenant |-> t, who |-> Principal(k, op, t), with |-> k])
    /\ UNCHANGED rows

\* The membership is read, or the principal's own tenant and scopes are compared.
Authorize(c) ==
    /\ call[c].step = "access"
    /\ IF Allowed(call[c].who, call[c].op, call[c].tenant)
       THEN Go(c, CASE call[c].op = "erase" -> "lock"
                    [] call[c].op = "ingest" -> "sessions"
                    [] OTHER -> "write")
       ELSE Return(c)
    /\ UNCHANGED <<rows, asked>>

-----------------------------------------------------------------------------
(* Tenants, members and service accounts.                                  *)

AddTenant(t, slug) ==
    /\ t \in Fresh(Tenants)
    /\ SlugFree(slug)
    /\ tenant' = [tenant EXCEPT ![t] = slug]

CreateTenant(u, t, slug) ==
    /\ Ask
    /\ AddTenant(t, slug)
    /\ role' = [role EXCEPT ![t][u] = "owner"]
    /\ spent' = spent \cup {t}
    /\ UNCHANGED <<account, provision, session, sealed, queued, receipt, call>>

\* Members are added from outside the API.
Invite(t, u, given) ==
    /\ TenantKey(t)
    /\ role[t][u] = None
    /\ role' = [role EXCEPT ![t][u] = given]
    /\ UNCHANGED <<tenant, account, provision, session, sealed, queued, receipt, spent, call,
                   asked>>

NewAccount(t, erase, key, machine, ref) ==
    [tenant |-> t, scopes |-> IF erase THEN Scopes ELSE DefaultScopes,
     active |-> TRUE, key |-> key, machine |-> machine, ref |-> ref]

MachineFree(m) == \A a \in Accounts : account[a].machine # m

CreateServiceAccount(c, a, erase, key, machine) ==
    LET t == call[c].tenant IN
    /\ At(c, "create_account", "write")
    /\ TenantKey(t)
    /\ a \in Fresh(Accounts)
    /\ machine # None => MachineFree(machine)
    /\ key \/ machine # None
    /\ account' = [account EXCEPT ![a] = NewAccount(t, erase, key, machine, None)]
    /\ spent' = spent \cup {a}
    /\ Return(c)
    /\ UNCHANGED <<tenant, role, provision, session, sealed, queued, receipt, asked>>

RevokeServiceAccount(c, a) ==
    /\ At(c, "revoke_account", "write")
    /\ a \in AccountsOf(call[c].tenant)
    /\ account' = [account EXCEPT ![a] = [@ EXCEPT !.active = FALSE, !.key = FALSE]]
    /\ Return(c)
    /\ UNCHANGED <<tenant, role, provision, session, sealed, queued, receipt, spent, asked>>

\* The row is not there any more, or a unique index refuses it.
Refused(c) ==
    /\ call[c].step \in {"write", "sessions", "accept"}
    /\ Return(c)
    /\ UNCHANGED <<rows, asked>>

-----------------------------------------------------------------------------
(* Partner provisioning: one transaction under a lock on the reference.    *)

PostProvision(c, r, slug, remint) ==
    /\ Ask
    /\ slug # Reserved
    /\ Enter(c, [op |-> "provision", step |-> "lock", ref |-> r, slug |-> slug,
                 remint |-> remint, seen |-> NoProvision])
    /\ UNCHANGED rows

Provisioning(r) == {c \in Callers : At(c, "provision", "locked") /\ call[c].ref = r}

\* Mutant: neither the advisory lock nor FOR UPDATE is taken.
ProvisionLockNone(c) ==
    /\ At(c, "provision", "lock")
    /\ call' = [call EXCEPT ![c] = [@ EXCEPT !.step = "locked", !.seen = provision[call[c].ref]]]
    /\ UNCHANGED <<rows, asked>>

ProvisionLock(c) ==
    /\ At(c, "provision", "lock")
    /\ Provisioning(call[c].ref) = {}
    /\ call' = [call EXCEPT ![c] = [@ EXCEPT !.step = "locked", !.seen = provision[call[c].ref]]]
    /\ UNCHANGED <<rows, asked>>

Existing(c) ==
    /\ At(c, "provision", "locked")
    /\ call[c].seen # NoProvision
    /\ ~call[c].remint
    /\ Return(c)
    /\ UNCHANGED <<rows, asked>>

Retired(old) == IF account[old].active THEN [account[old] EXCEPT !.active = FALSE]
                                       ELSE account[old]

\* The account the reference has now is revoked, a new one takes its place.
Remint(c, a, erase) ==
    LET seen == call[c].seen
        ref  == call[c].ref IN
    /\ At(c, "provision", "locked")
    /\ seen # NoProvision
    /\ call[c].remint
    /\ TenantKey(seen.tenant)
    /\ a \in Fresh(Accounts)
    /\ account' = [account EXCEPT ![seen.account] = Retired(seen.account),
                                  ![a] = NewAccount(seen.tenant, erase, TRUE, None, ref)]
    /\ provision' = [provision EXCEPT ![ref] = IF @ = NoProvision THEN @
                                                   ELSE [@ EXCEPT !.account = a]]
    /\ spent' = spent \cup {a}
    /\ Return(c)
    /\ UNCHANGED <<tenant, role, session, sealed, queued, receipt, asked>>

Provision(c, t, a, erase) ==
    LET ref == call[c].ref IN
    /\ At(c, "provision", "locked")
    /\ call[c].seen = NoProvision
    /\ AddTenant(t, call[c].slug)
    /\ a \in Fresh(Accounts)
    /\ provision[ref] = NoProvision
    /\ account' = [account EXCEPT ![a] = NewAccount(t, erase, TRUE, None, ref)]
    /\ provision' = [provision EXCEPT ![ref] = [tenant |-> t, account |-> a]]
    /\ spent' = spent \cup {t, a}
    /\ Return(c)
    /\ UNCHANGED <<role, session, sealed, queued, receipt, asked>>

\* A slug that is taken, a key that is refused or a statement that raises: rolled back.
ProvisionFails(c) ==
    /\ At(c, "provision", "locked")
    /\ Return(c)
    /\ UNCHANGED <<rows, asked>>

-----------------------------------------------------------------------------
(* Crypto sessions, acceptance and retention.                              *)

Live(t, s) == session[t][s].state = "live"

\* The row as the conflict clause leaves it: nobody takes revoked_at back.
Ended(row) == row.state = "revoked"

\* A service may write any row that is not revoked, a person a row of their own.
MayWrite(p, row) ==
    \/ row = NoSession
    \/ p.kind = "service" /\ ~Ended(row)
    \/ p.kind = "user" /\ row.owner = p.id

UpsertSession(c, s) ==
    LET t == call[c].tenant
        row == session[t][s] IN
    /\ At(c, "upsert", "write")
    /\ TenantKey(t)
    /\ MayWrite(call[c].who, row)
    /\ session' = [session EXCEPT ![t][s] =
                      [owner |-> call[c].who.id,
                       state |-> IF Ended(row) THEN "revoked" ELSE "live"]]
    /\ Return(c)
    /\ UNCHANGED <<tenant, role, account, provision, sealed, queued, receipt, spent, asked>>

RevokeSession(c, s) ==
    LET t == call[c].tenant
        row == session[t][s] IN
    /\ At(c, "revoke", "write")
    /\ row.state \in {"live", "expired"}
    /\ call[c].who.kind = "service" \/ row.owner = call[c].who.id
    /\ session' = [session EXCEPT ![t][s] = [@ EXCEPT !.state = "revoked"]]
    /\ Return(c)
    /\ UNCHANGED <<tenant, role, account, provision, sealed, queued, receipt, spent, asked>>

\* Time passes expires_at.
Expire(t, s) ==
    /\ Live(t, s)
    /\ session' = [session EXCEPT ![t][s] = [@ EXCEPT !.state = "expired"]]
    /\ UNCHANGED <<tenant, role, account, provision, sealed, queued, receipt, spent, call, asked>>

PurgeSession(t, s) ==
    /\ session[t][s].state \in {"expired", "revoked"}
    /\ session' = [session EXCEPT ![t][s] = NoSession]
    /\ UNCHANGED <<tenant, role, account, provision, sealed, queued, receipt, spent, call, asked>>

PurgeTelemetry(t) ==
    /\ t \in sealed
    /\ sealed' = sealed \ {t}
    /\ UNCHANGED <<tenant, role, account, provision, session, queued, receipt, spent, call, asked>>

SessionsActive(c) ==
    /\ At(c, "ingest", "sessions")
    /\ \E s \in Sessions : Live(call[c].tenant, s)
    /\ Go(c, "accept")
    /\ UNCHANGED <<rows, asked>>

\* The transaction IngestLedger models, as far as it adds rows of the tenant.  At most
\* one unfinished batch of a tenant is told apart.
AcceptIngest(c) ==
    LET t == call[c].tenant IN
    /\ At(c, "ingest", "accept")
    /\ TenantKey(t)
    /\ queued[t] = "no"
    /\ sealed' = sealed \cup {t}
    /\ queued' = [queued EXCEPT ![t] = "yes"]
    /\ Return(c)
    /\ UNCHANGED <<tenant, role, account, provision, session, receipt, spent, asked>>

BatchDone(t) ==
    /\ queued[t] = "yes"
    /\ queued' = [queued EXCEPT ![t] = "no"]
    /\ UNCHANGED <<tenant, role, account, provision, session, sealed, receipt, spent, call, asked>>

-----------------------------------------------------------------------------
(* Erasure: a look at the receipt, authorisation, then one transaction.    *)

ErasePrior(c) ==
    LET t == call[c].tenant IN
    /\ At(c, "erase", "prior")
    /\ IF Erased(t) /\ CanReadReceipt(call[c].who, t) THEN Return(c) ELSE Go(c, "access")
    /\ UNCHANGED <<rows, asked>>

Erasing(t) == {c \in Callers : At(c, "erase", "erase") /\ call[c].tenant = t}

\* The transaction lock, the second look, and the first deletion: the batches that are
\* there when its statement runs, which no key ties to the tenant.
EraseLock(c) ==
    LET t == call[c].tenant IN
    /\ At(c, "erase", "lock")
    /\ Erasing(t) = {}
    /\ IF Erased(t)
       THEN /\ Return(c)
            /\ UNCHANGED rows
       ELSE /\ Go(c, "erase")
            /\ queued' = [queued EXCEPT ![t] = IF @ = "yes" THEN "cut" ELSE @]
            /\ UNCHANGED <<tenant, role, account, provision, session, sealed, receipt, spent>>
    /\ UNCHANGED asked

\* Mutant: nothing of the credential is kept.
TombNone(p) == None

Tomb(p) == p.token

\* The rows that the deletions and their cascades leave.
Without(t) ==
    /\ tenant' = [tenant EXCEPT ![t] = None]
    /\ role' = [role EXCEPT ![t] = [u \in Users |-> None]]
    /\ account' = [a \in Accounts |-> IF a \in AccountsOf(t) THEN NoAccount ELSE account[a]]
    /\ provision' = [r \in Refs |-> IF provision[r].tenant = t THEN NoProvision
                                                               ELSE provision[r]]
    /\ session' = [session EXCEPT ![t] = [s \in Sessions |-> NoSession]]
    /\ sealed' = sealed \ {t}
    /\ queued' = [queued EXCEPT ![t] = IF @ = "cut" THEN "no" ELSE @]

\* A provisioning transaction holds its row, so the deletion of the tenant waits for it.
EraseCommit(c) ==
    LET t == call[c].tenant IN
    /\ At(c, "erase", "erase")
    /\ \A r \in Refs : provision[r].tenant = t => Provisioning(r) = {}
    /\ Without(t)
    /\ receipt' = [receipt EXCEPT ![t] = [by |-> call[c].who.id, tomb |-> Tomb(call[c].who),
                                          with |-> call[c].with]]
    /\ Return(c)
    /\ UNCHANGED <<spent, asked>>

\* Artifacts that cannot be deleted, or a deadlock with a provisioning: rolled back.
EraseFails(c) ==
    LET t == call[c].tenant IN
    /\ At(c, "erase", "erase")
    /\ queued' = [queued EXCEPT ![t] = IF @ = "cut" THEN "yes" ELSE @]
    /\ Return(c)
    /\ UNCHANGED <<tenant, role, account, provision, session, sealed, receipt, spent, asked>>

-----------------------------------------------------------------------------
Handle(c) ==
    \/ \E k \in Credentials, op \in Ops, t \in Tenants : Arrive(c, k, op, t)
    \/ \E r \in Refs, slug \in Slugs, remint \in BOOLEAN : PostProvision(c, r, slug, remint)
    \/ Authorize(c)
    \/ \E a \in Accounts, erase, key \in BOOLEAN, m \in Machines \cup {None} :
          CreateServiceAccount(c, a, erase, key, m)
    \/ \E a \in Accounts : RevokeServiceAccount(c, a)
    \/ Refused(c)
    \/ ProvisionLock(c) \/ Existing(c) \/ ProvisionFails(c)
    \/ \E a \in Accounts, erase \in BOOLEAN : Remint(c, a, erase)
    \/ \E t \in Tenants, a \in Accounts, erase \in BOOLEAN : Provision(c, t, a, erase)
    \/ \E s \in Sessions : UpsertSession(c, s) \/ RevokeSession(c, s)
    \/ SessionsActive(c) \/ AcceptIngest(c)
    \/ ErasePrior(c) \/ EraseLock(c) \/ EraseCommit(c) \/ EraseFails(c)

Next ==
    \/ \E c \in Callers : Handle(c)
    \/ \E u \in Users, t \in Tenants, slug \in Slugs : CreateTenant(u, t, slug)
    \/ \E t \in Tenants, u \in Users, given \in Roles : Invite(t, u, given)
    \/ \E t \in Tenants, s \in Sessions : Expire(t, s) \/ PurgeSession(t, s)
    \/ \E t \in Tenants : PurgeTelemetry(t) \/ BatchDone(t)

Spec == Init /\ [][Next]_vars

-----------------------------------------------------------------------------
AccountRows == [tenant : Tenants \cup {None}, scopes : SUBSET Scopes, active : BOOLEAN,
                key : BOOLEAN, machine : Machines \cup {None}, ref : Refs \cup {None}]
ProvisionRows == {NoProvision} \cup [tenant : Tenants, account : Accounts]
Principals == [kind : {"user", "service", "tombstone"}, id : Users \cup Accounts \cup {None},
               tenant : Tenants \cup {None}, scopes : SUBSET Scopes,
               token : Accounts \cup {None}]
Receipts == {NoReceipt} \cup [by : Users \cup Accounts \cup {None},
                             tomb : Accounts \cup {None}, with : Credentials]
TenantCalls == [op : Ops, tenant : Tenants, who : Principals, with : Credentials,
                step : {"prior", "access", "write", "sessions", "accept", "lock", "erase"}]
ProvisionCalls == [op : {"provision"}, step : {"lock", "locked"}, ref : Refs, slug : Slugs,
                   remint : BOOLEAN, seen : ProvisionRows]

(* Every row and every call has the fields the code gives it.               *)
TypeOK ==
    /\ tenant \in [Tenants -> Slugs \cup {None}]
    /\ role \in [Tenants -> [Users -> Roles \cup {None}]]
    /\ account \in [Accounts -> AccountRows]
    /\ provision \in [Refs -> ProvisionRows]
    /\ session \in [Tenants -> [Sessions ->
                       [owner : Users \cup Accounts \cup {None},
                        state : {"none", "live", "expired", "revoked"}]]]
    /\ sealed \subseteq Tenants
    /\ queued \in [Tenants -> {"no", "yes", "cut"}]
    /\ receipt \in [Tenants -> Receipts]
    /\ spent \subseteq Tenants \cup Accounts
    /\ call \in [Callers -> {Idle} \cup TenantCalls \cup ProvisionCalls]
    /\ asked \in 0..MaxAsked

Empty(t) ==
    /\ ~Exists(t)
    /\ \A u \in Users : role[t][u] = None
    /\ AccountsOf(t) = {}
    /\ \A r \in Refs : provision[r].tenant # t
    /\ \A s \in Sessions : session[t][s] = NoSession
    /\ t \notin sealed

(* An erased tenant has no row left in any table whose rows name it by key, *)
(* and none comes back: not from a request that was authorised before the  *)
(* erasure and writes after it, nor from a rotation of its credential that *)
(* overlaps it.                                                            *)
ErasedForGood == \A t \in Tenants : Erased(t) => Empty(t)

(* Of all the credentials minted for one partner reference, however often  *)
(* it is provisioned, rotated or erased and by however many callers at     *)
(* once, only the one its row names is live.                               *)
OneLiveCredential ==
    \A a \in Accounts :
        account[a].active /\ account[a].ref # None => provision[account[a].ref].account = a

(* Whoever erased a tenant as a person or with an opaque token and lost    *)
(* the answer gets the receipt with the same credential, though the row    *)
(* behind the credential is gone with the tenant.                          *)
LostAnswerRecovered ==
    \A t \in Tenants :
        (Erased(t) /\ receipt[t].with.kind \in {"user", "opaque"})
            => CanReadReceipt(Principal(receipt[t].with, "erase", t), t)

(* An unfinished batch does not outlive its tenant.                        *)
NoBatchLeft == \A t \in Tenants : Erased(t) => queued[t] = "no"
==============================================================================
