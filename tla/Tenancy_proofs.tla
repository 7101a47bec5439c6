----------------------------- MODULE Tenancy_proofs -----------------------------
(***************************************************************************)
(* What holds of tenants, credentials and erasures for every number of     *)
(* requests, ids and references.                                           *)
(***************************************************************************)
EXTENDS Tenancy, TLAPS

\* A row that names a tenant by key has a tenant; an erased one has gone.
Rooted == \A t \in Tenants : /\ ~Exists(t) => Empty(t)
                             /\ Erased(t) => ~Exists(t)

\* An id is taken from when its row is made, and stays taken.
Known == /\ \A t \in Tenants : Exists(t) \/ Erased(t) => t \in spent
         /\ \A a \in Accounts :
               account[a] # NoAccount => a \in spent /\ account[a].tenant \in Tenants

\* A service principal is of the tenant its row was made for, while there is one.
ServiceTrue(p) ==
    p.kind = "service" =>
        /\ p.tenant \in spent \cap Tenants
        /\ p.id \in spent \cap Accounts
        /\ account[p.id] = NoAccount \/ account[p.id].tenant = p.tenant

\* A request holds the principal its credential stands for, and one on its way to an
\* erasure may erase.
Honest(q) ==
    q.op \in Ops =>
        /\ ServiceTrue(q.who)
        /\ q.with.kind = "user" => q.who = User(q.with.id)
        /\ q.who.kind = "user" => q.with.kind = "user"
        /\ (q.op = "erase" /\ q.with.kind = "opaque") =>
              \/ q.who.kind = "tombstone"
              \/ q.who.kind = "service" /\ q.who.id = q.with.id /\ q.who.token = q.with.id
        /\ q.step \in {"lock", "erase"} =>
              /\ q.tenant \in spent
              /\ q.who.kind # "tombstone"
              /\ q.who.kind = "service" => q.who.tenant = q.tenant

CallsTrue == \A c \in Callers : Honest(call[c])

\* A live credential of a reference is the one its row names, of the same tenant.
Linked ==
    \A a \in Accounts :
        account[a].active /\ account[a].ref # None =>
            provision[account[a].ref] = [tenant |-> account[a].tenant, account |-> a]

\* Who provisions a reference does so alone and has seen the row as it is.
SeenTrue ==
    \A c \in Callers :
        At(c, "provision", "locked") =>
            /\ call[c].seen = provision[call[c].ref]
            /\ \A d \in Callers :
                  At(d, "provision", "locked") /\ call[d].ref = call[c].ref => d = c

\* A receipt knows the credential of the erasure, and no row has it any more.
Recorded ==
    \A t \in Tenants :
        Erased(t) =>
            /\ receipt[t].with.kind = "user" => receipt[t].by = receipt[t].with.id
            /\ receipt[t].with.kind = "opaque" =>
                  /\ receipt[t].tomb = receipt[t].with.id
                  /\ receipt[t].with.id \in spent
                  /\ account[receipt[t].with.id] = NoAccount

IInv == TypeOK /\ Rooted /\ Known /\ CallsTrue /\ Linked /\ SeenTrue /\ Recorded

-----------------------------------------------------------------------------

\* TypeOK in two parts: the tables, and the requests in flight.
RowsOK ==
    /\ tenant \in [Tenants -> Slugs \cup {None}]
    /\ role \in [Tenants -> [Users -> Roles \cup {None}]]
    /\ account \in [Accounts -> AccountRows]
    /\ provision \in [Refs -> ProvisionRows]
    /\ session \in [Tenants -> [Sessions ->
                       [owner : Users \cup Accounts \cup {None},
                        state : {"none", "live", "expired", "revoked"}]]]
    /\ sealed \subseteq Tenants
    /\ queued \in [Tenants -> {"no", "yes", "cut"}]
    /\ receipt \in [Tenants -> Receipts]
    /\ spent \subseteq Tenants \cup Accounts

CallOK == call \in [Callers -> {Idle} \cup TenantCalls \cup ProvisionCalls]

\* The steps of a call tell what it is a call of.
LEMMA CallFields ==
    ASSUME CallOK, NEW c \in Callers
    PROVE  /\ call[c].op \in Ops => call[c] \in TenantCalls
           /\ call[c].op = "provision" => call[c] \in ProvisionCalls
           /\ call[c].step \in {"prior", "access", "write", "sessions", "accept", "erase"} =>
                 call[c] \in TenantCalls
  BY DEF CallOK, Idle, TenantCalls, ProvisionCalls, Ops

\* What a credential stands for has the fields of a principal.
LEMMA PrincipalFields ==
    ASSUME RowsOK, NEW k \in Credentials, NEW op, NEW t \in Tenants,
           Principal(k, op, t) # Nobody
    PROVE  Principal(k, op, t) \in Principals
<1>1. CASE k.kind = "user"
  BY <1>1 DEF Principal, User, Nobody, Principals, Credentials, Scopes
<1>2. ASSUME NEW a \in Accounts, NEW token \in Accounts \cup {None}
      PROVE  Service(a, token) \in Principals
  <2>1. account[a] \in AccountRows
    BY DEF RowsOK
  <2> QED
    BY <2>1 DEF Service, Principals, AccountRows
<1>3. CASE k.kind = "opaque"
  <2>1. k.id \in Accounts
    BY <1>3 DEF Credentials
  <2>2. Tombstone(t) \in Principals
    BY DEF Tombstone, Nobody, Principals, Scopes
  <2>3. OpaquePrincipal(k.id, op, t) \in Principals \cup {Nobody}
    BY <1>2, <2>1, <2>2 DEF OpaquePrincipal
  <2> QED
    BY <1>3, <2>3 DEF Principal
<1>4. CASE k.kind = "machine"
  <2>1. BoundMachine(k.id) \in Principals \cup {Nobody}
    BY <1>2 DEF BoundMachine
  <2> QED
    BY <1>4, <2>1 DEF Principal
<1> QED
  BY <1>1, <1>3, <1>4 DEF Credentials

\* A new row of service_accounts has its fields.
LEMMA NewAccountFields ==
    ASSUME NEW t \in Tenants, NEW erase \in BOOLEAN, NEW key \in BOOLEAN,
           NEW m \in Machines \cup {None}, NEW ref \in Refs \cup {None}
    PROVE  NewAccount(t, erase, key, m, ref) \in AccountRows
  BY DEF NewAccount, AccountRows, Scopes, DefaultScopes

\* Every step keeps the fields of the rows.
LEMMA RowsStep ==
    ASSUME RowsOK, CallOK, [Next]_vars
    PROVE  RowsOK'
<1>1. ASSUME NEW c \in Callers, NEW a \in Accounts, NEW erase \in BOOLEAN, NEW key \in
             BOOLEAN, NEW m \in Machines \cup {None},
             CreateServiceAccount(c, a, erase, key, m)
      PROVE  RowsOK'
  <2>1. call[c] \in TenantCalls
    BY <1>1, CallFields DEF CreateServiceAccount, At, Ops
  <2> QED
    BY <1>1, <2>1, NewAccountFields
       DEF CreateServiceAccount, RowsOK, TenantCalls, Fresh
<1>2. ASSUME NEW c \in Callers, NEW a \in Accounts,
             RevokeServiceAccount(c, a)
      PROVE  RowsOK'
  <2>1. account[a] \in AccountRows
    BY DEF RowsOK
  <2>2. [account[a] EXCEPT !.active = FALSE, !.key = FALSE] \in AccountRows
    BY <2>1 DEF AccountRows
  <2> QED
    BY <1>2, <2>2 DEF RevokeServiceAccount, RowsOK
<1>3. ASSUME NEW c \in Callers, NEW a \in Accounts, NEW erase \in BOOLEAN,
             Remint(c, a, erase)
      PROVE  RowsOK'
  <2> DEFINE seen == call[c].seen
             ref == call[c].ref
             new == NewAccount(seen.tenant, erase, TRUE, None, ref)
  <2>1. call[c] \in ProvisionCalls
    BY <1>3, CallFields DEF Remint, At
  <2>2. ref \in Refs /\ seen.tenant \in Tenants /\ seen.account \in Accounts
    BY <1>3, <2>1 DEF Remint, ProvisionCalls, ProvisionRows
  <2>3. new \in AccountRows
    BY <2>2, NewAccountFields
  <2>4. account[seen.account] \in AccountRows
    BY <2>2 DEF RowsOK
  <2>5. Retired(seen.account) \in AccountRows
    BY <2>4 DEF Retired, AccountRows
  <2>6. /\ account' = [account EXCEPT ![seen.account] = Retired(seen.account), ![a] = new]
        /\ provision' = [provision EXCEPT ![ref] = IF @ = NoProvision THEN @
                                                   ELSE [@ EXCEPT !.account = a]]
        /\ spent' = spent \cup {a}
        /\ UNCHANGED <<tenant, role, session, sealed, queued, receipt>>
    BY <1>3 DEF Remint
  <2> HIDE DEF seen, ref, new
  <2>7. account' \in [Accounts -> AccountRows]
    BY <2>2, <2>3, <2>5, <2>6 DEF RowsOK
  <2>8. provision' \in [Refs -> ProvisionRows]
    BY <2>2, <2>6 DEF RowsOK, ProvisionRows
  <2> QED
    BY <2>6, <2>7, <2>8 DEF RowsOK
<1>4. ASSUME NEW c \in Callers, NEW t \in Tenants, NEW a \in Accounts, NEW erase \in
             BOOLEAN,
             Provision(c, t, a, erase)
      PROVE  RowsOK'
  <2>1. call[c] \in ProvisionCalls
    BY <1>4, CallFields DEF Provision, At
  <2> QED
    BY <1>4, <2>1, NewAccountFields
       DEF Provision, RowsOK, ProvisionCalls, ProvisionRows, AddTenant, Fresh
<1>5. ASSUME NEW c \in Callers, NEW s \in Sessions,
             UpsertSession(c, s)
      PROVE  RowsOK'
  <2>1. call[c] \in TenantCalls
    BY <1>5, CallFields DEF UpsertSession, At, Ops
  <2> QED
    BY <1>5, <2>1 DEF UpsertSession, RowsOK, TenantCalls, Principals
<1>6. ASSUME NEW c \in Callers, NEW s \in Sessions,
             RevokeSession(c, s)
      PROVE  RowsOK'
  <2>1. call[c] \in TenantCalls
    BY <1>6, CallFields DEF RevokeSession, At, Ops
  <2> QED
    BY <1>6, <2>1 DEF RevokeSession, RowsOK, TenantCalls
<1>7. ASSUME NEW c \in Callers,
             AcceptIngest(c)
      PROVE  RowsOK'
  <2>1. call[c] \in TenantCalls
    BY <1>7, CallFields DEF AcceptIngest, At, Ops
  <2> QED
    BY <1>7, <2>1 DEF AcceptIngest, RowsOK, TenantCalls
<1>8. ASSUME NEW c \in Callers,
             EraseLock(c)
      PROVE  RowsOK'
  <2>1. call[c] \in TenantCalls
    BY <1>8, CallFields DEF EraseLock, At, Ops
  <2> QED
    BY <1>8, <2>1 DEF EraseLock, rows, RowsOK, TenantCalls
<1>9. ASSUME NEW c \in Callers,
             EraseCommit(c)
      PROVE  RowsOK'
  <2>1. call[c] \in TenantCalls
    BY <1>9, CallFields DEF EraseCommit, At, Ops
  <2> QED
    BY <1>9, <2>1
       DEF EraseCommit, RowsOK, TenantCalls, Without, Tomb, Principals,
           Receipts, AccountRows, NoAccount, ProvisionRows, NoSession
<1>10. ASSUME NEW c \in Callers,
             EraseFails(c)
      PROVE  RowsOK'
  <2>1. call[c] \in TenantCalls
    BY <1>10, CallFields DEF EraseFails, At, Ops
  <2> QED
    BY <1>10, <2>1 DEF EraseFails, RowsOK, TenantCalls
<1>11. ASSUME NEW u \in Users, NEW t \in Tenants, NEW slug \in Slugs,
             CreateTenant(u, t, slug)
      PROVE  RowsOK'
  BY <1>11, TenancyAssumption DEF CreateTenant, Ask, RowsOK, AddTenant, Fresh
<1>12. ASSUME NEW t \in Tenants, NEW u \in Users, NEW given \in Roles,
             Invite(t, u, given)
      PROVE  RowsOK'
  BY <1>12 DEF Invite, RowsOK
<1>13. ASSUME NEW t \in Tenants, NEW s \in Sessions,
             Expire(t, s)
      PROVE  RowsOK'
  <2>1. [session[t][s] EXCEPT !.state = "expired"]
           \in [owner : Users \cup Accounts \cup {None},
               state : {"none", "live", "expired", "revoked"}]
    BY DEF RowsOK
  <2> QED
    BY <1>13, <2>1 DEF Expire, RowsOK
<1>14. ASSUME NEW t \in Tenants, NEW s \in Sessions,
             PurgeSession(t, s)
      PROVE  RowsOK'
  BY <1>14 DEF PurgeSession, RowsOK, NoSession
<1>15. ASSUME NEW t \in Tenants,
             PurgeTelemetry(t)
      PROVE  RowsOK'
  BY <1>15 DEF PurgeTelemetry, RowsOK
<1>16. ASSUME NEW t \in Tenants,
             BatchDone(t)
      PROVE  RowsOK'
  BY <1>16 DEF BatchDone, RowsOK
<1>17. CASE UNCHANGED <<account, provision, queued, receipt, role, sealed, session, spent, tenant>>
  BY <1>17 DEF RowsOK
<1> QED
  BY <1>1, <1>2, <1>3, <1>4, <1>5, <1>6, <1>7, <1>8, <1>9, <1>10, <1>11,
     <1>12, <1>13, <1>14, <1>15, <1>16, <1>17
     DEF Next, Handle, vars, Arrive, PostProvision, Authorize, Refused,
         ProvisionLock, Existing, ProvisionFails, SessionsActive, ErasePrior,
         rows

\* Every step keeps the fields of the calls.
LEMMA CallStep ==
    ASSUME RowsOK, CallOK, [Next]_vars
    PROVE  CallOK'
<1>1. ASSUME NEW c \in Callers, NEW k \in Credentials, NEW op \in Ops, NEW t \in
             Tenants,
             Arrive(c, k, op, t)
      PROVE  CallOK'
  BY <1>1, PrincipalFields DEF Arrive, rows, Ask, Enter, CallOK, TenantCalls
<1>2. ASSUME NEW c \in Callers, NEW r \in Refs, NEW slug \in Slugs, NEW remint \in
             BOOLEAN,
             PostProvision(c, r, slug, remint)
      PROVE  CallOK'
  BY <1>2
     DEF PostProvision, rows, Ask, Enter, CallOK, ProvisionCalls, ProvisionRows
<1>3. ASSUME NEW c \in Callers,
             Authorize(c)
      PROVE  CallOK'
  BY <1>3, CallFields
     DEF Authorize, rows, Go, Return, CallOK, Idle, TenantCalls, ProvisionCalls
<1>4. ASSUME NEW c \in Callers, NEW a \in Accounts, NEW erase \in BOOLEAN, NEW key \in
             BOOLEAN, NEW m \in Machines \cup {None},
             CreateServiceAccount(c, a, erase, key, m)
      PROVE  CallOK'
  BY <1>4, CallFields
     DEF CreateServiceAccount, At, Return, CallOK, Idle, TenantCalls,
         ProvisionCalls
<1>5. ASSUME NEW c \in Callers, NEW a \in Accounts,
             RevokeServiceAccount(c, a)
      PROVE  CallOK'
  BY <1>5, CallFields
     DEF RevokeServiceAccount, At, Return, CallOK, Idle, TenantCalls,
         ProvisionCalls
<1>6. ASSUME NEW c \in Callers,
             Refused(c)
      PROVE  CallOK'
  BY <1>6, CallFields
     DEF Refused, rows, Return, CallOK, Idle, TenantCalls, ProvisionCalls
<1>7. ASSUME NEW c \in Callers,
             ProvisionLock(c)
      PROVE  CallOK'
  <2>1. call[c] \in ProvisionCalls
    BY <1>7, CallFields DEF ProvisionLock, At
  <2>2. provision[call[c].ref] \in ProvisionRows
    BY <2>1 DEF RowsOK, ProvisionCalls
  <2>3. [call[c] EXCEPT !.step = "locked", !.seen = provision[call[c].ref]] \in ProvisionCalls
    BY <2>1, <2>2 DEF ProvisionCalls
  <2> QED
    BY <1>7, <2>3 DEF ProvisionLock, CallOK
<1>8. ASSUME NEW c \in Callers,
             Existing(c)
      PROVE  CallOK'
  BY <1>8, CallFields
     DEF Existing, rows, At, Return, CallOK, Idle, TenantCalls, ProvisionCalls
<1>9. ASSUME NEW c \in Callers,
             ProvisionFails(c)
      PROVE  CallOK'
  BY <1>9, CallFields
     DEF ProvisionFails, rows, At, Return, CallOK, Idle, TenantCalls,
         ProvisionCalls
<1>10. ASSUME NEW c \in Callers, NEW a \in Accounts, NEW erase \in BOOLEAN,
             Remint(c, a, erase)
      PROVE  CallOK'
  BY <1>10, CallFields
     DEF Remint, At, Return, CallOK, Idle, TenantCalls, ProvisionCalls
<1>11. ASSUME NEW c \in Callers, NEW t \in Tenants, NEW a \in Accounts, NEW erase \in
             BOOLEAN,
             Provision(c, t, a, erase)
      PROVE  CallOK'
  BY <1>11, CallFields
     DEF Provision, At, Return, CallOK, Idle, TenantCalls, ProvisionCalls
<1>12. ASSUME NEW c \in Callers, NEW s \in Sessions,
             UpsertSession(c, s)
      PROVE  CallOK'
  BY <1>12, CallFields
     DEF UpsertSession, At, Return, CallOK, Idle, TenantCalls, ProvisionCalls
<1>13. ASSUME NEW c \in Callers, NEW s \in Sessions,
             RevokeSession(c, s)
      PROVE  CallOK'
  BY <1>13, CallFields
     DEF RevokeSession, At, Return, CallOK, Idle, TenantCalls, ProvisionCalls
<1>14. ASSUME NEW c \in Callers,
             SessionsActive(c)
      PROVE  CallOK'
  BY <1>14, CallFields
     DEF SessionsActive, rows, At, Go, CallOK, Idle, TenantCalls, ProvisionCalls
<1>15. ASSUME NEW c \in Callers,
             AcceptIngest(c)
      PROVE  CallOK'
  BY <1>15, CallFields
     DEF AcceptIngest, At, Return, CallOK, Idle, TenantCalls, ProvisionCalls
<1>16. ASSUME NEW c \in Callers,
             ErasePrior(c)
      PROVE  CallOK'
  BY <1>16, CallFields
     DEF ErasePrior, rows, At, Return, Go, CallOK, Idle, TenantCalls,
         ProvisionCalls
<1>17. ASSUME NEW c \in Callers,
             EraseLock(c)
      PROVE  CallOK'
  BY <1>17, CallFields
     DEF EraseLock, rows, At, Return, Go, CallOK, Idle, TenantCalls,
         ProvisionCalls
<1>18. ASSUME NEW c \in Callers,
             EraseCommit(c)
      PROVE  CallOK'
  BY <1>18, CallFields
     DEF EraseCommit, At, Return, CallOK, Idle, TenantCalls, ProvisionCalls
<1>19. ASSUME NEW c \in Callers,
             EraseFails(c)
      PROVE  CallOK'
  BY <1>19, CallFields
     DEF EraseFails, At, Return, CallOK, Idle, TenantCalls, ProvisionCalls
<1>20. CASE UNCHANGED call
  BY <1>20 DEF CallOK
<1> QED
  BY <1>1, <1>2, <1>3, <1>4, <1>5, <1>6, <1>7, <1>8, <1>9, <1>10, <1>11,
     <1>12, <1>13, <1>14, <1>15, <1>16, <1>17, <1>18, <1>19, <1>20
     DEF Next, Handle, vars, CreateTenant, Invite, Expire, PurgeSession,
         PurgeTelemetry, BatchDone

\* What a rotation does to each row.
Rotated(c, a) ==
    /\ call[c].ref \in Refs
    /\ call[c].seen.tenant \in Tenants /\ call[c].seen.account \in Accounts
    /\ At(c, "provision", "locked")
    /\ Exists(call[c].seen.tenant)
    /\ a \notin spent /\ spent' = spent \cup {a}
    /\ account'[a].tenant = call[c].seen.tenant /\ account'[a].ref = call[c].ref
    /\ \A x \in Accounts \ {a} :
          /\ account'[x].tenant = account[x].tenant /\ account'[x].ref = account[x].ref
          /\ account[x] = NoAccount => account'[x] = NoAccount
          /\ account'[x].active => account[x].active /\ x # call[c].seen.account
    /\ \A r \in Refs \ {call[c].ref} : provision'[r] = provision[r]
    /\ provision[call[c].ref] = NoProvision => provision'[call[c].ref] = NoProvision
    /\ provision[call[c].ref] # NoProvision =>
          provision'[call[c].ref] = [tenant |-> provision[call[c].ref].tenant, account |-> a]
    /\ UNCHANGED <<tenant, role, session, sealed, queued, receipt>>

\* A rotation does that.
LEMMA Rotating ==
    ASSUME RowsOK, CallOK, NEW c \in Callers, NEW a \in Accounts, NEW erase \in BOOLEAN,
           Remint(c, a, erase)
    PROVE  Rotated(c, a)
<1> DEFINE seen == call[c].seen
           ref  == call[c].ref
           new  == NewAccount(seen.tenant, erase, TRUE, None, ref)
<1>1. call[c] \in ProvisionCalls
  BY CallFields DEF Remint, At
<1>2. ref \in Refs /\ seen.tenant \in Tenants /\ seen.account \in Accounts
  BY <1>1 DEF Remint, ProvisionCalls, ProvisionRows
<1>3. /\ account' = [account EXCEPT ![seen.account] = Retired(seen.account), ![a] = new]
      /\ provision' = [provision EXCEPT ![ref] = IF @ = NoProvision THEN @
                                                 ELSE [@ EXCEPT !.account = a]]
      /\ spent' = spent \cup {a}
      /\ a \notin spent
      /\ At(c, "provision", "locked")
      /\ Exists(seen.tenant)
      /\ UNCHANGED <<tenant, role, session, sealed, queued, receipt>>
  BY DEF Remint, Fresh, TenantKey
<1>4. new.tenant = seen.tenant /\ new.ref = ref
  BY DEF NewAccount
<1>5. \A x \in Accounts : account[x] \in AccountRows
  BY DEF RowsOK
<1>6. \A x \in Accounts :
         /\ Retired(x).tenant = account[x].tenant /\ Retired(x).ref = account[x].ref
         /\ ~Retired(x).active
         /\ account[x] = NoAccount => Retired(x) = NoAccount
  BY <1>5 DEF Retired, AccountRows, NoAccount
<1> HIDE DEF new
<1>7. /\ account'[a] = new
      /\ \A x \in Accounts \ {a} :
            account'[x] = IF x = seen.account THEN Retired(x) ELSE account[x]
  BY <1>2, <1>3 DEF RowsOK
<1>8. \A r \in Refs : provision'[r] = IF r = ref /\ provision[r] # NoProvision
                                       THEN [provision[r] EXCEPT !.account = a]
                                       ELSE provision[r]
  BY <1>2, <1>3 DEF RowsOK
<1>9. provision[ref] # NoProvision => provision[ref] \in [tenant : Tenants, account : Accounts]
  BY <1>2 DEF RowsOK, ProvisionRows
<1>10. \A x \in Accounts \ {a} :
          /\ account'[x].tenant = account[x].tenant /\ account'[x].ref = account[x].ref
          /\ account[x] = NoAccount => account'[x] = NoAccount
          /\ account'[x].active => account[x].active /\ x # seen.account
  BY <1>6, <1>7
<1>11. provision[ref] # NoProvision =>
          provision'[ref] = [tenant |-> provision[ref].tenant, account |-> a]
  BY <1>2, <1>8, <1>9
<1>12. account'[a].tenant = seen.tenant /\ account'[a].ref = ref
  BY <1>4, <1>7
<1>13. /\ \A r \in Refs \ {ref} : provision'[r] = provision[r]
       /\ provision[ref] = NoProvision => provision'[ref] = NoProvision
  BY <1>2, <1>8
<1> QED
  BY <1>2, <1>3, <1>10, <1>11, <1>12, <1>13 DEF Rotated

\* What the creation of a tenant by the partner does to each row.
Opened(c, t, a) ==
    /\ call[c].ref \in Refs
    /\ At(c, "provision", "locked")
    /\ provision[call[c].ref] = NoProvision
    /\ t \notin spent /\ a \notin spent /\ spent' = spent \cup {t, a}
    /\ tenant'[t] # None
    /\ \A x \in Tenants \ {t} : tenant'[x] = tenant[x]
    /\ account'[a].tenant = t /\ account'[a].ref = call[c].ref
    /\ \A x \in Accounts \ {a} : account'[x] = account[x]
    /\ provision'[call[c].ref] = [tenant |-> t, account |-> a]
    /\ \A r \in Refs \ {call[c].ref} : provision'[r] = provision[r]
    /\ UNCHANGED <<role, session, sealed, queued, receipt>>

\* The creation of a tenant by the partner does that.
LEMMA Opening ==
    ASSUME RowsOK, CallOK, NEW c \in Callers, NEW t \in Tenants, NEW a \in Accounts,
           NEW erase \in BOOLEAN, Provision(c, t, a, erase)
    PROVE  Opened(c, t, a)
<1>1. call[c] \in ProvisionCalls
  BY CallFields DEF Provision, At
<1> QED
  BY <1>1, TenancyAssumption
     DEF Opened, Provision, RowsOK, ProvisionCalls, AddTenant, Fresh, NewAccount

\* What a revocation does to each row.
Revoked(a) ==
    /\ account[a] # NoAccount
    /\ ~account'[a].active
    /\ account'[a].tenant = account[a].tenant /\ account'[a].ref = account[a].ref
    /\ \A x \in Accounts \ {a} : account'[x] = account[x]
    /\ UNCHANGED <<tenant, role, provision, session, sealed, queued, receipt, spent>>

\* A revocation does that.
LEMMA Revoking ==
    ASSUME RowsOK, CallOK, NEW c \in Callers, NEW a \in Accounts, RevokeServiceAccount(c, a)
    PROVE  Revoked(a)
<1>1. call[c] \in TenantCalls
  BY CallFields DEF RevokeServiceAccount, At, Ops
<1>2. account[a] \in AccountRows
  BY DEF RowsOK
<1>3. account[a].tenant = call[c].tenant
  BY DEF RevokeServiceAccount, AccountsOf
<1>4. account[a] # NoAccount
  BY <1>1, <1>3, TenancyAssumption DEF TenantCalls, NoAccount
<1>5. account' = [account EXCEPT ![a] = [account[a] EXCEPT !.active = FALSE, !.key = FALSE]]
  BY DEF RevokeServiceAccount, RowsOK
<1>6. /\ account'[a] = [account[a] EXCEPT !.active = FALSE, !.key = FALSE]
      /\ \A x \in Accounts \ {a} : account'[x] = account[x]
  BY <1>5 DEF RowsOK
<1>7. ~account'[a].active /\ account'[a].tenant = account[a].tenant
                          /\ account'[a].ref = account[a].ref
  BY <1>2, <1>6 DEF AccountRows
<1> QED
  BY <1>4, <1>6, <1>7 DEF RevokeServiceAccount, Revoked

\* What an erasure does to each row.
Cleaned(c) ==
    /\ call[c] \in TenantCalls /\ At(c, "erase", "erase")
    /\ tenant'[call[c].tenant] = None
    /\ \A t \in Tenants \ {call[c].tenant} :
          /\ tenant'[t] = tenant[t] /\ role'[t] = role[t]
          /\ session'[t] = session[t] /\ receipt'[t] = receipt[t]
    /\ \A u \in Users : role'[call[c].tenant][u] = None
    /\ \A s \in Sessions : session'[call[c].tenant][s] = NoSession
    /\ sealed' = sealed \ {call[c].tenant}
    /\ \A a \in Accounts :
          account'[a] = IF account[a].tenant = call[c].tenant THEN NoAccount
                                                              ELSE account[a]
    /\ \A r \in Refs :
          provision'[r] = IF provision[r].tenant = call[c].tenant THEN NoProvision
                                                                  ELSE provision[r]
    /\ \A r \in Refs : provision'[r] # provision[r] => Provisioning(r) = {}
    /\ receipt'[call[c].tenant] = [by |-> call[c].who.id, tomb |-> call[c].who.token,
                                   with |-> call[c].with]
    /\ receipt'[call[c].tenant] # NoReceipt
    /\ spent' = spent

\* An erasure does that.
LEMMA Cleaning ==
    ASSUME RowsOK, CallOK, NEW c \in Callers, EraseCommit(c)
    PROVE  Cleaned(c)
<1>1. call[c] \in TenantCalls
  BY CallFields DEF EraseCommit, At, Ops
<1>2. call[c].tenant \in Tenants /\ call[c].with \in Credentials
  BY <1>1 DEF TenantCalls
<1>3. /\ tenant'[call[c].tenant] = None
      /\ \A t \in Tenants \ {call[c].tenant} :
            /\ tenant'[t] = tenant[t] /\ role'[t] = role[t]
            /\ session'[t] = session[t] /\ receipt'[t] = receipt[t]
      /\ \A u \in Users : role'[call[c].tenant][u] = None
      /\ \A s \in Sessions : session'[call[c].tenant][s] = NoSession
      /\ sealed' = sealed \ {call[c].tenant}
      /\ receipt'[call[c].tenant] = [by |-> call[c].who.id, tomb |-> call[c].who.token,
                                     with |-> call[c].with]
  BY <1>2 DEF EraseCommit, Without, RowsOK, Tomb
<1>4. \A a \in Accounts :
         account'[a] = IF account[a].tenant = call[c].tenant THEN NoAccount ELSE account[a]
  BY DEF EraseCommit, Without, AccountsOf
<1>5. \A r \in Refs :
         provision'[r] = IF provision[r].tenant = call[c].tenant THEN NoProvision
                                                                 ELSE provision[r]
  BY DEF EraseCommit, Without
<1>6. \A r \in Refs : provision[r].tenant = call[c].tenant => Provisioning(r) = {}
  BY DEF EraseCommit
<1>7. receipt'[call[c].tenant] # NoReceipt
  <2>1. call[c].with.kind # "none"
    BY <1>2 DEF Credentials
  <2>2. receipt'[call[c].tenant].with.kind # "none"
    BY <1>3, <2>1
  <2> QED
    BY <2>2 DEF NoReceipt, None
<1> QED
  BY <1>1, <1>3, <1>4, <1>5, <1>6, <1>7 DEF EraseCommit, Cleaned

\* Ids stay taken; a row of service_accounts keeps its tenant until it goes, and does not
\* come back.
Stay ==
    /\ spent \subseteq spent'
    /\ \A a \in spent \cap Accounts :
          /\ account[a] = NoAccount => account'[a] = NoAccount
          /\ account'[a] = NoAccount \/ account'[a].tenant = account[a].tenant

\* No step leaves a row without its tenant, or brings an erased tenant back.
LEMMA RootedStep ==
    ASSUME RowsOK, CallOK, Rooted, Known, [Next]_vars
    PROVE  Rooted'
<1>1. ASSUME NEW c \in Callers, NEW a \in Accounts, NEW erase \in BOOLEAN, NEW key \in
             BOOLEAN, NEW m \in Machines \cup {None},
             CreateServiceAccount(c, a, erase, key, m)
      PROVE  Rooted'
  <2>1. call[c] \in TenantCalls
    BY <1>1, CallFields DEF CreateServiceAccount, At, Ops
  <2> QED
    BY <1>1, <2>1, NewAccountFields
       DEF CreateServiceAccount, RowsOK, Rooted, Exists, Erased, Empty,
           AccountsOf, TenantCalls, NewAccount, TenantKey
<1>2. ASSUME NEW c \in Callers, NEW a \in Accounts,
             RevokeServiceAccount(c, a)
      PROVE  Rooted'
  <2>1. Revoked(a)
    BY <1>2, Revoking
  <2> QED
    BY <2>1 DEF Revoked, Rooted, Exists, Erased, Empty, AccountsOf
<1>3. ASSUME NEW c \in Callers, NEW a \in Accounts, NEW erase \in BOOLEAN,
             Remint(c, a, erase)
      PROVE  Rooted'
  <2>1. Rotated(c, a)
    BY <1>3, Rotating
  <2> QED
    BY <2>1 DEF Rotated, Rooted, Exists, Erased, Empty, AccountsOf
<1>4. ASSUME NEW c \in Callers, NEW t \in Tenants, NEW a \in Accounts, NEW erase \in
             BOOLEAN,
             Provision(c, t, a, erase)
      PROVE  Rooted'
  <2> SUFFICES ASSUME NEW x \in Tenants
               PROVE  (~Exists(x) => Empty(x))' /\ (Erased(x) => ~Exists(x))'
    BY DEF Rooted
  <2>1. Opened(c, t, a)
    BY <1>4, Opening
  <2>2. CASE x = t
    BY <2>1, <2>2 DEF Opened, Known, Exists, Erased
  <2>3. CASE x # t
    BY <2>1, <2>3 DEF Opened, Rooted, Exists, Erased, Empty, AccountsOf
  <2> QED
    BY <2>2, <2>3
<1>5. ASSUME NEW c \in Callers, NEW s \in Sessions,
             UpsertSession(c, s)
      PROVE  Rooted'
  <2>1. call[c] \in TenantCalls
    BY <1>5, CallFields DEF UpsertSession, At, Ops
  <2> QED
    BY <1>5, <2>1
       DEF UpsertSession, RowsOK, Rooted, Exists, Erased, Empty, AccountsOf,
           TenantCalls, TenantKey
<1>6. ASSUME NEW c \in Callers, NEW s \in Sessions,
             RevokeSession(c, s)
      PROVE  Rooted'
  <2>1. call[c] \in TenantCalls
    BY <1>6, CallFields DEF RevokeSession, At, Ops
  <2> QED
    BY <1>6, <2>1
       DEF RevokeSession, RowsOK, Rooted, Exists, Erased, Empty, AccountsOf,
           TenantCalls, NoSession
<1>7. ASSUME NEW c \in Callers,
             AcceptIngest(c)
      PROVE  Rooted'
  <2>1. call[c] \in TenantCalls
    BY <1>7, CallFields DEF AcceptIngest, At, Ops
  <2> QED
    BY <1>7, <2>1
       DEF AcceptIngest, RowsOK, Rooted, Exists, Erased, Empty, AccountsOf,
           TenantCalls, TenantKey
<1>8. ASSUME NEW c \in Callers,
             EraseCommit(c)
      PROVE  Rooted'
  <2> SUFFICES ASSUME NEW x \in Tenants
               PROVE  (~Exists(x) => Empty(x))' /\ (Erased(x) => ~Exists(x))'
    BY DEF Rooted
  <2>1. None \notin Tenants
    BY TenancyAssumption
  <2>4. Cleaned(c)
    BY <1>8, Cleaning
  <2>2. CASE x = call[c].tenant
    BY <2>1, <2>2, <2>4
       DEF Cleaned, Exists, Erased, Empty, AccountsOf, NoAccount, NoProvision
  <2>3. CASE x # call[c].tenant
    BY <2>1, <2>3, <2>4
       DEF Cleaned, Rooted, Exists, Erased, Empty, AccountsOf, NoAccount, NoProvision
  <2> QED
    BY <2>2, <2>3
<1>9. ASSUME NEW u \in Users, NEW t \in Tenants, NEW slug \in Slugs,
             CreateTenant(u, t, slug)
      PROVE  Rooted'
  <2>1. /\ tenant'[t] # None /\ t \notin spent
        /\ \A x \in Tenants \ {t} : tenant'[x] = tenant[x] /\ role'[x] = role[x]
        /\ UNCHANGED <<account, provision, session, sealed, receipt>>
    BY <1>9, TenancyAssumption DEF CreateTenant, AddTenant, Fresh, RowsOK
  <2> SUFFICES ASSUME NEW x \in Tenants
               PROVE  (~Exists(x) => Empty(x))' /\ (Erased(x) => ~Exists(x))'
    BY DEF Rooted
  <2>2. CASE x = t
    BY <2>1, <2>2 DEF Known, Exists, Erased
  <2>3. CASE x # t
    BY <2>1, <2>3 DEF Rooted, Exists, Erased, Empty, AccountsOf
  <2> QED
    BY <2>2, <2>3
<1>10. ASSUME NEW t \in Tenants, NEW u \in Users, NEW given \in Roles,
             Invite(t, u, given)
      PROVE  Rooted'
  BY <1>10
     DEF Invite, RowsOK, Rooted, Exists, Erased, Empty, AccountsOf, TenantKey
<1>11. ASSUME NEW t \in Tenants, NEW s \in Sessions,
             Expire(t, s)
      PROVE  Rooted'
  BY <1>11
     DEF Expire, RowsOK, Rooted, Exists, Erased, Empty, AccountsOf, Live,
         NoSession
<1>12. ASSUME NEW t \in Tenants, NEW s \in Sessions,
             PurgeSession(t, s)
      PROVE  Rooted'
  BY <1>12
     DEF PurgeSession, RowsOK, Rooted, Exists, Erased, Empty, AccountsOf,
         NoSession
<1>13. ASSUME NEW t \in Tenants,
             PurgeTelemetry(t)
      PROVE  Rooted'
  BY <1>13 DEF PurgeTelemetry, RowsOK, Rooted, Exists, Erased, Empty, AccountsOf
<1>14. CASE UNCHANGED <<account, provision, receipt, role, sealed, session, tenant>>
  BY <1>14 DEF RowsOK, Rooted, Exists, Erased, Empty, AccountsOf
<1> QED
  BY <1>1, <1>2, <1>3, <1>4, <1>5, <1>6, <1>7, <1>8, <1>9, <1>10, <1>11,
     <1>12, <1>13, <1>14
     DEF Next, Handle, vars, Arrive, PostProvision, Authorize, Refused,
         ProvisionLock, Existing, ProvisionFails, SessionsActive, ErasePrior,
         EraseLock, EraseFails, BatchDone, rows

\* Ids are taken before they are used.
LEMMA KnownStep ==
    ASSUME RowsOK, CallOK, Rooted, Known, CallsTrue, [Next]_vars
    PROVE  Known'
<1>1. ASSUME NEW c \in Callers, NEW a \in Accounts, NEW erase \in BOOLEAN, NEW key \in
             BOOLEAN, NEW m \in Machines \cup {None},
             CreateServiceAccount(c, a, erase, key, m)
      PROVE  Known'
  <2>1. call[c] \in TenantCalls
    BY <1>1, CallFields DEF CreateServiceAccount, At, Ops
  <2> QED
    BY <1>1, <2>1, NewAccountFields
       DEF CreateServiceAccount, RowsOK, Known, Exists, Erased, TenantCalls,
           NewAccount
<1>2. ASSUME NEW c \in Callers, NEW a \in Accounts,
             RevokeServiceAccount(c, a)
      PROVE  Known'
  <2>1. Revoked(a)
    BY <1>2, Revoking
  <2> QED
    BY <2>1 DEF Revoked, Known, Exists, Erased
<1>3. ASSUME NEW c \in Callers, NEW a \in Accounts, NEW erase \in BOOLEAN,
             Remint(c, a, erase)
      PROVE  Known'
  <2>1. Rotated(c, a)
    BY <1>3, Rotating
  <2> QED
    BY <2>1 DEF Rotated, Known, Exists, Erased
<1>4. ASSUME NEW c \in Callers, NEW t \in Tenants, NEW a \in Accounts, NEW erase \in
             BOOLEAN,
             Provision(c, t, a, erase)
      PROVE  Known'
  <2>1. call[c] \in ProvisionCalls
    BY <1>4, CallFields DEF Provision, At
  <2> QED
    BY <1>4, <2>1
       DEF Provision, RowsOK, Known, Exists, Erased, ProvisionCalls, AddTenant,
           NewAccount
<1>5. ASSUME NEW c \in Callers,
             EraseCommit(c)
      PROVE  Known'
  <2>1. Cleaned(c)
    BY <1>5, Cleaning
  <2>2. call[c].tenant \in spent
    BY <2>1 DEF Cleaned, At, CallsTrue, Honest, Ops
  <2> QED
    BY <2>1, <2>2 DEF Cleaned, Known, Exists, Erased
<1>6. ASSUME NEW u \in Users, NEW t \in Tenants, NEW slug \in Slugs,
             CreateTenant(u, t, slug)
      PROVE  Known'
  BY <1>6 DEF CreateTenant, Ask, RowsOK, Known, Exists, Erased, AddTenant
<1>7. CASE UNCHANGED <<account, receipt, spent, tenant>>
  BY <1>7 DEF RowsOK, Known, Exists, Erased
<1> QED
  BY <1>1, <1>2, <1>3, <1>4, <1>5, <1>6, <1>7
     DEF Next, Handle, vars, Arrive, PostProvision, Authorize, Refused,
         ProvisionLock, Existing, ProvisionFails, UpsertSession, RevokeSession,
         SessionsActive, AcceptIngest, ErasePrior, EraseLock, EraseFails,
         Invite, Expire, PurgeSession, PurgeTelemetry, BatchDone, rows

\* Every step does that.
LEMMA Staying ==
    ASSUME RowsOK, CallOK, [Next]_vars
    PROVE  Stay
<1>1. ASSUME NEW c \in Callers, NEW a \in Accounts, NEW erase \in BOOLEAN, NEW key \in
             BOOLEAN, NEW m \in Machines \cup {None},
             CreateServiceAccount(c, a, erase, key, m)
      PROVE  Stay
  BY <1>1 DEF CreateServiceAccount, At, Return, Stay, RowsOK, Fresh
<1>2. ASSUME NEW c \in Callers, NEW a \in Accounts,
             RevokeServiceAccount(c, a)
      PROVE  Stay
  <2>1. Revoked(a)
    BY <1>2, Revoking
  <2> QED
    BY <2>1 DEF Revoked, Stay
<1>3. ASSUME NEW c \in Callers, NEW a \in Accounts, NEW erase \in BOOLEAN,
             Remint(c, a, erase)
      PROVE  Stay
  <2>1. Rotated(c, a)
    BY <1>3, Rotating
  <2> QED
    BY <2>1 DEF Rotated, Stay
<1>4. ASSUME NEW c \in Callers, NEW t \in Tenants, NEW a \in Accounts, NEW erase \in
             BOOLEAN,
             Provision(c, t, a, erase)
      PROVE  Stay
  <2>1. Opened(c, t, a)
    BY <1>4, Opening
  <2> QED
    BY <2>1 DEF Opened, Stay
<1>5. ASSUME NEW c \in Callers,
             EraseCommit(c)
      PROVE  Stay
  <2>1. Cleaned(c)
    BY <1>5, Cleaning
  <2> QED
    BY <2>1 DEF Cleaned, Stay
<1>6. ASSUME NEW u \in Users, NEW t \in Tenants, NEW slug \in Slugs,
             CreateTenant(u, t, slug)
      PROVE  Stay
  BY <1>6 DEF CreateTenant, Ask, Stay
<1>7. CASE UNCHANGED <<account, spent>>
  BY <1>7 DEF Stay
<1> QED
  BY <1>1, <1>2, <1>3, <1>4, <1>5, <1>6, <1>7
     DEF Next, Handle, vars, Arrive, PostProvision, Authorize, Refused,
         ProvisionLock, Existing, ProvisionFails, UpsertSession, RevokeSession,
         SessionsActive, AcceptIngest, ErasePrior, EraseLock, EraseFails,
         Invite, Expire, PurgeSession, PurgeTelemetry, BatchDone, rows

\* What a credential is worth is true.
LEMMA PrincipalTrue ==
    ASSUME RowsOK, Rooted, Known, NEW k \in Credentials, NEW op \in Ops, NEW t \in Tenants,
           Principal(k, op, t) # Nobody
    PROVE  /\ ServiceTrue(Principal(k, op, t))
           /\ k.kind = "user" => Principal(k, op, t) = User(k.id)
           /\ Principal(k, op, t).kind = "user" => k.kind = "user"
           /\ (op = "erase" /\ k.kind = "opaque") =>
                 \/ Principal(k, op, t).kind = "tombstone"
                 \/ /\ Principal(k, op, t).kind = "service"
                    /\ Principal(k, op, t).id = k.id /\ Principal(k, op, t).token = k.id
<1>1. ASSUME NEW a \in Accounts, account[a].active, NEW token
      PROVE  ServiceTrue(Service(a, token))
  <2>1. account[a] # NoAccount
    BY <1>1 DEF NoAccount
  <2>2. a \in spent /\ account[a].tenant \in Tenants
    BY <2>1 DEF Known
  <2>3. Exists(account[a].tenant)
    BY <2>2 DEF Rooted, Empty, AccountsOf
  <2>4. account[a].tenant \in spent
    BY <2>2, <2>3 DEF Known
  <2> QED
    BY <2>2, <2>4 DEF ServiceTrue, Service
<1>2. CASE k.kind = "user"
  BY <1>2 DEF Principal, User, Nobody, ServiceTrue
<1>3. CASE k.kind = "opaque"
  <2>1. k.id \in Accounts
    BY <1>3 DEF Credentials
  <2>2. Principal(k, op, t) = OpaquePrincipal(k.id, op, t)
    BY <1>3 DEF Principal
  <2>3. CASE Usable(k.id)
    BY <1>1, <1>3, <2>1, <2>2, <2>3 DEF OpaquePrincipal, Usable, Service
  <2>4. CASE ~Usable(k.id)
    BY <1>3, <2>2, <2>4 DEF OpaquePrincipal, Tombstone, Nobody, ServiceTrue
  <2> QED
    BY <2>3, <2>4
<1>4. CASE k.kind = "machine"
  <2>1. Principal(k, op, t) = BoundMachine(k.id)
    BY <1>4 DEF Principal
  <2> DEFINE a == CHOOSE a \in Accounts : account[a].machine = k.id /\ account[a].active
  <2>2. \E x \in Accounts : account[x].machine = k.id /\ account[x].active
    BY <2>1 DEF BoundMachine
  <2>3. a \in Accounts /\ account[a].active
    BY <2>2
  <2>4. Principal(k, op, t) = Service(a, None)
    BY <2>1, <2>2 DEF BoundMachine
  <2> HIDE DEF a
  <2> QED
    BY <1>1, <1>4, <2>3, <2>4 DEF Service
<1> QED
  BY <1>2, <1>3, <1>4 DEF Credentials

\* A call that is over, or is of another kind, leaves the others honest.
LEMMA Returned ==
    ASSUME CallOK, CallsTrue, Stay, NEW c \in Callers, call'[c].op \notin Ops,
           \A d \in Callers \ {c} : call'[d] = call[d]
    PROVE  CallsTrue'
  BY DEF CallsTrue, Honest, ServiceTrue, Stay

\* A call that goes on stays honest, if it may erase when it goes there to erase.
LEMMA Going ==
    ASSUME CallOK, CallsTrue, Stay, NEW c \in Callers, NEW step, call[c] \in TenantCalls,
           Go(c, step),
           step \in {"lock", "erase"} =>
              /\ call[c].tenant \in spent
              /\ call[c].who.kind # "tombstone"
              /\ call[c].who.kind = "service" => call[c].who.tenant = call[c].tenant
    PROVE  CallsTrue'
<1>1. call' = [call EXCEPT ![c] = [call[c] EXCEPT !.step = step]]
  BY DEF Go, CallOK
<1>2. /\ call'[c] = [call[c] EXCEPT !.step = step]
      /\ \A d \in Callers \ {c} : call'[d] = call[d]
  BY <1>1 DEF CallOK
<1>3. /\ call'[c].op = call[c].op /\ call'[c].who = call[c].who
      /\ call'[c].with = call[c].with /\ call'[c].tenant = call[c].tenant
      /\ call'[c].step = step
  BY <1>2 DEF TenantCalls
<1> SUFFICES ASSUME NEW d \in Callers
             PROVE  Honest(call[d])'
  BY DEF CallsTrue
<1>4. Honest(call[d])
  BY DEF CallsTrue
<1>5. CASE d # c
  BY <1>2, <1>4, <1>5 DEF Honest, ServiceTrue, Stay
<1>6. CASE d = c
  <2>1. ServiceTrue(call[c].who) => ServiceTrue(call[c].who)'
    BY <1>3 DEF ServiceTrue, Stay
  <2> QED
    BY <1>3, <1>4, <1>6, <2>1 DEF Honest, Stay, User, Nobody
<1> QED
  BY <1>5, <1>6

\* Who may act on a tenant acts on one that was created, as a person or as a service of it.
LEMMA AllowedTrue ==
    ASSUME RowsOK, Rooted, Known, NEW c \in Callers, call[c] \in TenantCalls, Honest(call[c]),
           call[c].op = "erase", Allowed(call[c].who, call[c].op, call[c].tenant)
    PROVE  /\ call[c].tenant \in spent
           /\ call[c].who.kind # "tombstone"
           /\ call[c].who.kind = "service" => call[c].who.tenant = call[c].tenant
<1> DEFINE p == call[c].who
           t == call[c].tenant
<1>1. t \in Tenants /\ call[c].op \in Ops
  BY DEF TenantCalls
<1>2. Member(p, t, Elevated) \/ Bound(p, t, "tenants:erase")
  BY DEF Allowed, TenantAccess
<1>3. CASE Bound(p, t, "tenants:erase")
  BY <1>1, <1>3 DEF Bound, Honest, ServiceTrue
<1>4. CASE Member(p, t, Elevated)
  <2>1. p.id \in Users
    BY <1>1, <1>4 DEF Member, Honest, User, Nobody, TenantCalls, Credentials
  <2>2. role[t][p.id] # None
    BY <1>4 DEF Member, Elevated, None
  <2>3. Exists(t)
    BY <1>1, <2>1, <2>2 DEF Rooted, Empty
  <2> QED
    BY <1>1, <1>4, <2>3 DEF Known, Member
<1> QED
  BY <1>2, <1>3, <1>4

\* Every step leaves every call honest.
LEMMA CallsTrueStep ==
    ASSUME RowsOK, CallOK, Rooted, Known, CallsTrue, [Next]_vars
    PROVE  CallsTrue'
<1>0. Stay
  BY Staying
<1>1. ASSUME NEW c \in Callers, NEW k \in Credentials, NEW op \in Ops, NEW t \in
             Tenants,
             Arrive(c, k, op, t)
      PROVE  CallsTrue'
  <2>1. call' = [call EXCEPT ![c] = [op |-> op, step |-> IF op = "erase" THEN "prior" ELSE "access",
                                     tenant |-> t, who |-> Principal(k, op, t), with |-> k]]
    BY <1>1 DEF Arrive, Enter
  <2>2. account' = account /\ spent' = spent /\ Principal(k, op, t) # Nobody
    BY <1>1 DEF Arrive, rows
  <2> DEFINE p == Principal(k, op, t)
  <2>3. /\ ServiceTrue(p)
        /\ k.kind = "user" => p = User(k.id)
        /\ p.kind = "user" => k.kind = "user"
        /\ (op = "erase" /\ k.kind = "opaque") =>
              \/ p.kind = "tombstone"
              \/ p.kind = "service" /\ p.id = k.id /\ p.token = k.id
    BY <2>2, PrincipalTrue
  <2> HIDE DEF p
  <2>4. /\ call'[c].op = op /\ call'[c].who = p /\ call'[c].with = k
        /\ call'[c].step \in {"prior", "access"}
        /\ \A d \in Callers \ {c} : call'[d] = call[d]
    BY <2>1 DEF CallOK, p
  <2>5. \A d \in Callers \ {c} : Honest(call[d])'
    BY <2>2, <2>4 DEF CallsTrue, Honest, ServiceTrue
  <2>6. Honest(call[c])'
    BY <2>2, <2>3, <2>4 DEF Honest, ServiceTrue, User, Nobody
  <2> QED
    BY <2>5, <2>6 DEF CallsTrue
<1>2. ASSUME NEW c \in Callers, NEW r \in Refs, NEW slug \in Slugs, NEW remint \in
             BOOLEAN,
             PostProvision(c, r, slug, remint)
      PROVE  CallsTrue'
  <2>1. call'[c].op = "provision" /\ \A d \in Callers \ {c} : call'[d] = call[d]
    BY <1>2 DEF PostProvision, Enter, CallOK
  <2> QED
    BY <1>0, <2>1, Returned DEF Ops
<1>3. ASSUME NEW c \in Callers,
             Authorize(c)
      PROVE  CallsTrue'
  <2>1. call[c] \in TenantCalls
    BY <1>3, CallFields DEF Authorize
  <2>2. CASE ~Allowed(call[c].who, call[c].op, call[c].tenant)
    <3>1. call' = [call EXCEPT ![c] = Idle]
      BY <1>3, <2>2 DEF Authorize, Return
    <3> QED
      BY <1>0, <3>1, Returned DEF CallOK, Idle, Ops
  <2>3. CASE Allowed(call[c].who, call[c].op, call[c].tenant)
    <3>1. CASE call[c].op = "erase"
      <4>1. Go(c, "lock")
        BY <1>3, <2>3, <3>1 DEF Authorize
      <4>2. Honest(call[c])
        BY DEF CallsTrue
      <4> QED
        BY <1>0, <2>1, <2>3, <3>1, <4>1, <4>2, AllowedTrue, Going
    <3>2. CASE call[c].op # "erase"
      <4>1. Go(c, "sessions") \/ Go(c, "write")
        BY <1>3, <2>3, <3>2 DEF Authorize
      <4> QED
        BY <1>0, <2>1, <4>1, Going
    <3> QED
      BY <3>1, <3>2
  <2> QED
    BY <2>2, <2>3
<1>4. ASSUME NEW c \in Callers, NEW a \in Accounts, NEW erase \in BOOLEAN, NEW key \in
             BOOLEAN, NEW m \in Machines \cup {None},
             CreateServiceAccount(c, a, erase, key, m)
      PROVE  CallsTrue'
  <2>1. call' = [call EXCEPT ![c] = Idle]
    BY <1>4 DEF CreateServiceAccount, Return
  <2> QED
    BY <1>0, <2>1, Returned DEF CallOK, Idle, Ops
<1>5. ASSUME NEW c \in Callers, NEW a \in Accounts,
             RevokeServiceAccount(c, a)
      PROVE  CallsTrue'
  <2>1. call' = [call EXCEPT ![c] = Idle]
    BY <1>5 DEF RevokeServiceAccount, Return
  <2> QED
    BY <1>0, <2>1, Returned DEF CallOK, Idle, Ops
<1>6. ASSUME NEW c \in Callers,
             Refused(c)
      PROVE  CallsTrue'
  <2>1. call' = [call EXCEPT ![c] = Idle]
    BY <1>6 DEF Refused, Return
  <2> QED
    BY <1>0, <2>1, Returned DEF CallOK, Idle, Ops
<1>7. ASSUME NEW c \in Callers,
             ProvisionLock(c)
      PROVE  CallsTrue'
  <2>1. call[c] \in ProvisionCalls
    BY <1>7, CallFields DEF ProvisionLock, At
  <2>2. call'[c].op = "provision" /\ \A d \in Callers \ {c} : call'[d] = call[d]
    BY <1>7, <2>1 DEF ProvisionLock, ProvisionCalls, CallOK
  <2> QED
    BY <1>0, <2>2, Returned DEF Ops
<1>8. ASSUME NEW c \in Callers,
             Existing(c)
      PROVE  CallsTrue'
  <2>1. call' = [call EXCEPT ![c] = Idle]
    BY <1>8 DEF Existing, Return
  <2> QED
    BY <1>0, <2>1, Returned DEF CallOK, Idle, Ops
<1>9. ASSUME NEW c \in Callers,
             ProvisionFails(c)
      PROVE  CallsTrue'
  <2>1. call' = [call EXCEPT ![c] = Idle]
    BY <1>9 DEF ProvisionFails, Return
  <2> QED
    BY <1>0, <2>1, Returned DEF CallOK, Idle, Ops
<1>10. ASSUME NEW c \in Callers, NEW a \in Accounts, NEW erase \in BOOLEAN,
             Remint(c, a, erase)
      PROVE  CallsTrue'
  <2>1. call' = [call EXCEPT ![c] = Idle]
    BY <1>10 DEF Remint, Return
  <2> QED
    BY <1>0, <2>1, Returned DEF CallOK, Idle, Ops
<1>11. ASSUME NEW c \in Callers, NEW t \in Tenants, NEW a \in Accounts, NEW erase \in
             BOOLEAN,
             Provision(c, t, a, erase)
      PROVE  CallsTrue'
  <2>1. call' = [call EXCEPT ![c] = Idle]
    BY <1>11 DEF Provision, Return
  <2> QED
    BY <1>0, <2>1, Returned DEF CallOK, Idle, Ops
<1>12. ASSUME NEW c \in Callers, NEW s \in Sessions,
             UpsertSession(c, s)
      PROVE  CallsTrue'
  <2>1. call' = [call EXCEPT ![c] = Idle]
    BY <1>12 DEF UpsertSession, Return
  <2> QED
    BY <1>0, <2>1, Returned DEF CallOK, Idle, Ops
<1>13. ASSUME NEW c \in Callers, NEW s \in Sessions,
             RevokeSession(c, s)
      PROVE  CallsTrue'
  <2>1. call' = [call EXCEPT ![c] = Idle]
    BY <1>13 DEF RevokeSession, Return
  <2> QED
    BY <1>0, <2>1, Returned DEF CallOK, Idle, Ops
<1>14. ASSUME NEW c \in Callers,
             SessionsActive(c)
      PROVE  CallsTrue'
  <2>1. call[c] \in TenantCalls
    BY <1>14, CallFields DEF SessionsActive, At, Ops
  <2>2. Go(c, "accept")
    BY <1>14 DEF SessionsActive
  <2> QED
    BY <1>0, <2>1, <2>2, Going
<1>15. ASSUME NEW c \in Callers,
             AcceptIngest(c)
      PROVE  CallsTrue'
  <2>1. call' = [call EXCEPT ![c] = Idle]
    BY <1>15 DEF AcceptIngest, Return
  <2> QED
    BY <1>0, <2>1, Returned DEF CallOK, Idle, Ops
<1>16. ASSUME NEW c \in Callers,
             ErasePrior(c)
      PROVE  CallsTrue'
  <2>1. call[c] \in TenantCalls
    BY <1>16, CallFields DEF ErasePrior, At, Ops
  <2>2. CASE Go(c, "access")
    BY <1>0, <2>1, <2>2, Going
  <2>3. CASE Return(c)
    BY <1>0, <2>3, Returned DEF CallOK, Idle, Ops, Return
  <2> QED
    BY <1>16, <2>2, <2>3 DEF ErasePrior
<1>17. ASSUME NEW c \in Callers,
             EraseLock(c)
      PROVE  CallsTrue'
  <2>1. call[c] \in TenantCalls
    BY <1>17, CallFields DEF EraseLock, At, Ops
  <2>2. CASE Go(c, "erase")
    <3>1. /\ call[c].tenant \in spent
          /\ call[c].who.kind # "tombstone"
          /\ call[c].who.kind = "service" => call[c].who.tenant = call[c].tenant
      BY <1>17, <2>1 DEF EraseLock, At, CallsTrue, Honest, Ops
    <3> QED
      BY <1>0, <2>1, <2>2, <3>1, Going
  <2>3. CASE Return(c)
    BY <1>0, <2>3, Returned DEF CallOK, Idle, Ops, Return
  <2> QED
    BY <1>17, <2>2, <2>3 DEF EraseLock
<1>18. ASSUME NEW c \in Callers,
             EraseCommit(c)
      PROVE  CallsTrue'
  <2>1. call' = [call EXCEPT ![c] = Idle]
    BY <1>18 DEF EraseCommit, Return
  <2> QED
    BY <1>0, <2>1, Returned DEF CallOK, Idle, Ops
<1>19. ASSUME NEW c \in Callers,
             EraseFails(c)
      PROVE  CallsTrue'
  <2>1. call' = [call EXCEPT ![c] = Idle]
    BY <1>19 DEF EraseFails, Return
  <2> QED
    BY <1>0, <2>1, Returned DEF CallOK, Idle, Ops
<1>20. ASSUME NEW u \in Users, NEW t \in Tenants, NEW slug \in Slugs,
             CreateTenant(u, t, slug)
      PROVE  CallsTrue'
  BY <1>0, <1>20 DEF CreateTenant, CallsTrue, Honest, ServiceTrue, Stay
<1>21. CASE UNCHANGED <<account, call, spent>>
  BY <1>21 DEF CallsTrue, Honest, ServiceTrue
<1> QED
  BY <1>1, <1>2, <1>3, <1>4, <1>5, <1>6, <1>7, <1>8, <1>9, <1>10, <1>11,
     <1>12, <1>13, <1>14, <1>15, <1>16, <1>17, <1>18, <1>19, <1>20, <1>21
     DEF Next, Handle, vars, Invite, Expire, PurgeSession, PurgeTelemetry,
         BatchDone

\* A step of a caller that is not, or is no longer, under its lock, and that changes no
\* row of partner_provisions anyone else holds.
LEMMA Leaving ==
    ASSUME CallOK, SeenTrue, NEW c \in Callers,
           \A d \in Callers \ {c} : call'[d] = call[d],
           ~(call'[c].op = "provision" /\ call'[c].step = "locked"),
           \A d \in Callers \ {c} :
              At(d, "provision", "locked") => provision'[call[d].ref] = provision[call[d].ref]
    PROVE  SeenTrue'
  BY DEF SeenTrue, At

\* Every step leaves who provisions a reference alone with the row it has seen.
LEMMA SeenTrueStep ==
    ASSUME RowsOK, CallOK, SeenTrue, [Next]_vars
    PROVE  SeenTrue'
<1>1. ASSUME NEW c \in Callers, NEW k \in Credentials, NEW op \in Ops, NEW t \in
             Tenants,
             Arrive(c, k, op, t)
      PROVE  SeenTrue'
  <2>1. call'[c].op = op /\ \A d \in Callers \ {c} : call'[d] = call[d]
    BY <1>1 DEF Arrive, Enter, CallOK
  <2> QED
    BY <1>1, <2>1, Leaving DEF Arrive, rows, Ops
<1>2. ASSUME NEW c \in Callers, NEW r \in Refs, NEW slug \in Slugs, NEW remint \in
             BOOLEAN,
             PostProvision(c, r, slug, remint)
      PROVE  SeenTrue'
  <2>1. call'[c].step = "lock" /\ \A d \in Callers \ {c} : call'[d] = call[d]
    BY <1>2 DEF PostProvision, Enter, CallOK
  <2> QED
    BY <1>2, <2>1, Leaving DEF PostProvision, rows
<1>3. ASSUME NEW c \in Callers,
             Authorize(c)
      PROVE  SeenTrue'
  <2>1. call[c] \in TenantCalls
    BY <1>3, CallFields DEF Authorize
  <2>2. /\ call' = [call EXCEPT ![c] = Idle] \/ \E step : call' = [call EXCEPT ![c].step = step]
        /\ provision' = provision
    BY <1>3 DEF Authorize, Go, Return, rows
  <2>3. /\ call'[c].op \in Ops \cup {"idle"}
        /\ \A d \in Callers \ {c} : call'[d] = call[d]
    BY <2>1, <2>2 DEF CallOK, TenantCalls, Idle
  <2> QED
    BY <2>2, <2>3, Leaving DEF Ops
<1>4. ASSUME NEW c \in Callers, NEW a \in Accounts, NEW erase \in BOOLEAN, NEW key \in
             BOOLEAN, NEW m \in Machines \cup {None},
             CreateServiceAccount(c, a, erase, key, m)
      PROVE  SeenTrue'
  <2>1. call' = [call EXCEPT ![c] = Idle] /\ provision' = provision
    BY <1>4 DEF CreateServiceAccount, Return
  <2> QED
    BY <2>1, Leaving DEF CallOK, Idle
<1>5. ASSUME NEW c \in Callers, NEW a \in Accounts,
             RevokeServiceAccount(c, a)
      PROVE  SeenTrue'
  <2>1. call' = [call EXCEPT ![c] = Idle] /\ provision' = provision
    BY <1>5 DEF RevokeServiceAccount, Return
  <2> QED
    BY <2>1, Leaving DEF CallOK, Idle
<1>6. ASSUME NEW c \in Callers,
             Refused(c)
      PROVE  SeenTrue'
  <2>1. call' = [call EXCEPT ![c] = Idle] /\ provision' = provision
    BY <1>6 DEF Refused, Return, rows
  <2> QED
    BY <2>1, Leaving DEF CallOK, Idle
<1>7. ASSUME NEW c \in Callers,
             ProvisionLock(c)
      PROVE  SeenTrue'
  <2>1. call[c] \in ProvisionCalls
    BY <1>7, CallFields DEF ProvisionLock, At
  <2>2. /\ call' = [call EXCEPT ![c] = [call[c] EXCEPT !.step = "locked",
                                                       !.seen = provision[call[c].ref]]]
        /\ Provisioning(call[c].ref) = {}
        /\ provision' = provision
    BY <1>7 DEF ProvisionLock, rows, CallOK
  <2>3. /\ call'[c] = [call[c] EXCEPT !.step = "locked", !.seen = provision[call[c].ref]]
        /\ \A d \in Callers \ {c} : call'[d] = call[d]
    BY <2>2 DEF CallOK
  <2>4. call'[c].ref = call[c].ref /\ call'[c].seen = provision[call[c].ref]
    BY <2>1, <2>3 DEF ProvisionCalls
  <2>5. \A d \in Callers : At(d, "provision", "locked") => call[d].ref # call[c].ref
    BY <2>2 DEF Provisioning
  <2> QED
    BY <2>2, <2>3, <2>4, <2>5 DEF SeenTrue, At
<1>8. ASSUME NEW c \in Callers,
             Existing(c)
      PROVE  SeenTrue'
  <2>1. call' = [call EXCEPT ![c] = Idle] /\ provision' = provision
    BY <1>8 DEF Existing, Return, rows
  <2> QED
    BY <2>1, Leaving DEF CallOK, Idle
<1>9. ASSUME NEW c \in Callers,
             ProvisionFails(c)
      PROVE  SeenTrue'
  <2>1. call' = [call EXCEPT ![c] = Idle] /\ provision' = provision
    BY <1>9 DEF ProvisionFails, Return, rows
  <2> QED
    BY <2>1, Leaving DEF CallOK, Idle
<1>10. ASSUME NEW c \in Callers, NEW a \in Accounts, NEW erase \in BOOLEAN,
             Remint(c, a, erase)
      PROVE  SeenTrue'
  <2>1. Rotated(c, a)
    BY <1>10, Rotating
  <2>2. call' = [call EXCEPT ![c] = Idle]
    BY <1>10 DEF Remint, Return
  <2>3. \A d \in Callers \ {c} : At(d, "provision", "locked") => call[d].ref # call[c].ref
    BY <2>1 DEF SeenTrue, Rotated
  <2>4. \A d \in Callers \ {c} :
           At(d, "provision", "locked") => provision'[call[d].ref] = provision[call[d].ref]
    <3> SUFFICES ASSUME NEW d \in Callers \ {c}, At(d, "provision", "locked")
                 PROVE  provision'[call[d].ref] = provision[call[d].ref]
      OBVIOUS
    <3>1. call[d].ref \in Refs
      BY CallFields DEF At, ProvisionCalls
    <3> QED
      BY <2>1, <2>3, <3>1 DEF Rotated
  <2> QED
    BY <2>2, <2>4, Leaving DEF CallOK, Idle
<1>11. ASSUME NEW c \in Callers, NEW t \in Tenants, NEW a \in Accounts, NEW erase \in
             BOOLEAN,
             Provision(c, t, a, erase)
      PROVE  SeenTrue'
  <2>1. Opened(c, t, a)
    BY <1>11, Opening
  <2>2. call' = [call EXCEPT ![c] = Idle]
    BY <1>11 DEF Provision, Return
  <2>3. \A d \in Callers \ {c} : At(d, "provision", "locked") => call[d].ref # call[c].ref
    BY <2>1 DEF SeenTrue, Opened
  <2>4. \A d \in Callers \ {c} :
           At(d, "provision", "locked") => provision'[call[d].ref] = provision[call[d].ref]
    <3> SUFFICES ASSUME NEW d \in Callers \ {c}, At(d, "provision", "locked")
                 PROVE  provision'[call[d].ref] = provision[call[d].ref]
      OBVIOUS
    <3>1. call[d].ref \in Refs
      BY CallFields DEF At, ProvisionCalls
    <3> QED
      BY <2>1, <2>3, <3>1 DEF Opened
  <2> QED
    BY <2>2, <2>4, Leaving DEF CallOK, Idle
<1>12. ASSUME NEW c \in Callers, NEW s \in Sessions,
             UpsertSession(c, s)
      PROVE  SeenTrue'
  <2>1. call' = [call EXCEPT ![c] = Idle] /\ provision' = provision
    BY <1>12 DEF UpsertSession, Return
  <2> QED
    BY <2>1, Leaving DEF CallOK, Idle
<1>13. ASSUME NEW c \in Callers, NEW s \in Sessions,
             RevokeSession(c, s)
      PROVE  SeenTrue'
  <2>1. call' = [call EXCEPT ![c] = Idle] /\ provision' = provision
    BY <1>13 DEF RevokeSession, Return
  <2> QED
    BY <2>1, Leaving DEF CallOK, Idle
<1>14. ASSUME NEW c \in Callers,
             SessionsActive(c)
      PROVE  SeenTrue'
  <2>1. call[c] \in TenantCalls
    BY <1>14, CallFields DEF SessionsActive, At, Ops
  <2>2. /\ call' = [call EXCEPT ![c] = Idle] \/ \E step : call' = [call EXCEPT ![c].step = step]
        /\ provision' = provision
    BY <1>14 DEF SessionsActive, Go, Return, rows
  <2>3. /\ call'[c].op \in Ops \cup {"idle"}
        /\ \A d \in Callers \ {c} : call'[d] = call[d]
    BY <2>1, <2>2 DEF CallOK, TenantCalls, Idle
  <2> QED
    BY <2>2, <2>3, Leaving DEF Ops
<1>15. ASSUME NEW c \in Callers,
             AcceptIngest(c)
      PROVE  SeenTrue'
  <2>1. call' = [call EXCEPT ![c] = Idle] /\ provision' = provision
    BY <1>15 DEF AcceptIngest, Return
  <2> QED
    BY <2>1, Leaving DEF CallOK, Idle
<1>16. ASSUME NEW c \in Callers,
             ErasePrior(c)
      PROVE  SeenTrue'
  <2>1. call[c] \in TenantCalls
    BY <1>16, CallFields DEF ErasePrior, At, Ops
  <2>2. /\ call' = [call EXCEPT ![c] = Idle] \/ \E step : call' = [call EXCEPT ![c].step = step]
        /\ provision' = provision
    BY <1>16 DEF ErasePrior, Go, Return, rows
  <2>3. /\ call'[c].op \in Ops \cup {"idle"}
        /\ \A d \in Callers \ {c} : call'[d] = call[d]
    BY <2>1, <2>2 DEF CallOK, TenantCalls, Idle
  <2> QED
    BY <2>2, <2>3, Leaving DEF Ops
<1>17. ASSUME NEW c \in Callers,
             EraseLock(c)
      PROVE  SeenTrue'
  <2>1. call[c] \in TenantCalls
    BY <1>17, CallFields DEF EraseLock, At, Ops
  <2>2. /\ call' = [call EXCEPT ![c] = Idle] \/ \E step : call' = [call EXCEPT ![c].step = step]
        /\ provision' = provision
    BY <1>17 DEF EraseLock, Go, Return, rows
  <2>3. /\ call'[c].op \in Ops \cup {"idle"}
        /\ \A d \in Callers \ {c} : call'[d] = call[d]
    BY <2>1, <2>2 DEF CallOK, TenantCalls, Idle
  <2> QED
    BY <2>2, <2>3, Leaving DEF Ops
<1>18. ASSUME NEW c \in Callers,
             EraseCommit(c)
      PROVE  SeenTrue'
  <2>1. Cleaned(c)
    BY <1>18, Cleaning
  <2>2. call' = [call EXCEPT ![c] = Idle]
    BY <1>18 DEF EraseCommit, Return
  <2>3. \A d \in Callers \ {c} :
           At(d, "provision", "locked") => provision'[call[d].ref] = provision[call[d].ref]
    <3> SUFFICES ASSUME NEW d \in Callers \ {c}, At(d, "provision", "locked")
                 PROVE  provision'[call[d].ref] = provision[call[d].ref]
      OBVIOUS
    <3>1. call[d].ref \in Refs
      BY CallFields DEF At, ProvisionCalls
    <3>2. d \in Provisioning(call[d].ref)
      BY DEF Provisioning
    <3> QED
      BY <2>1, <3>1, <3>2 DEF Cleaned
  <2> QED
    BY <2>2, <2>3, Leaving DEF CallOK, Idle
<1>19. ASSUME NEW c \in Callers,
             EraseFails(c)
      PROVE  SeenTrue'
  <2>1. call' = [call EXCEPT ![c] = Idle] /\ provision' = provision
    BY <1>19 DEF EraseFails, Return
  <2> QED
    BY <2>1, Leaving DEF CallOK, Idle
<1>20. CASE UNCHANGED <<call, provision>>
  BY <1>20 DEF SeenTrue, At
<1> QED
  BY <1>1, <1>2, <1>3, <1>4, <1>5, <1>6, <1>7, <1>8, <1>9, <1>10, <1>11,
     <1>12, <1>13, <1>14, <1>15, <1>16, <1>17, <1>18, <1>19, <1>20
     DEF Next, Handle, vars, CreateTenant, Invite, Expire, PurgeSession,
         PurgeTelemetry, BatchDone

\* Every step leaves at most one live credential per reference.
LEMMA LinkedStep ==
    ASSUME RowsOK, CallOK, Known, SeenTrue, Linked, [Next]_vars
    PROVE  Linked'
<1>1. ASSUME NEW c \in Callers, NEW a \in Accounts, NEW erase \in BOOLEAN, NEW key \in
             BOOLEAN, NEW m \in Machines \cup {None},
             CreateServiceAccount(c, a, erase, key, m)
      PROVE  Linked'
  <2>1. call[c] \in TenantCalls
    BY <1>1, CallFields DEF CreateServiceAccount, At, Ops
  <2>2. /\ account'[a].ref = None
        /\ \A x \in Accounts \ {a} : account'[x] = account[x]
        /\ provision' = provision
    BY <1>1, <2>1 DEF CreateServiceAccount, NewAccount, RowsOK
  <2> QED
    BY <2>2 DEF Linked
<1>2. ASSUME NEW c \in Callers, NEW a \in Accounts,
             RevokeServiceAccount(c, a)
      PROVE  Linked'
  <2>1. Revoked(a)
    BY <1>2, Revoking
  <2> QED
    BY <2>1 DEF Revoked, Linked
<1>3. ASSUME NEW c \in Callers, NEW a \in Accounts, NEW erase \in BOOLEAN,
             Remint(c, a, erase)
      PROVE  Linked'
  <2>1. Rotated(c, a)
    BY <1>3, Rotating
  <2>2. call[c].seen = provision[call[c].ref]
    BY <2>1 DEF Rotated, SeenTrue
  <2>3. provision[call[c].ref] # NoProvision
    BY <1>3, <2>2 DEF Remint
  <2> SUFFICES ASSUME NEW x \in Accounts, account'[x].active, account'[x].ref # None
               PROVE  provision'[account'[x].ref]
                         = [tenant |-> account'[x].tenant, account |-> x]
    BY DEF Linked
  <2>4. CASE x = a
    BY <2>1, <2>2, <2>3, <2>4 DEF Rotated
  <2>5. CASE x # a
    <3>1. /\ account[x].active /\ x # call[c].seen.account
          /\ account[x].ref = account'[x].ref /\ account[x].tenant = account'[x].tenant
      BY <2>1, <2>5 DEF Rotated
    <3>2. provision[account[x].ref] = [tenant |-> account[x].tenant, account |-> x]
      BY <3>1 DEF Linked
    <3>3. account[x].ref # call[c].ref
      BY <2>2, <3>1, <3>2
    <3>4. account[x].ref \in Refs
      BY <3>1 DEF RowsOK, AccountRows
    <3> QED
      BY <2>1, <3>1, <3>2, <3>3, <3>4 DEF Rotated
  <2> QED
    BY <2>4, <2>5
<1>4. ASSUME NEW c \in Callers, NEW t \in Tenants, NEW a \in Accounts, NEW erase \in
             BOOLEAN,
             Provision(c, t, a, erase)
      PROVE  Linked'
  <2>1. Opened(c, t, a)
    BY <1>4, Opening
  <2> SUFFICES ASSUME NEW x \in Accounts, account'[x].active, account'[x].ref # None
               PROVE  provision'[account'[x].ref]
                         = [tenant |-> account'[x].tenant, account |-> x]
    BY DEF Linked
  <2>2. CASE x = a
    BY <2>1, <2>2 DEF Opened
  <2>3. CASE x # a
    <3>1. account'[x] = account[x]
      BY <2>1, <2>3 DEF Opened
    <3>2. provision[account[x].ref] = [tenant |-> account[x].tenant, account |-> x]
      BY <3>1 DEF Linked
    <3>3. account[x] # NoAccount
      BY <3>1 DEF NoAccount
    <3>4. account[x].tenant \in Tenants
      BY <3>3 DEF Known
    <3>5. provision[account[x].ref] # NoProvision
      BY <3>2, <3>4, TenancyAssumption DEF NoProvision
    <3>6. account[x].ref \in Refs
      BY <3>1 DEF RowsOK, AccountRows
    <3> QED
      BY <2>1, <3>1, <3>2, <3>5, <3>6 DEF Opened
  <2> QED
    BY <2>2, <2>3
<1>5. ASSUME NEW c \in Callers,
             EraseCommit(c)
      PROVE  Linked'
  <2>1. Cleaned(c)
    BY <1>5, Cleaning
  <2> SUFFICES ASSUME NEW x \in Accounts, account'[x].active, account'[x].ref # None
               PROVE  provision'[account'[x].ref]
                         = [tenant |-> account'[x].tenant, account |-> x]
    BY DEF Linked
  <2>2. account'[x] = account[x] /\ account[x].tenant # call[c].tenant
    BY <2>1 DEF Cleaned, NoAccount
  <2>3. provision[account[x].ref] = [tenant |-> account[x].tenant, account |-> x]
    BY <2>2 DEF Linked
  <2>4. account[x].ref \in Refs
    BY <2>2 DEF RowsOK, AccountRows
  <2> QED
    BY <2>1, <2>2, <2>3, <2>4 DEF Cleaned
<1>6. CASE UNCHANGED <<account, provision>>
  BY <1>6 DEF Linked
<1> QED
  BY <1>1, <1>2, <1>3, <1>4, <1>5, <1>6
     DEF Next, Handle, vars, Arrive, PostProvision, Authorize, Refused,
         ProvisionLock, Existing, ProvisionFails, UpsertSession, RevokeSession,
         SessionsActive, AcceptIngest, ErasePrior, EraseLock, EraseFails,
         CreateTenant, Invite, Expire, PurgeSession, PurgeTelemetry, BatchDone,
         rows

\* Every step leaves the receipts true.
LEMMA RecordedStep ==
    ASSUME RowsOK, CallOK, Known, CallsTrue, Recorded, [Next]_vars
    PROVE  Recorded'
<1>0. Stay
  BY Staying
<1>1. ASSUME NEW c \in Callers, NEW a \in Accounts, NEW erase \in BOOLEAN, NEW key \in
             BOOLEAN, NEW m \in Machines \cup {None},
             CreateServiceAccount(c, a, erase, key, m)
      PROVE  Recorded'
  BY <1>0, <1>1
     DEF CreateServiceAccount, Recorded, Erased, Stay, RowsOK, Receipts,
         Credentials, NoReceipt
<1>2. ASSUME NEW c \in Callers, NEW a \in Accounts,
             RevokeServiceAccount(c, a)
      PROVE  Recorded'
  BY <1>0, <1>2
     DEF RevokeServiceAccount, Recorded, Erased, Stay, RowsOK, Receipts,
         Credentials, NoReceipt
<1>3. ASSUME NEW c \in Callers, NEW a \in Accounts, NEW erase \in BOOLEAN,
             Remint(c, a, erase)
      PROVE  Recorded'
  BY <1>0, <1>3
     DEF Remint, Recorded, Erased, Stay, RowsOK, Receipts, Credentials,
         NoReceipt
<1>4. ASSUME NEW c \in Callers, NEW t \in Tenants, NEW a \in Accounts, NEW erase \in
             BOOLEAN,
             Provision(c, t, a, erase)
      PROVE  Recorded'
  BY <1>0, <1>4
     DEF Provision, Recorded, Erased, Stay, RowsOK, Receipts, Credentials,
         NoReceipt
<1>5. ASSUME NEW c \in Callers,
             EraseCommit(c)
      PROVE  Recorded'
  <2>1. Cleaned(c)
    BY <1>5, Cleaning
  <2> DEFINE t == call[c].tenant
             k == call[c].with
             p == call[c].who
  <2>2. t \in Tenants /\ k \in Credentials /\ call[c].op = "erase" /\ call[c].step = "erase"
    BY <2>1 DEF Cleaned, TenantCalls, At
  <2>3. receipt'[t] = [by |-> p.id, tomb |-> p.token, with |-> k]
    BY <2>1 DEF Cleaned
  <2>4. Honest(call[c])
    BY DEF CallsTrue
  <2>5. k.kind = "user" => p.id = k.id
    BY <2>2, <2>4 DEF Honest, Ops, User, Nobody
  <2>6. ASSUME k.kind = "opaque"
        PROVE  p.token = k.id /\ k.id \in spent /\ account'[k.id] = NoAccount
    <3>1. p.kind = "service" /\ p.id = k.id /\ p.token = k.id /\ p.tenant = t /\ ServiceTrue(p)
      BY <2>2, <2>4, <2>6 DEF Honest, Ops
    <3>2. k.id \in spent \cap Accounts /\ (account[k.id] = NoAccount \/ account[k.id].tenant = t)
      BY <3>1 DEF ServiceTrue
    <3> QED
      BY <2>1, <3>1, <3>2 DEF Cleaned
  <2> HIDE DEF t, k, p
  <2> SUFFICES ASSUME NEW x \in Tenants, Erased(x)'
               PROVE  /\ receipt'[x].with.kind = "user" => receipt'[x].by = receipt'[x].with.id
                      /\ receipt'[x].with.kind = "opaque" =>
                            /\ receipt'[x].tomb = receipt'[x].with.id
                            /\ receipt'[x].with.id \in spent'
                            /\ account'[receipt'[x].with.id] = NoAccount
    BY DEF Recorded
  <2>7. spent' = spent
    BY <2>1 DEF Cleaned
  <2>8. CASE x = t
    BY <2>3, <2>5, <2>6, <2>7, <2>8
  <2>9. CASE x # t
    <3>1. receipt'[x] = receipt[x] /\ Erased(x)
      BY <2>1, <2>9 DEF Cleaned, Erased, t
    <3>2. receipt[x].with.kind = "opaque" => receipt[x].with.id \in Accounts
      BY <3>1 DEF RowsOK, Receipts, Credentials, Erased
    <3> QED
      BY <1>0, <2>7, <3>1, <3>2 DEF Recorded, Stay
  <2> QED
    BY <2>8, <2>9
<1>6. ASSUME NEW u \in Users, NEW t \in Tenants, NEW slug \in Slugs,
             CreateTenant(u, t, slug)
      PROVE  Recorded'
  BY <1>0, <1>6
     DEF CreateTenant, Recorded, Erased, Stay, RowsOK, Receipts, Credentials,
         NoReceipt
<1>7. CASE UNCHANGED <<account, receipt, spent>>
  BY <1>7 DEF Recorded, Erased
<1> QED
  BY <1>1, <1>2, <1>3, <1>4, <1>5, <1>6, <1>7
     DEF Next, Handle, vars, Arrive, PostProvision, Authorize, Refused,
         ProvisionLock, Existing, ProvisionFails, UpsertSession, RevokeSession,
         SessionsActive, AcceptIngest, ErasePrior, EraseLock, EraseFails,
         Invite, Expire, PurgeSession, PurgeTelemetry, BatchDone, rows

-----------------------------------------------------------------------------
\* The invariant holds of an empty database.
LEMMA Start ==
    ASSUME Init
    PROVE  IInv
<1>1. TypeOK
  BY TenancyAssumption
     DEF Init, TypeOK, AccountRows, NoAccount, ProvisionRows, NoSession, Receipts
<1>2. Rooted
  BY TenancyAssumption
     DEF Init, Rooted, Exists, Erased, Empty, AccountsOf, NoAccount, NoProvision
<1>3. Known /\ Recorded
  BY DEF Init, Known, Recorded, Exists, Erased
<1>4. CallsTrue /\ SeenTrue
  BY DEF Init, CallsTrue, Honest, SeenTrue, At, Idle, Ops
<1>5. Linked
  BY DEF Init, Linked, NoAccount
<1> QED
  BY <1>1, <1>2, <1>3, <1>4, <1>5 DEF IInv

\* Every step keeps it.
LEMMA Step ==
    ASSUME IInv, [Next]_vars
    PROVE  IInv'
<1>1. RowsOK /\ CallOK /\ asked \in 0..MaxAsked
  BY DEF IInv, TypeOK, RowsOK, CallOK
<1>2. Rooted /\ Known /\ CallsTrue /\ Linked /\ SeenTrue /\ Recorded
  BY DEF IInv
<1>3. RowsOK' /\ CallOK'
  BY <1>1, RowsStep, CallStep
<1>4. (asked \in 0..MaxAsked)'
  <2>1. ASSUME NEW c \in Callers, Handle(c)
        PROVE  asked' = asked \/ Ask
    BY <2>1
       DEF Handle, Arrive, PostProvision, Authorize, CreateServiceAccount,
           RevokeServiceAccount, Refused, ProvisionLock, Existing, ProvisionFails, Remint,
           Provision, UpsertSession, RevokeSession, SessionsActive, AcceptIngest, ErasePrior,
           EraseLock, EraseCommit, EraseFails
  <2>2. asked' = asked \/ Ask
    BY <2>1
       DEF Next, CreateTenant, Invite, Expire, PurgeSession, PurgeTelemetry, BatchDone, vars
  <2> QED
    BY <1>1, <2>2, TenancyAssumption DEF Ask
<1>5. TypeOK'
  BY <1>3, <1>4 DEF TypeOK, RowsOK, CallOK
<1>6. Rooted' /\ Known' /\ CallsTrue'
  BY <1>1, <1>2, RootedStep, KnownStep, CallsTrueStep
<1>7. Linked' /\ SeenTrue' /\ Recorded'
  BY <1>1, <1>2, LinkedStep, SeenTrueStep, RecordedStep
<1> QED
  BY <1>5, <1>6, <1>7 DEF IInv

\* Every row and every call always has the fields the code gives it.
THEOREM Typed == Spec => []TypeOK
<1>1. Init => IInv
  BY Start
<1>2. IInv /\ [Next]_vars => IInv'
  BY Step
<1>3. IInv => TypeOK
  BY DEF IInv
<1> QED
  BY <1>1, <1>2, <1>3, PTL DEF Spec

\* Whatever overlaps an erasure (a rotation of the tenant's credential, a request that was
\* authorised before it), the tenant's rows are gone when it has committed, and stay gone.
THEOREM GoneForGood == Spec => []ErasedForGood
<1>1. Init => IInv
  BY Start
<1>2. IInv /\ [Next]_vars => IInv'
  BY Step
<1>3. IInv => ErasedForGood
  BY DEF IInv, Rooted, ErasedForGood
<1> QED
  BY <1>1, <1>2, <1>3, PTL DEF Spec

\* However many callers provision, rotate and erase at once, a partner reference has no
\* live credential besides the one its row names.
THEOREM OneCredential == Spec => []OneLiveCredential
<1>1. Init => IInv
  BY Start
<1>2. IInv /\ [Next]_vars => IInv'
  BY Step
<1>3. IInv => OneLiveCredential
  <2> SUFFICES ASSUME IInv, NEW a \in Accounts, account[a].active, account[a].ref # None
               PROVE  provision[account[a].ref].account = a
    BY DEF OneLiveCredential
  <2>1. provision[account[a].ref] = [tenant |-> account[a].tenant, account |-> a]
    BY DEF IInv, Linked
  <2> QED
    BY <2>1
<1> QED
  BY <1>1, <1>2, <1>3, PTL DEF Spec

\* The receipt of an erasure is open to the credential it was asked with, whatever rows
\* have gone since.
THEOREM AnswerRecovered == Spec => []LostAnswerRecovered
<1>1. Init => IInv
  BY Start
<1>2. IInv /\ [Next]_vars => IInv'
  BY Step
<1>3. IInv => LostAnswerRecovered
  <2> SUFFICES ASSUME IInv, NEW t \in Tenants, Erased(t),
                      receipt[t].with.kind \in {"user", "opaque"}
               PROVE  CanReadReceipt(Principal(receipt[t].with, "erase", t), t)
    BY DEF LostAnswerRecovered
  <2> DEFINE k == receipt[t].with
  <2>1. /\ k.kind = "user" => receipt[t].by = k.id
        /\ k.kind = "opaque" => receipt[t].tomb = k.id /\ account[k.id] = NoAccount
    BY DEF IInv, Recorded
  <2>2. CASE k.kind = "user"
    BY <2>1, <2>2 DEF Principal, User, Nobody, CanReadReceipt
  <2>3. CASE k.kind = "opaque"
    <3>1. ~Usable(k.id) /\ ErasedOpaque(t, k.id)
      BY <2>1, <2>3 DEF Usable, NoAccount, ErasedOpaque
    <3>2. Principal(k, "erase", t) = Tombstone(t)
      BY <2>3, <3>1 DEF Principal, OpaquePrincipal
    <3> QED
      BY <3>2 DEF Tombstone, Nobody, CanReadReceipt
  <2> QED
    BY <2>2, <2>3
<1> QED
  BY <1>1, <1>2, <1>3, PTL DEF Spec

=================================================================================
