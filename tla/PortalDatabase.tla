--------------------------- MODULE PortalDatabase ---------------------------
(***************************************************************************)
(* The two ceremonies that make the portal's database: provisioning        *)
(* (web/scripts/provision-portal-db.mjs, one SERIALIZABLE transaction) and *)
(* migration (web/scripts/migrate-portal-db.mjs, statement by statement,   *)
(* before every start of the portal).  Both take one advisory lock,        *)
(* provisioning for its transaction, migration for its session.            *)
(*                                                                         *)
(* PostgreSQL is modelled from how the scripts use it: the transaction's   *)
(* snapshot is fixed by the SELECT that waits for the advisory lock, and   *)
(* its queries of the catalog are answered from it; DDL acts on what is    *)
(* there, and a name that exists cannot be created again.                  *)
(***************************************************************************)
EXTENDS Integers, FiniteSets, Sequences

CONSTANTS
    None,
    Provisioners,   \* processes running provision-portal-db.mjs --apply
    Runners,        \* processes running migrate-portal-db.mjs
    MaxApplies,     \* bound on provisioning runs
    MaxDrift,       \* bound on changes by other administrators
    MaxCrashes      \* bound on lost processes and connections

DatabaseAssumption == {MaxApplies, MaxDrift, MaxCrashes} \subseteq Nat

\* What the migration grants to the runtime role, in its order.
GrantOrder == <<"usage", "state", "rate", "migration", "checkpoint", "transition", "exactRead">>
Matrix == {<<"runtime", GrantOrder[i]>> : i \in 1 .. Len(GrantOrder)}

\* Two grants nobody but the owner may have: creating objects, and writing
\* the checkpoint tables.
Grantees == {"runtime", "other"}
Foreign == Grantees \X {"create", "write"}
Migrations == {1, 2}

VARIABLES
    db,         \* the committed catalog
    advisory,   \* holder of the advisory lock
    prov,       \* each provisioning process
    mig,        \* each migration process
    applies, drift, crashes

vars == <<db, advisory, prov, mig, applies, drift, crashes>>

NoProv == [stage |-> "idle", snap |-> None]
NoMig == [stage |-> "idle", granted |-> 0]

MigStages == {"lock", "preflight", "defaults", "creation", "migrate", "close", "grant", "acl", "verify"}

\* A database as the provider hands it over: everybody may create, and the
\* owner's default privileges may give new tables away.
Init ==
    /\ \E defaults \in SUBSET Grantees :
         db = [role |-> FALSE, schema |-> FALSE, settings |-> FALSE, password |-> 0,
               graph |-> TRUE, objects |-> {}, defaults |-> defaults, acl |-> {<<"other", "create">>}]
    /\ advisory = None
    /\ prov = [p \in Provisioners |-> NoProv] /\ mig = [p \in Runners |-> NoMig]
    /\ applies = 0 /\ drift = 0 /\ crashes = 0

TypeOK ==
    /\ db.objects \in {{}, {1}, Migrations} /\ db.acl \subseteq Matrix \cup Foreign
    /\ db.defaults \subseteq Grantees
    /\ advisory \in Provisioners \cup Runners \cup {None}
    /\ \A p \in Provisioners : prov[p].stage \in {"idle", "wait", "apply"}
    /\ \A p \in Runners : mig[p].stage \in MigStages \cup {"idle", "failed", "ready"}
    /\ \A p \in Runners : (mig[p].stage \in MigStages \ {"lock"}) <=> advisory = p
    /\ applies \in 0 .. MaxApplies /\ drift \in 0 .. MaxDrift /\ crashes \in 0 .. MaxCrashes

Freed(p) == IF advisory = p THEN None ELSE advisory

----------------------------------------------------------------------------
\* provision-portal-db.mjs

\* What the ceremony looks at, in the snapshot and its own changes: not the
\* default privileges.
inspect(s) == [role |-> s.role, schema |-> s.schema, graph |-> s.graph, objects |-> s.objects,
               usage |-> <<"runtime", "usage">> \in s.acl,
               runtimeCreate |-> <<"runtime", "create">> \in s.acl,
               publicCreate |-> <<"other", "create">> \in s.acl]

exactRuntimeAttributes(s) == s.graph
schemaEmpty(s) == s.objects = {}
assertSafeState(s) ==
    /\ s.role => exactRuntimeAttributes(s)
    /\ s.schema => schemaEmpty(s)
    /\ ~s.runtimeCreate

\* BEGIN; the SELECT that waits for the lock takes the snapshot.
provision(p) ==
    /\ prov[p].stage = "idle" /\ applies < MaxApplies
    /\ prov' = [prov EXCEPT ![p] = [stage |-> "wait", snap |-> db]] /\ applies' = applies + 1
    /\ UNCHANGED <<db, advisory, mig, drift, crashes>>

acquireXactLock(p) ==
    /\ prov[p].stage = "wait" /\ advisory = None
    /\ advisory' = p /\ prov' = [prov EXCEPT ![p].stage = "apply"]
    /\ UNCHANGED <<db, mig, applies, drift, crashes>>

\* The ceremony's statements on what the catalog holds now.
applyProvisioning(d) ==
    [d EXCEPT !.role = TRUE, !.schema = TRUE, !.settings = TRUE, !.password = @ + 1,
              !.acl = (@ \ {<<"other", "create">>, <<"runtime", "create">>}) \cup {<<"runtime", "usage">>}]

\* CREATE ROLE and CREATE SCHEMA fail on what was created since the snapshot.
creatable(s) == (db.role => s.role) /\ (db.schema => s.schema)

assertExactResult(s) ==
    LET after == inspect(applyProvisioning(s))
    IN  assertSafeState(after) /\ after.usage /\ ~after.publicCreate

applied(p) ==
    /\ prov[p].stage = "apply"
    /\ LET s == prov[p].snap
       IN  db' = IF assertSafeState(inspect(s)) /\ creatable(s) /\ assertExactResult(s)
                 THEN applyProvisioning(db) ELSE db
    /\ prov' = [prov EXCEPT ![p] = NoProv] /\ advisory' = Freed(p)
    /\ UNCHANGED <<mig, applies, drift, crashes>>

----------------------------------------------------------------------------
\* migrate-portal-db.mjs

Step(p, stage) == mig' = [mig EXCEPT ![p].stage = stage]
throw(p) ==
    /\ mig' = [mig EXCEPT ![p] = [NoMig EXCEPT !.stage = "failed"]] /\ advisory' = Freed(p)
    /\ UNCHANGED <<db, prov, applies, drift, crashes>>

\* Both connections and their identities, the schema and its owner.
connect(p) ==
    /\ mig[p].stage \in {"idle", "failed", "ready"} /\ db.role /\ db.schema
    /\ mig' = [mig EXCEPT ![p] = [NoMig EXCEPT !.stage = "lock"]]
    /\ UNCHANGED <<db, advisory, prov, applies, drift, crashes>>

sessionLock(p) == advisory = None
acquireLock(p) ==
    /\ mig[p].stage = "lock" /\ sessionLock(p)
    /\ advisory' = p /\ Step(p, "preflight")
    /\ UNCHANGED <<db, prov, applies, drift, crashes>>

runtimePreflight == db.graph /\ db.settings
preflight(p) ==
    /\ mig[p].stage = "preflight"
    /\ IF runtimePreflight
       THEN Step(p, "defaults") /\ UNCHANGED <<db, advisory, prov, applies, drift, crashes>>
       ELSE throw(p)

\* One statement group that changes the catalog and moves on.
Change(p, from, to, d) ==
    /\ mig[p].stage = from /\ db' = d /\ Step(p, to)
    /\ UNCHANGED <<advisory, prov, applies, drift, crashes>>

closeOwnerDefaultPrivileges_schema(d) == [d EXCEPT !.defaults = @ \ {"runtime"}]
closeOwnerDefaultPrivileges(d) == [d EXCEPT !.defaults = {}]

\* Nobody creates, and nobody but the owner uses the target schema.
closeCreationPrivileges(d) ==
    [d EXCEPT !.acl = @ \ ((Grantees \X {"create"}) \cup {<<"runtime", "usage">>})]

\* Migrations 1 and 2, each its own transaction; a table that is new gets
\* the owner's default privileges.
runMigration(d, version) ==
    [d EXCEPT !.objects = @ \cup {version},
              !.acl = IF version = 2 /\ 2 \notin d.objects
                      THEN @ \cup {<<g, "write">> : g \in d.defaults} ELSE @]

\* Every grant on the portal's objects goes.
closePortalObjectPrivileges(d) ==
    [d EXCEPT !.acl = @ \ ((Matrix \ {<<"runtime", "usage">>}) \cup (Grantees \X {"write"}))]

grantNext(p) ==
    /\ mig[p].stage = "grant"
    /\ LET n == mig[p].granted + 1
       IN  /\ db' = [db EXCEPT !.acl = @ \cup {<<"runtime", GrantOrder[n]>>}]
           /\ mig' = [mig EXCEPT ![p].granted = n,
                                 ![p].stage = IF n = Len(GrantOrder) THEN "acl" ELSE @]
    /\ UNCHANGED <<advisory, prov, applies, drift, crashes>>

aclClosure(d) == d.acl = Matrix /\ d.defaults = {}
verifyAclClosure(p) ==
    /\ mig[p].stage = "acl"
    /\ IF aclClosure(db)
       THEN Step(p, "verify") /\ UNCHANGED <<db, advisory, prov, applies, drift, crashes>>
       ELSE throw(p)

runtimeVerification(d) == d.graph /\ d.settings /\ d.objects = Migrations
ready(p) ==
    /\ mig[p].stage = "verify"
    /\ IF runtimeVerification(db)
       THEN /\ Step(p, "ready") /\ advisory' = Freed(p)
            /\ UNCHANGED <<db, prov, applies, drift, crashes>>
       ELSE throw(p)

Migrate(p) ==
    \/ connect(p) \/ acquireLock(p) \/ preflight(p)
    \/ Change(p, "defaults", "creation", closeOwnerDefaultPrivileges(db))
    \/ Change(p, "creation", "migrate", closeCreationPrivileges(db))
    \/ \E version \in Migrations :
         /\ version = 2 <=> 1 \in db.objects
         /\ Change(p, "migrate", IF version = 2 THEN "close" ELSE "migrate", runMigration(db, version))
    \/ Change(p, "close", "grant", closePortalObjectPrivileges(db))
    \/ grantNext(p) \/ verifyAclClosure(p) \/ ready(p)

----------------------------------------------------------------------------
\* Faults and other administrators

Idle == advisory = None /\ \A p \in Runners : mig[p].stage \notin MigStages

\* A process dies or its connection does: the transaction rolls back, the
\* locks go, what was committed stays.
Crash ==
    /\ crashes < MaxCrashes /\ crashes' = crashes + 1
    /\ \/ \E p \in Runners : /\ mig[p].stage \in MigStages
                             /\ mig' = [mig EXCEPT ![p] = [NoMig EXCEPT !.stage = "failed"]]
                             /\ advisory' = Freed(p) /\ UNCHANGED prov
       \/ \E p \in Provisioners : /\ prov[p].stage # "idle"
                                  /\ prov' = [prov EXCEPT ![p] = NoProv]
                                  /\ advisory' = Freed(p) /\ UNCHANGED mig
    /\ UNCHANGED <<db, applies, drift>>

\* Outside the ceremonies' window an administrator changes default
\* privileges, grants, or the role graph; and the role graph is put back.
Drift ==
    /\ Idle /\ drift < MaxDrift /\ drift' = drift + 1
    /\ \E g \in Grantees :
         db' \in {[db EXCEPT !.defaults = @ \cup {g}], [db EXCEPT !.acl = @ \cup {<<g, "create">>}],
                  [db EXCEPT !.graph = FALSE]}
    /\ UNCHANGED <<advisory, prov, mig, applies, crashes>>
RestoreGraph ==
    /\ ~db.graph /\ db' = [db EXCEPT !.graph = TRUE]
    /\ UNCHANGED <<advisory, prov, mig, applies, drift, crashes>>

Provision(p) == provision(p) \/ acquireXactLock(p) \/ applied(p)

Next ==
    \/ \E p \in Provisioners : Provision(p)
    \/ \E p \in Runners : Migrate(p)
    \/ Crash \/ Drift \/ RestoreGraph

Spec == Init /\ [][Next]_vars

----------------------------------------------------------------------------
\* Properties

\* Nobody but the owner can ever write the checkpoint tables: not even between
\* the migration that creates them and the statements that close their grants.
NoForeignWriter == \A g \in Grantees : <<g, "write">> \notin db.acl

\* A runner says ready only when, at that moment, the runtime's grants are
\* exactly the documented matrix and both migrations are there, however the
\* runners and a provisioning interleave, crash and start over.
ReadyIsExact ==
    [][\A p \in Runners : mig[p].stage # "ready" /\ mig'[p].stage = "ready"
           => db'.acl = Matrix /\ db'.objects = Migrations /\ db'.defaults = {}]_vars

\* Provisioning is pre-migration only: once migration has populated the
\* schema, no run of it changes anything.
PreMigrationOnly ==
    [][db.objects # {} => db'.password = db.password]_vars

\* Fairness: the service manager starts the migration again until it is
\* ready, its statements end, the administrators put the role graph back.
FairSpec ==
    /\ Spec
    /\ \A p \in Runners : WF_vars(Migrate(p))
    /\ \A p \in Provisioners : WF_vars(Provision(p))
    /\ WF_vars(RestoreGraph)

\* A portal whose grants a rerun has taken away, or a crash in the middle of
\* one, has them back in the end.
AccessReturns == (2 \in db.objects) ~> (Matrix \subseteq db.acl)

=============================================================================
