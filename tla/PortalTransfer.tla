--------------------------- MODULE PortalTransfer ---------------------------
(***************************************************************************)
(* The one-time transfer of the portal's state row from the legacy schema  *)
(* to the pinned one (web/scripts/transfer-legacy-portal-state.mjs): a     *)
(* SERIALIZABLE transaction under a session advisory lock, with the two    *)
(* tables locked, a provenance row as the durable witness, and a fresh     *)
(* transaction after the commit that checks the authority again.           *)
(*                                                                         *)
(* PostgreSQL is modelled from how the script uses it.  The transaction's  *)
(* snapshot is fixed by its first SELECT, which is the one that waits for  *)
(* the advisory lock: rows and catalog rows read by a query come from it.  *)
(* LOCK TABLE, CREATE VIEW, GRANT and REVOKE resolve a name as it is now,  *)
(* the privilege functions answer as of now, and a primary key is checked  *)
(* against what is committed.                                              *)
(***************************************************************************)
EXTENDS Integers, FiniteSets

CONSTANTS
    None,
    Ceremonies,     \* processes that run the script
    ExpectedRevision,
    Paused,         \* the portal's writers are paused while a ceremony runs
    MaxRevision,    \* bound on the revisions written
    MaxDDL,         \* bound on changes by the database's administrators
    MaxFaults,      \* bound on aborted transactions and lost connections
    Imports         \* import-portal-state.mjs may run on the target

ASSUME TransferAssumption ==
    /\ {ExpectedRevision, MaxRevision, MaxDDL, MaxFaults} \subseteq Nat
    /\ Paused \in BOOLEAN /\ Imports \in BOOLEAN
    /\ None \notin Ceremonies

\* Relations by OID: the legacy table, the target, and one an administrator
\* puts in the place of either by renaming a schema.
Relations == {"L", "T", "R"}
Kinds == {"legacy", "target"}

\* A state row: which import it descends from and its revision.
NoRow == [import |-> 0, revision |-> 0]
Reviewed == 1

VARIABLES
    db,         \* what is committed: names, rows, grants, shapes, provenance, roles
    advisory,   \* holder of the session advisory lock
    tableLock,  \* holder of each table's ACCESS EXCLUSIVE lock
    run,        \* each ceremony process
    ddl, faults,
    receipts    \* the receipts printed

vars == <<db, advisory, tableLock, run, ddl, faults, receipts>>

Stages == {"wait", "resolve", "lock", "lock2", "views", "provenance", "acl", "copy",
           "commit", "post", "emit"}
Ended == {"idle", "failed", "done"}

NoRun == [stage |-> "idle", snap |-> None, legacy |-> None, target |-> None,
          grants |-> None, copied |-> FALSE, status |-> None]

Init ==
    /\ \E revision \in 0 .. MaxRevision :
         db = [name |-> [legacy |-> "L", target |-> "T"],
               row |-> [L |-> [import |-> Reviewed, revision |-> revision],
                        T |-> NoRow, R |-> [import |-> 2, revision |-> ExpectedRevision]],
               open |-> [r \in Relations |-> TRUE], plain |-> [r \in Relations |-> TRUE],
               provenance |-> FALSE, markers |-> {}, roleSafe |-> TRUE, owner |-> TRUE]
    /\ advisory = None /\ tableLock = [r \in Relations |-> None]
    /\ run = [p \in Ceremonies |-> NoRun]
    /\ ddl = 0 /\ faults = 0 /\ receipts = {}

TypeOK ==
    /\ db.name \in [Kinds -> Relations] /\ {db.open, db.plain} \subseteq [Relations -> BOOLEAN]
    /\ \A r \in Relations : db.row[r].import \in 0 .. 3 /\ db.row[r].revision \in Nat
    /\ advisory \in Ceremonies \cup {None}
    /\ \A r \in Relations : tableLock[r] # None => advisory = tableLock[r]
    /\ \A p \in Ceremonies : run[p].stage \in Stages \cup Ended
    /\ ddl \in 0 .. MaxDDL /\ faults \in 0 .. MaxFaults

binding(legacy, target) ==
    [legacy |-> legacy, target |-> target, import |-> Reviewed, revision |-> ExpectedRevision]

----------------------------------------------------------------------------
\* The ceremony

Unlocked(p) == [r \in Relations |-> IF tableLock[r] = p THEN None ELSE tableLock[r]]
Freed(p) == IF advisory = p THEN None ELSE advisory

\* ROLLBACK, the advisory lock given back, exit 1.
fail(p) ==
    /\ run' = [run EXCEPT ![p] = [NoRun EXCEPT !.stage = "failed"]]
    /\ tableLock' = Unlocked(p) /\ advisory' = Freed(p)
    /\ UNCHANGED <<db, ddl, faults, receipts>>

\* Either the check passes and the run moves on with these changes, or it fails.
Checked(p, check, next) ==
    IF check THEN run' = [run EXCEPT ![p] = next] /\ UNCHANGED <<db, advisory, tableLock, ddl, faults, receipts>>
    ELSE fail(p)

At(p, stage) == run[p].stage = stage
To(p, stage) == [run[p] EXCEPT !.stage = stage]

\* BEGIN, then the first SELECT: the snapshot is taken before the lock is waited for.
main(p) ==
    /\ run[p].stage \in Ended
    /\ run' = [run EXCEPT ![p] = [NoRun EXCEPT !.stage = "wait", !.snap = db]]
    /\ UNCHANGED <<db, advisory, tableLock, ddl, faults, receipts>>

acquireCeremonyLock(p) ==
    /\ At(p, "wait") /\ advisory = None
    /\ advisory' = p /\ run' = [run EXCEPT ![p] = To(p, "resolve")]
    /\ UNCHANGED <<db, tableLock, ddl, faults, receipts>>

databaseIdentity(snap) == snap.owner

\* The tables by schema name, as the snapshot's catalog has them.
resolveRelations(snap) == snap.name

resolveRuntimeRole(p) ==
    /\ At(p, "resolve")
    /\ LET initial == resolveRelations(run[p].snap)
       IN  Checked(p, databaseIdentity(run[p].snap) /\ initial.legacy # initial.target,
                   [To(p, "lock") EXCEPT !.legacy = initial.legacy, !.target = initial.target])

\* LOCK TABLE finds the table that has the name now; the lower OID first.
FirstKind(p) == IF run[p].legacy = "L" THEN "legacy" ELSE "target"
OtherKind(k) == IF k = "legacy" THEN "target" ELSE "legacy"
LockTable(p, kind, stage) ==
    /\ tableLock[db.name[kind]] \in {None, p}
    /\ tableLock' = [tableLock EXCEPT ![db.name[kind]] = p]
    /\ run' = [run EXCEPT ![p] = To(p, stage)]
    /\ UNCHANGED <<db, advisory, ddl, faults, receipts>>

verifyAccessExclusiveLocks(p) == tableLock[run[p].legacy] = p /\ tableLock[run[p].target] = p

Lock(p) ==
    \/ At(p, "lock") /\ LockTable(p, FirstKind(p), "lock2")
    \/ At(p, "lock2") /\ LockTable(p, OtherKind(FirstKind(p)), "views")

\* The snapshot's name of a locked table, as a statement resolves it now.
relationNameByOid(kind) == db.name[kind]

\* Columns, constraints, no trigger, rule, policy or inheritance, as the
\* snapshot's catalog has them.
verifyPortalTableShape(snap, r) == snap.plain[r]

\* The names are resolved again, in the same snapshot; the temporary views
\* name the tables as the snapshot does and must come out bound to the OIDs locked.
createOidBoundPortalView(p) ==
    /\ At(p, "views")
    /\ Checked(p, /\ verifyAccessExclusiveLocks(p)
                  /\ verifyPortalTableShape(run[p].snap, run[p].legacy)
                  /\ verifyPortalTableShape(run[p].snap, run[p].target)
                  /\ resolveRelations(run[p].snap) = [legacy |-> run[p].legacy, target |-> run[p].target]
                  /\ relationNameByOid("legacy") = run[p].legacy
                  /\ relationNameByOid("target") = run[p].target,
               To(p, "provenance"))

\* Nothing that the runtime role is or may become has more than its grants.
verifyRuntimeRoleClosure == db.roleSafe

\* CREATE TABLE IF NOT EXISTS does nothing to a table that the snapshot does
\* not show, and the query for its OID then finds nothing.
ensureProvenanceTable(p) ==
    /\ At(p, "provenance")
    /\ Checked(p, (db.provenance => run[p].snap.provenance) /\ verifyRuntimeRoleClosure, To(p, "acl"))

\* All grants on the legacy table go; the target keeps the runtime's.  The
\* statements name the tables, the verification goes by OID.
normalizeRelationAcl_target(open, legacy, target) == [open EXCEPT ![target] = TRUE]
normalizeRelationAcl(open, legacy, target) == [open EXCEPT ![legacy] = FALSE, ![target] = TRUE]

verifyPortalAclClosure(open, legacy, target) == ~open[legacy] /\ open[target]

normalizePortalAcls(p) ==
    /\ At(p, "acl")
    /\ LET open == normalizeRelationAcl(db.open, relationNameByOid("legacy"), relationNameByOid("target"))
       IN  Checked(p, verifyPortalAclClosure(open, run[p].legacy, run[p].target) /\ verifyRuntimeRoleClosure,
                   [To(p, "copy") EXCEPT !.grants = open])

verifyExpectedSource_import(row) == row.import = Reviewed
verifyExpectedSource(row) == row = [import |-> Reviewed, revision |-> ExpectedRevision]

\* A marker of this very transfer: nothing to copy.  Otherwise the
\* destination has to be empty, in the snapshot and under its primary key.
reconcilable(p, snap) == binding(run[p].legacy, run[p].target) \in snap.markers
copyable(p, snap) ==
    /\ snap.row[run[p].target] = NoRow
    /\ db.row[run[p].target] = NoRow

\* The row the INSERT leaves in the target: a trigger or rule put there after
\* the snapshot may make it another one.  It is read back.
Inserted(p) == IF db.plain[run[p].target] THEN run[p].snap.row[run[p].legacy]
               ELSE [import |-> 3, revision |-> ExpectedRevision]
verifyDestination(p) == Inserted(p) = run[p].snap.row[run[p].legacy]

readSingleton(p) ==
    /\ At(p, "copy")
    /\ LET snap == run[p].snap
       IN  Checked(p, /\ verifyExpectedSource(snap.row[run[p].legacy])
                      /\ reconcilable(p, snap) \/ (copyable(p, snap) /\ verifyDestination(p)),
                   [To(p, "commit") EXCEPT !.copied = ~reconcilable(p, snap),
                        !.status = IF reconcilable(p, snap) THEN "reconciled" ELSE "transferred"])

Committed(p) ==
    [db EXCEPT !.open = run[p].grants, !.provenance = TRUE,
               !.markers = IF run[p].copied THEN @ \cup {binding(run[p].legacy, run[p].target)} ELSE @,
               !.row = IF run[p].copied THEN [@ EXCEPT ![run[p].target] = Inserted(p)] ELSE @]

\* COMMIT, acknowledged: the table locks end, the advisory lock does not.
Commit(p) ==
    /\ At(p, "commit")
    /\ db' = Committed(p) /\ tableLock' = Unlocked(p)
    /\ run' = [run EXCEPT ![p] = To(p, "post")]
    /\ UNCHANGED <<advisory, ddl, faults, receipts>>

\* COMMIT, applied, and the acknowledgment or the process is lost.
CommitAmbiguous(p) ==
    /\ At(p, "commit") /\ faults < MaxFaults
    /\ db' = Committed(p) /\ tableLock' = Unlocked(p) /\ advisory' = Freed(p)
    /\ run' = [run EXCEPT ![p] = [NoRun EXCEPT !.stage = "failed"]]
    /\ faults' = faults + 1 /\ UNCHANGED <<ddl, receipts>>

\* A fresh transaction without table locks: authority, names, grants, marker.
postCommitAuthorityCheck(p) ==
    /\ At(p, "post")
    /\ Checked(p, /\ databaseIdentity(db) /\ verifyRuntimeRoleClosure
                  /\ verifyPortalTableShape(db, run[p].legacy) /\ verifyPortalTableShape(db, run[p].target)
                  /\ db.name = [legacy |-> run[p].legacy, target |-> run[p].target]
                  /\ verifyPortalAclClosure(db.open, run[p].legacy, run[p].target)
                  /\ binding(run[p].legacy, run[p].target) \in db.markers,
               To(p, "emit"))

emitReceipt(p) ==
    /\ At(p, "emit")
    /\ receipts' = receipts \cup {binding(run[p].legacy, run[p].target)}
    /\ run' = [run EXCEPT ![p] = [NoRun EXCEPT !.stage = "done"]]
    /\ advisory' = Freed(p)
    /\ UNCHANGED <<db, tableLock, ddl, faults>>

\* A lock timeout, a serialization failure, a lost connection, a kill.
Abort(p) ==
    /\ run[p].stage \in Stages /\ faults < MaxFaults
    /\ run' = [run EXCEPT ![p] = [NoRun EXCEPT !.stage = "failed"]]
    /\ tableLock' = Unlocked(p) /\ advisory' = Freed(p) /\ faults' = faults + 1
    /\ UNCHANGED <<db, ddl, receipts>>

Ceremony(p) ==
    \/ main(p) \/ acquireCeremonyLock(p) \/ resolveRuntimeRole(p) \/ Lock(p)
    \/ createOidBoundPortalView(p) \/ ensureProvenanceTable(p) \/ normalizePortalAcls(p)
    \/ readSingleton(p) \/ Commit(p) \/ postCommitAuthorityCheck(p) \/ emitReceipt(p)

----------------------------------------------------------------------------
\* The portals, the import script and the administrators

Running == \E p \in Ceremonies : run[p].stage \in Stages
Quiet == ~(Paused /\ Running)

\* One update of a portal's store: a row lock, so it waits for a table lock,
\* and needs the grant when it gets it.
updatePortalState(r) ==
    /\ Quiet /\ r \in {db.name.legacy, db.name.target} /\ tableLock[r] = None /\ db.open[r]
    /\ db.row[r] # NoRow /\ db.row[r].revision < MaxRevision
    /\ db' = [db EXCEPT !.row[r].revision = @ + 1]
    /\ UNCHANGED <<advisory, tableLock, run, ddl, faults, receipts>>

\* import-portal-state.mjs: LOCK TABLE, refuse an initialized table, insert.
importPortalState ==
    LET r == db.name.target
    IN  /\ Imports /\ tableLock[r] = None /\ db.open[r]
        /\ db.row[r] = NoRow
        /\ db' = [db EXCEPT !.row[r] = [import |-> 3, revision |-> 0]]
        /\ UNCHANGED <<advisory, tableLock, run, ddl, faults, receipts>>

\* ALTER SCHEMA ... RENAME and another table of the same name; and back.
RenameSchema(kind) ==
    /\ ddl < MaxDDL /\ "R" \notin {db.name.legacy, db.name.target}
    /\ db' = [db EXCEPT !.name[kind] = "R"] /\ ddl' = ddl + 1
    /\ UNCHANGED <<advisory, tableLock, run, faults, receipts>>
RestoreSchema(kind) ==
    /\ db.name[kind] = "R"
    /\ db' = [db EXCEPT !.name[kind] = IF kind = "legacy" THEN "L" ELSE "T"]
    /\ UNCHANGED <<advisory, tableLock, run, ddl, faults, receipts>>

\* A membership that lets the runtime become more than it is, or a change of
\* the database's owner; and back.
AlterAuthority ==
    /\ ddl < MaxDDL /\ db.roleSafe /\ db.owner
    /\ \E field \in {"roleSafe", "owner"} : db' = [db EXCEPT ![field] = FALSE]
    /\ ddl' = ddl + 1
    /\ UNCHANGED <<advisory, tableLock, run, faults, receipts>>
RestoreAuthority ==
    /\ ~(db.roleSafe /\ db.owner)
    /\ db' = [db EXCEPT !.roleSafe = TRUE, !.owner = TRUE]
    /\ UNCHANGED <<advisory, tableLock, run, ddl, faults, receipts>>

\* ALTER TABLE, CREATE TRIGGER, CREATE RULE, which wait for the table lock; and back.
AlterTable(r) ==
    /\ ddl < MaxDDL /\ tableLock[r] = None /\ db.plain[r]
    /\ db' = [db EXCEPT !.plain[r] = FALSE] /\ ddl' = ddl + 1
    /\ UNCHANGED <<advisory, tableLock, run, faults, receipts>>
RestoreTable(r) ==
    /\ ~db.plain[r] /\ tableLock[r] = None
    /\ db' = [db EXCEPT !.plain[r] = TRUE]
    /\ UNCHANGED <<advisory, tableLock, run, ddl, faults, receipts>>

Restore == (\E kind \in Kinds : RestoreSchema(kind)) \/ RestoreAuthority \/ (\E r \in Relations : RestoreTable(r))

Next ==
    \/ \E p \in Ceremonies : Ceremony(p) \/ CommitAmbiguous(p) \/ Abort(p)
    \/ \E r \in Relations : updatePortalState(r) \/ AlterTable(r)
    \/ importPortalState
    \/ \E kind \in Kinds : RenameSchema(kind)
    \/ AlterAuthority \/ Restore

Spec == Init /\ [][Next]_vars

----------------------------------------------------------------------------
\* Properties

\* A receipt is about a transfer that happened: its marker is committed, and
\* the target it names holds the reviewed import at the revision of the
\* receipt or one written since.
ReceiptHolds ==
    \A m \in receipts \cup db.markers :
        m \in db.markers /\ db.row[m.target].import = m.import /\ db.row[m.target].revision >= m.revision

\* What the legacy portal last committed is what was copied: no update of it
\* is left behind.
NothingLeftBehind == \A m \in db.markers : db.row[m.legacy].revision = m.revision

\* No ceremony, first run or retry, writes over a row: a row changes only by
\* one revision of its own import.
NeverOverwritten ==
    [][\A r \in Relations : db.row[r] # NoRow /\ db'.row[r] # db.row[r]
           => db'.row[r] = [db.row[r] EXCEPT !.revision = @ + 1]]_vars

\* From the commit of a transfer on the legacy table is never written again,
\* by no portal and whatever fails after the commit.
LegacyFrozen == [][\A m \in db.markers : db'.row[m.legacy] = db.row[m.legacy]]_vars

\* Fairness: operators rerun a ceremony, the script's steps end (its lock and
\* statement timeouts), and the administrators put back what they changed; an
\* ALTER TABLE that waits for the table lock stands in its queue.
FairSpec ==
    /\ Spec
    /\ \A p \in Ceremonies : WF_vars(Ceremony(p))
    /\ WF_vars(Restore)
    /\ \A r \in Relations : SF_vars(RestoreTable(r))

\* A transfer that was committed is attested in the end: whatever was lost or
\* changed after the commit, a later run finds the marker and prints the receipt.
TransferAttested == db.markers # {} ~> receipts # {}

=============================================================================
