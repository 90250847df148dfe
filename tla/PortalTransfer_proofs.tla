------------------------ MODULE PortalTransfer_proofs ------------------------
(***************************************************************************)
(* The transfer of the portal's state, for any number of ceremonies,       *)
(* revisions, administrators' changes and faults.                          *)
(*                                                                         *)
(* The argument: a ceremony that copies found the reviewed import, so its  *)
(* source is the legacy table and its target the new one, whatever the     *)
(* names were; the locks keep the target empty and its triggers as they    *)
(* were until the copy is committed; the grants it commits close the       *)
(* source for good, as that table is never a target; and the pause of the  *)
(* writers keeps the source as the snapshot shows it.                      *)
(***************************************************************************)
EXTENDS PortalTransfer, TLAPS

Row == [import : 0..3, revision : Nat]
Database ==
    [name : [legacy : {"L", "R"}, target : {"T", "R"}],
     row : [Relations -> Row],
     open : [Relations -> BOOLEAN], plain : [Relations -> BOOLEAN],
     provenance : BOOLEAN,
     markers : SUBSET {binding("L", "T")},
     roleSafe : BOOLEAN, owner : BOOLEAN]
Run == [stage : Stages \cup Ended, snap : Database \cup {None},
        legacy : {"L", "R", None}, target : {"T", "R", None},
        grants : [Relations -> BOOLEAN] \cup {None}, copied : BOOLEAN,
        status : {None, "reconciled", "transferred"}]

TransferShape ==
    /\ db \in Database
    /\ run \in [Ceremonies -> Run]
    /\ advisory \in Ceremonies \cup {None}
    /\ tableLock \in [Relations -> Ceremonies \cup {None}]

(* The legacy table holds the reviewed import and the stranger another one. *)
Sourced(d) == d.row["L"].import = Reviewed /\ d.row["R"].import = 2

(* What a committed transfer leaves: the legacy table closed, at the revision
   that was copied if the writers were paused, and the copy in the target. *)
Settled ==
    db.markers # {} =>
        /\ ~db.open["L"]
        /\ Paused => db.row["L"].revision = ExpectedRevision
        /\ db.row["T"].import = Reviewed /\ db.row["T"].revision >= ExpectedRevision

(* What a ceremony may rely on at its stage (the comments of main). *)
Resolved == Stages \ {"wait", "resolve"}
SnapshotShows(p) ==
    run[p].stage \in Stages =>
        /\ run[p].snap \in Database /\ Sourced(run[p].snap)
        /\ Paused => run[p].snap.row["L"] = db.row["L"]
LocksHeld(p) ==
    /\ run[p].stage \in Stages \ {"wait"} => advisory = p
    /\ run[p].stage \in Resolved => /\ run[p].legacy \in {"L", "R"} /\ run[p].target \in {"T", "R"}
                                    /\ run[p].legacy # run[p].target
    /\ run[p].stage \in {"provenance", "acl", "copy", "commit"} =>
          tableLock[run[p].legacy] = p /\ tableLock[run[p].target] = p
GrantsClose(p) ==
    run[p].stage \in {"copy", "commit"} =>
        run[p].grants \in [Relations -> BOOLEAN] /\ ~run[p].grants[run[p].legacy]
CopyReady(p) ==
    run[p].stage = "commit" =>
        /\ run[p].legacy = "L"
        /\ run[p].snap.row["L"].revision = ExpectedRevision
        /\ run[p].copied => /\ run[p].target = "T" /\ db.row["T"] = NoRow
                            /\ Inserted(p) = run[p].snap.row["L"]
Attested(p) == run[p].stage = "emit" => binding(run[p].legacy, run[p].target) \in db.markers

CeremonyKnows(p) ==
    SnapshotShows(p) /\ LocksHeld(p) /\ GrantsClose(p) /\ CopyReady(p) /\ Attested(p)

TransferInv ==
    /\ TransferShape
    /\ Sourced(db) /\ Settled
    /\ receipts \subseteq db.markers
    /\ \A p \in Ceremonies : CeremonyKnows(p)

-----------------------------------------------------------------------------
LEMMA TransferInvInit == Init => TransferInv
<1> SUFFICES ASSUME Init PROVE TransferInv
  OBVIOUS
<1>1. PICK revision \in 0..MaxRevision :
         db = [name |-> [legacy |-> "L", target |-> "T"],
               row |-> [L |-> [import |-> Reviewed, revision |-> revision],
                        T |-> NoRow, R |-> [import |-> 2, revision |-> ExpectedRevision]],
               open |-> [r \in Relations |-> TRUE], plain |-> [r \in Relations |-> TRUE],
               provenance |-> FALSE, markers |-> {}, roleSafe |-> TRUE, owner |-> TRUE]
  BY DEF Init
<1>2. revision \in Nat /\ ExpectedRevision \in Nat
  BY TransferAssumption
<1>3. db.row \in [Relations -> Row]
  BY <1>1, <1>2 DEF Relations, Row, Reviewed, NoRow
<1>4. db \in Database /\ Sourced(db) /\ db.markers = {}
  BY <1>1, <1>3 DEF Database, Sourced
<1>5. run = [p \in Ceremonies |-> NoRun] /\ NoRun \in Run /\ NoRun.stage = "idle"
  BY DEF Init, NoRun, Run, Ended
<1>6. QED
  BY <1>4, <1>5 DEF Init, TransferInv, TransferShape, Settled, CeremonyKnows, SnapshotShows, LocksHeld,
                    GrantsClose, CopyReady, Attested, Stages, Resolved, Ended

(* A run that is over knows nothing. *)
LEMMA EndedKnows ==
    ASSUME NEW p \in Ceremonies, run'[p].stage \in Ended
    PROVE  CeremonyKnows(p)'
  BY DEF CeremonyKnows, SnapshotShows, LocksHeld, GrantsClose, CopyReady, Attested, Stages, Resolved, Ended

(* What one ceremony does to the locks does not concern another. *)
LEMMA OthersKnow ==
    ASSUME TransferInv, NEW p \in Ceremonies, NEW q \in Ceremonies, q # p,
           db' = db, run'[q] = run[q],
           advisory' = advisory \/ advisory' = Freed(p) \/ (advisory = None /\ advisory' = p),
           \A r \in Relations : tableLock[r] = q => tableLock'[r] = q
    PROVE  CeremonyKnows(q)'
<1>1. q # None
  BY TransferAssumption
<1>2. advisory = q => advisory' = q
  BY <1>1 DEF Freed
<1>3. CeremonyKnows(q) /\ run[q] \in Run
  BY DEF TransferInv, TransferShape
<1>4. SnapshotShows(q)' /\ GrantsClose(q)' /\ Attested(q)' /\ CopyReady(q)'
  BY <1>3 DEF CeremonyKnows, SnapshotShows, GrantsClose, Attested, CopyReady, Inserted
<1>5. run[q].stage \in Resolved => run[q].legacy \in Relations /\ run[q].target \in Relations
  BY <1>3 DEF CeremonyKnows, LocksHeld, Run, Relations
<1>6. LocksHeld(q)'
  BY <1>2, <1>3, <1>5 DEF CeremonyKnows, LocksHeld, Resolved, Stages
<1>7. QED
  BY <1>4, <1>6 DEF CeremonyKnows

(* A check that fails, an abort: the run ends and gives its locks back. *)
LEMMA EndKeepsInv ==
    ASSUME TransferInv, NEW p \in Ceremonies, NEW last \in Run, last.stage \in Ended,
           run' = [run EXCEPT ![p] = last], advisory' = Freed(p),
           tableLock' = Unlocked(p) \/ tableLock' = tableLock,
           db' = db, receipts' \subseteq db.markers
    PROVE  TransferInv'
<1>1. TransferShape'
  BY DEF TransferInv, TransferShape, Unlocked, Freed
<1>2. Sourced(db)' /\ Settled' /\ receipts' \subseteq db'.markers
  BY DEF TransferInv, Settled
<1>3. run'[p].stage \in Ended
  BY DEF TransferInv, TransferShape
<1>4. ASSUME NEW q \in Ceremonies, q # p PROVE CeremonyKnows(q)'
  <2>1. run'[q] = run[q]
    BY <1>4 DEF TransferInv, TransferShape
  <2>2. \A r \in Relations : tableLock[r] = q => tableLock'[r] = q
    BY <1>4 DEF Unlocked
  <2>3. QED
    BY <1>4, <2>1, <2>2, OthersKnow
<1>5. \A q \in Ceremonies : CeremonyKnows(q)'
  BY <1>3, <1>4, EndedKnows
<1>6. QED
  BY <1>1, <1>2, <1>5 DEF TransferInv

LEMMA FailKeepsInv ==
    ASSUME TransferInv, NEW p \in Ceremonies, fail(p)
    PROVE  TransferInv'
<1>1. [NoRun EXCEPT !.stage = "failed"] \in Run /\ [NoRun EXCEPT !.stage = "failed"].stage \in Ended
  BY DEF NoRun, Run, Ended
<1>2. receipts' \subseteq db.markers
  BY DEF fail, TransferInv
<1>3. QED
  BY <1>1, <1>2, EndKeepsInv DEF fail

(* A step of a ceremony that touches only its own record and the locks. *)
LEMMA MoveKeepsInv ==
    ASSUME TransferInv, NEW p \in Ceremonies, NEW next \in Run,
           run' = [run EXCEPT ![p] = next], db' = db, receipts' = receipts,
           advisory' = advisory \/ (advisory = None /\ advisory' = p),
           tableLock' = tableLock
              \/ \E r \in Relations : tableLock[r] \in {None, p} /\ tableLock' = [tableLock EXCEPT ![r] = p],
           CeremonyKnows(p)'
    PROVE  TransferInv'
<1>1. TransferShape'
  BY DEF TransferInv, TransferShape
<1>2. Sourced(db)' /\ Settled' /\ receipts' \subseteq db'.markers
  BY DEF TransferInv, Settled
<1>3. ASSUME NEW q \in Ceremonies, q # p PROVE CeremonyKnows(q)'
  <2>1. run'[q] = run[q]
    BY <1>3 DEF TransferInv, TransferShape
  <2>2. \A r \in Relations : tableLock[r] = q => tableLock'[r] = q
    BY <1>3, TransferAssumption DEF TransferInv, TransferShape
  <2>3. QED
    BY <1>3, <2>1, <2>2, OthersKnow
<1>4. QED
  BY <1>1, <1>2, <1>3 DEF TransferInv

(* The check of a stage passes, and the run moves on with its locks. *)
LEMMA PassKeepsInv ==
    ASSUME TransferInv, NEW p \in Ceremonies, NEW check, NEW next \in Run,
           Checked(p, check, next),
           (/\ check /\ db' = db /\ advisory' = advisory /\ tableLock' = tableLock
            /\ run'[p] = next) => CeremonyKnows(p)'
    PROVE  TransferInv'
<1>1. CASE check /\ run' = [run EXCEPT ![p] = next] /\ UNCHANGED <<db, advisory, tableLock, ddl, faults, receipts>>
  <2>1. run'[p] = next
    BY <1>1 DEF TransferInv, TransferShape
  <2>2. CeremonyKnows(p)'
    BY <1>1, <2>1
  <2>3. QED
    BY <1>1, <2>2, MoveKeepsInv
<1>2. CASE fail(p)
  BY <1>2, FailKeepsInv
<1>3. QED
  BY <1>1, <1>2 DEF Checked

(* What the record of a run is, and what it becomes. *)
LEMMA ToStage ==
    ASSUME TransferInv, NEW p \in Ceremonies, NEW stage \in Stages
    PROVE  /\ run[p] \in Run /\ CeremonyKnows(p)
           /\ To(p, stage) \in Run
           /\ To(p, stage).stage = stage
           /\ To(p, stage).snap = run[p].snap /\ To(p, stage).legacy = run[p].legacy
           /\ To(p, stage).target = run[p].target /\ To(p, stage).grants = run[p].grants
           /\ To(p, stage).copied = run[p].copied
  BY DEF TransferInv, TransferShape, To, Run

LEMMA MainKeepsInv ==
    ASSUME TransferInv, NEW p \in Ceremonies, main(p)
    PROVE  TransferInv'
<1> DEFINE next == [NoRun EXCEPT !.stage = "wait", !.snap = db]
<1>1. next \in Run /\ next.stage = "wait" /\ next.snap = db
  BY DEF NoRun, Run, Stages, TransferInv, TransferShape
<1>2. run'[p] = next /\ db' = db
  BY DEF main, TransferInv, TransferShape
<1>3. CeremonyKnows(p)'
  <2>1. db \in Database /\ Sourced(db)
    BY DEF TransferInv, TransferShape
  <2>2. QED
    BY <1>1, <1>2, <2>1 DEF CeremonyKnows, SnapshotShows, LocksHeld, GrantsClose, CopyReady, Attested,
                            Stages, Resolved
<1>4. QED
  BY <1>1, <1>3, MoveKeepsInv DEF main

LEMMA AcquireKeepsInv ==
    ASSUME TransferInv, NEW p \in Ceremonies, acquireCeremonyLock(p)
    PROVE  TransferInv'
<1>1. To(p, "resolve") \in Run /\ To(p, "resolve").stage = "resolve" /\ To(p, "resolve").snap = run[p].snap
      /\ CeremonyKnows(p) /\ run[p].stage = "wait"
  BY ToStage DEF Stages, acquireCeremonyLock, At
<1>2. run'[p] = To(p, "resolve") /\ db' = db /\ advisory' = p
  BY DEF acquireCeremonyLock, TransferInv, TransferShape
<1>3. CeremonyKnows(p)'
  BY <1>1, <1>2 DEF CeremonyKnows, SnapshotShows, LocksHeld, GrantsClose, CopyReady, Attested, Stages, Resolved
<1>4. QED
  BY <1>1, <1>3, MoveKeepsInv DEF acquireCeremonyLock

LEMMA ResolveKeepsInv ==
    ASSUME TransferInv, NEW p \in Ceremonies, resolveRuntimeRole(p)
    PROVE  TransferInv'
<1> DEFINE initial == run[p].snap.name
           next == [To(p, "lock") EXCEPT !.legacy = initial.legacy, !.target = initial.target]
           check == databaseIdentity(run[p].snap) /\ initial.legacy # initial.target
<1>1. /\ run[p] \in Run /\ CeremonyKnows(p) /\ run[p].stage = "resolve"
      /\ To(p, "lock") \in Run /\ To(p, "lock").stage = "lock" /\ To(p, "lock").snap = run[p].snap
  BY ToStage DEF Stages, resolveRuntimeRole, At
<1>2. run[p].snap \in Database /\ advisory = p
  BY <1>1 DEF CeremonyKnows, SnapshotShows, LocksHeld, Stages
<1>3. initial.legacy \in {"L", "R"} /\ initial.target \in {"T", "R"}
  BY <1>2 DEF Database
<1>4. /\ next \in Run /\ next.stage = "lock" /\ next.snap = run[p].snap
      /\ next.legacy = initial.legacy /\ next.target = initial.target
  BY <1>1, <1>3 DEF Run
<1>5. Checked(p, check, next)
  BY DEF resolveRuntimeRole, resolveRelations
<1>6. ASSUME check, db' = db, advisory' = advisory, tableLock' = tableLock, run'[p] = next
      PROVE  CeremonyKnows(p)'
  <2>1. QED
    BY <1>1, <1>2, <1>3, <1>4, <1>6
       DEF CeremonyKnows, SnapshotShows, LocksHeld, GrantsClose, CopyReady, Attested, Stages, Resolved
<1>7. QED
  BY <1>4, <1>5, <1>6, PassKeepsInv

LEMMA LockKeepsInv ==
    ASSUME TransferInv, NEW p \in Ceremonies, Lock(p)
    PROVE  TransferInv'
<1>1. PICK kind \in Kinds, stage \in {"lock2", "views"} :
        LockTable(p, kind, stage) /\ run[p].stage \in {"lock", "lock2"}
  BY DEF Lock, At, FirstKind, OtherKind, Kinds
<1>2. /\ run[p] \in Run /\ CeremonyKnows(p) /\ To(p, stage) \in Run /\ To(p, stage).stage = stage
      /\ To(p, stage).snap = run[p].snap /\ To(p, stage).legacy = run[p].legacy
      /\ To(p, stage).target = run[p].target
  BY ToStage DEF Stages
<1>3. db.name[kind] \in Relations
  BY DEF TransferInv, TransferShape, Database, Kinds, Relations
<1>4. run'[p] = To(p, stage) /\ db' = db /\ advisory' = advisory
  BY <1>1 DEF LockTable, TransferInv, TransferShape
<1>5. CeremonyKnows(p)'
  BY <1>1, <1>2, <1>4 DEF CeremonyKnows, SnapshotShows, LocksHeld, GrantsClose, CopyReady, Attested,
                          Stages, Resolved
<1>6. QED
  BY <1>1, <1>2, <1>3, <1>5, MoveKeepsInv DEF LockTable

LEMMA ViewsKeepsInv ==
    ASSUME TransferInv, NEW p \in Ceremonies, createOidBoundPortalView(p)
    PROVE  TransferInv'
<1>1. PICK check : /\ Checked(p, check, To(p, "provenance"))
                   /\ check => verifyAccessExclusiveLocks(p)
  BY DEF createOidBoundPortalView
<1>2. /\ run[p] \in Run /\ CeremonyKnows(p) /\ run[p].stage = "views"
      /\ To(p, "provenance") \in Run /\ To(p, "provenance").stage = "provenance"
      /\ To(p, "provenance").snap = run[p].snap /\ To(p, "provenance").legacy = run[p].legacy
      /\ To(p, "provenance").target = run[p].target
  BY ToStage DEF Stages, createOidBoundPortalView, At
<1>3. ASSUME check, db' = db, advisory' = advisory, tableLock' = tableLock,
             run'[p] = To(p, "provenance")
      PROVE  CeremonyKnows(p)'
  BY <1>1, <1>2, <1>3
     DEF CeremonyKnows, SnapshotShows, LocksHeld, GrantsClose, CopyReady, Attested, Stages, Resolved,
         verifyAccessExclusiveLocks
<1>4. QED
  BY <1>1, <1>2, <1>3, PassKeepsInv

LEMMA ProvenanceKeepsInv ==
    ASSUME TransferInv, NEW p \in Ceremonies, ensureProvenanceTable(p)
    PROVE  TransferInv'
<1>1. PICK check : Checked(p, check, To(p, "acl"))
  BY DEF ensureProvenanceTable
<1>2. /\ run[p] \in Run /\ CeremonyKnows(p) /\ run[p].stage = "provenance"
      /\ To(p, "acl") \in Run /\ To(p, "acl").stage = "acl" /\ To(p, "acl").snap = run[p].snap
      /\ To(p, "acl").legacy = run[p].legacy /\ To(p, "acl").target = run[p].target
  BY ToStage DEF Stages, ensureProvenanceTable, At
<1>3. ASSUME db' = db, advisory' = advisory, tableLock' = tableLock, run'[p] = To(p, "acl")
      PROVE  CeremonyKnows(p)'
  BY <1>2, <1>3 DEF CeremonyKnows, SnapshotShows, LocksHeld, GrantsClose, CopyReady, Attested, Stages,
                    Resolved
<1>4. QED
  BY <1>1, <1>2, <1>3, PassKeepsInv

LEMMA AclKeepsInv ==
    ASSUME TransferInv, NEW p \in Ceremonies, normalizePortalAcls(p)
    PROVE  TransferInv'
<1> DEFINE open == normalizeRelationAcl(db.open, relationNameByOid("legacy"), relationNameByOid("target"))
           next == [To(p, "copy") EXCEPT !.grants = open]
<1>1. PICK check : /\ Checked(p, check, next)
                   /\ check => verifyPortalAclClosure(open, run[p].legacy, run[p].target)
  BY DEF normalizePortalAcls
<1>2. open \in [Relations -> BOOLEAN]
  BY DEF TransferInv, TransferShape, Database, normalizeRelationAcl
<1>3. /\ run[p] \in Run /\ CeremonyKnows(p) /\ run[p].stage = "acl"
      /\ To(p, "copy") \in Run /\ To(p, "copy").stage = "copy" /\ To(p, "copy").snap = run[p].snap
      /\ To(p, "copy").legacy = run[p].legacy /\ To(p, "copy").target = run[p].target
  BY ToStage DEF Stages, normalizePortalAcls, At
<1> HIDE DEF open
<1>4. /\ next \in Run /\ next.stage = "copy" /\ next.snap = run[p].snap /\ next.legacy = run[p].legacy
      /\ next.target = run[p].target /\ next.grants = open
  BY <1>2, <1>3 DEF Run
<1>5. ASSUME check, db' = db, advisory' = advisory, tableLock' = tableLock, run'[p] = next
      PROVE  CeremonyKnows(p)'
  <2> HIDE DEF next
  <2>1. QED
    BY <1>1, <1>2, <1>3, <1>4, <1>5
       DEF CeremonyKnows, SnapshotShows, LocksHeld, GrantsClose, CopyReady, Attested, Stages, Resolved,
           verifyPortalAclClosure
<1>6. QED
  BY <1>1, <1>4, <1>5, PassKeepsInv

(* The reviewed import is in the legacy table only, so that is the source; a
   copy needs an empty destination, and only the new table is ever empty. *)
LEMMA ReadKeepsInv ==
    ASSUME TransferInv, NEW p \in Ceremonies, readSingleton(p)
    PROVE  TransferInv'
<1> DEFINE snap == run[p].snap
           again == reconcilable(p, snap)
           next == [To(p, "commit") EXCEPT !.copied = ~again,
                        !.status = IF again THEN "reconciled" ELSE "transferred"]
           check == /\ verifyExpectedSource(snap.row[run[p].legacy])
                    /\ again \/ (copyable(p, snap) /\ verifyDestination(p))
<1>1. Checked(p, check, next)
  BY DEF readSingleton
<1>2. /\ run[p] \in Run /\ CeremonyKnows(p) /\ run[p].stage = "copy"
      /\ To(p, "commit") \in Run /\ To(p, "commit").stage = "commit" /\ To(p, "commit").snap = snap
      /\ To(p, "commit").legacy = run[p].legacy /\ To(p, "commit").target = run[p].target
      /\ To(p, "commit").grants = run[p].grants
  BY ToStage DEF Stages, readSingleton, At
<1>3. again \in BOOLEAN
  BY DEF reconcilable
<1>4. /\ next \in Run /\ next.stage = "commit" /\ next.snap = snap /\ next.legacy = run[p].legacy
      /\ next.target = run[p].target /\ next.grants = run[p].grants /\ next.copied = ~again
  <2> HIDE DEF again
  <2>1. QED
    BY <1>2, <1>3 DEF Run
<1>5. /\ snap \in Database /\ Sourced(snap) /\ run[p].legacy \in {"L", "R"}
      /\ run[p].target \in {"T", "R"} /\ Sourced(db)
  BY <1>2 DEF CeremonyKnows, SnapshotShows, LocksHeld, Stages, Resolved, TransferInv
<1>6. ASSUME check PROVE /\ run[p].legacy = "L" /\ snap.row["L"].revision = ExpectedRevision
                         /\ ~again => /\ run[p].target = "T" /\ db.row["T"] = NoRow
                                      /\ Inserted(p) = snap.row["L"]
  <2>1. run[p].legacy = "L" /\ snap.row["L"].revision = ExpectedRevision
    BY <1>5, <1>6 DEF verifyExpectedSource, Sourced, Reviewed
  <2>2. ASSUME ~again PROVE run[p].target = "T" /\ db.row["T"] = NoRow /\ Inserted(p) = snap.row["L"]
    BY <1>5, <1>6, <2>1, <2>2 DEF copyable, verifyDestination, Sourced, NoRow
  <2>3. QED
    BY <2>1, <2>2
<1>7. ASSUME check, db' = db, advisory' = advisory, tableLock' = tableLock, run'[p] = next
      PROVE  CeremonyKnows(p)'
  <2>1. Inserted(p)' = Inserted(p)
    BY <1>2, <1>4, <1>7 DEF Inserted
  <2> HIDE DEF next, check, again
  <2>2. SnapshotShows(p)' /\ LocksHeld(p)' /\ GrantsClose(p)' /\ Attested(p)'
    BY <1>2, <1>4, <1>7 DEF CeremonyKnows, SnapshotShows, LocksHeld, GrantsClose, Attested, Stages,
                            Resolved
  <2>3. CopyReady(p)'
    BY <1>2, <1>4, <1>6, <1>7, <2>1 DEF CopyReady
  <2>4. QED
    BY <2>2, <2>3 DEF CeremonyKnows
<1>8. QED
  BY <1>1, <1>4, <1>7, PassKeepsInv

LEMMA PostKeepsInv ==
    ASSUME TransferInv, NEW p \in Ceremonies, postCommitAuthorityCheck(p)
    PROVE  TransferInv'
<1>1. PICK check : /\ Checked(p, check, To(p, "emit"))
                   /\ check => binding(run[p].legacy, run[p].target) \in db.markers
  BY DEF postCommitAuthorityCheck
<1>2. /\ run[p] \in Run /\ CeremonyKnows(p) /\ run[p].stage = "post"
      /\ To(p, "emit") \in Run /\ To(p, "emit").stage = "emit" /\ To(p, "emit").snap = run[p].snap
      /\ To(p, "emit").legacy = run[p].legacy /\ To(p, "emit").target = run[p].target
  BY ToStage DEF Stages, postCommitAuthorityCheck, At
<1>3. ASSUME check, db' = db, advisory' = advisory, tableLock' = tableLock, run'[p] = To(p, "emit")
      PROVE  CeremonyKnows(p)'
  BY <1>1, <1>2, <1>3 DEF CeremonyKnows, SnapshotShows, LocksHeld, GrantsClose, CopyReady, Attested,
                          Stages, Resolved
<1>4. QED
  BY <1>1, <1>2, <1>3, PassKeepsInv

LEMMA EmitKeepsInv ==
    ASSUME TransferInv, NEW p \in Ceremonies, emitReceipt(p)
    PROVE  TransferInv'
<1>1. CeremonyKnows(p) /\ run[p].stage = "emit"
  BY DEF TransferInv, emitReceipt, At
<1>2. receipts' \subseteq db.markers
  BY <1>1 DEF CeremonyKnows, Attested, emitReceipt, TransferInv
<1>3. [NoRun EXCEPT !.stage = "done"] \in Run /\ [NoRun EXCEPT !.stage = "done"].stage \in Ended
  BY DEF NoRun, Run, Ended
<1>4. QED
  BY <1>2, <1>3, EndKeepsInv DEF emitReceipt

-----------------------------------------------------------------------------
(* What a commit makes of the database. *)
LEMMA CommittedIs ==
    ASSUME TransferInv, NEW p \in Ceremonies, At(p, "commit")
    PROVE  /\ Committed(p) \in Database
           /\ ~Committed(p).open["L"] /\ db.markers \subseteq Committed(p).markers
           /\ Committed(p).row["L"] = db.row["L"] /\ Committed(p).row["R"] = db.row["R"]
           /\ Committed(p).row["T"] = db.row["T"] \/ db.row["T"] = NoRow
           /\ Committed(p).markers # {} =>
                /\ Paused => db.row["L"].revision = ExpectedRevision
                /\ Committed(p).row["T"].import = Reviewed
                /\ Committed(p).row["T"].revision >= ExpectedRevision
<1>1. /\ db \in Database /\ run[p] \in Run /\ CeremonyKnows(p) /\ run[p].stage = "commit"
      /\ Sourced(db) /\ Settled
  BY DEF TransferInv, TransferShape, At
<1>2. /\ run[p].snap \in Database /\ Sourced(run[p].snap) /\ run[p].legacy = "L"
      /\ Paused => run[p].snap.row["L"] = db.row["L"]
      /\ run[p].grants \in [Relations -> BOOLEAN] /\ ~run[p].grants["L"]
      /\ run[p].snap.row["L"].revision = ExpectedRevision
      /\ run[p].copied => /\ run[p].target = "T" /\ db.row["T"] = NoRow
                          /\ Inserted(p) = run[p].snap.row["L"]
  BY <1>1 DEF CeremonyKnows, SnapshotShows, GrantsClose, CopyReady, Stages
<1>3. /\ run[p].snap.row["L"] \in Row /\ run[p].snap.row["L"].import = Reviewed
      /\ db.row \in [Relations -> Row] /\ db.markers \subseteq {binding("L", "T")}
  BY <1>1, <1>2 DEF Database, Relations, Sourced
<1>4. ExpectedRevision \in Nat
  BY TransferAssumption
<1>5. CASE run[p].copied
  <2> DEFINE rows == [db.row EXCEPT !["T"] = run[p].snap.row["L"]]
             made == [db EXCEPT !.open = run[p].grants, !.provenance = TRUE,
                                !.markers = db.markers \cup {binding("L", "T")}, !.row = rows]
  <2>1. Committed(p) = made
    BY <1>2, <1>5 DEF Committed
  <2>2. /\ rows \in [Relations -> Row] /\ rows["L"] = db.row["L"] /\ rows["R"] = db.row["R"]
        /\ rows["T"] = run[p].snap.row["L"]
    BY <1>3 DEF Relations
  <2> HIDE DEF rows
  <2>3. made \in Database
    BY <1>1, <1>2, <1>3, <2>2 DEF Database
  <2>4. /\ made.row = rows /\ made.open = run[p].grants
        /\ made.markers = db.markers \cup {binding("L", "T")}
    BY <1>1 DEF Database
  <2> HIDE DEF made
  <2>5. QED
    BY <1>2, <1>3, <1>4, <1>5, <2>1, <2>2, <2>3, <2>4
<1>6. CASE ~run[p].copied
  <2> DEFINE made == [db EXCEPT !.open = run[p].grants, !.provenance = TRUE,
                                !.markers = db.markers, !.row = db.row]
  <2>1. Committed(p) = made
    BY <1>6 DEF Committed
  <2>2. made \in Database
    BY <1>1, <1>2, <1>3 DEF Database
  <2>3. made.row = db.row /\ made.open = run[p].grants /\ made.markers = db.markers
    BY <1>1 DEF Database
  <2> HIDE DEF made
  <2>4. QED
    BY <1>1, <1>2, <2>1, <2>2, <2>3 DEF Settled
<1>7. QED
  BY <1>5, <1>6

(* A commit, acknowledged or not: no other ceremony has come further than the
   advisory lock. *)
LEMMA CommitKeepsInv ==
    ASSUME TransferInv, NEW p \in Ceremonies, Commit(p) \/ CommitAmbiguous(p)
    PROVE  TransferInv'
<1>1. At(p, "commit") /\ db' = Committed(p) /\ receipts' = receipts /\ tableLock' = Unlocked(p)
  BY DEF Commit, CommitAmbiguous
<1>2. PICK next \in Run : /\ run' = [run EXCEPT ![p] = next]
                          /\ \/ next.stage \in Ended /\ advisory' = Freed(p)
                             \/ next = To(p, "post") /\ advisory' = advisory
  <2>1. To(p, "post") \in Run
    BY ToStage DEF Stages
  <2>2. [NoRun EXCEPT !.stage = "failed"] \in Run /\ [NoRun EXCEPT !.stage = "failed"].stage \in Ended
    BY DEF NoRun, Run, Ended
  <2>3. QED
    BY <2>1, <2>2 DEF Commit, CommitAmbiguous
<1>3. TransferShape' /\ Sourced(db)' /\ Settled' /\ receipts' \subseteq db'.markers
  <2>1. db' \in Database /\ Sourced(db)' /\ Settled' /\ receipts' \subseteq db'.markers
    BY <1>1, CommittedIs DEF TransferInv, Sourced, Settled
  <2>2. TransferShape'
    BY <1>1, <1>2, <2>1 DEF TransferInv, TransferShape, Unlocked, Freed
  <2>3. QED
    BY <2>1, <2>2
<1>4. /\ CeremonyKnows(p) /\ advisory = p /\ run[p].stage = "commit" /\ run'[p] = next
      /\ db'.row["L"] = db.row["L"] /\ p # None
  BY <1>1, <1>2, CommittedIs, TransferAssumption
     DEF TransferInv, TransferShape, CeremonyKnows, LocksHeld, Stages, At
<1>5. CeremonyKnows(p)'
  <2>1. CASE next.stage \in Ended
    BY <1>4, <2>1, EndedKnows
  <2>2. CASE next = To(p, "post") /\ advisory' = advisory
    <3>1. /\ next.stage = "post" /\ next.snap = run[p].snap /\ next.legacy = run[p].legacy
          /\ next.target = run[p].target
      BY <2>2, ToStage DEF Stages
    <3>2. QED
      BY <1>4, <2>2, <3>1 DEF CeremonyKnows, SnapshotShows, LocksHeld, GrantsClose, CopyReady, Attested,
                              Stages, Resolved
  <2>3. QED
    BY <1>2, <2>1, <2>2
<1>6. ASSUME NEW q \in Ceremonies, q # p PROVE CeremonyKnows(q)'
  <2>1. /\ run'[q] = run[q] /\ CeremonyKnows(q) /\ run[q] \in Run
    BY <1>2, <1>6 DEF TransferInv, TransferShape
  <2>2. run[q].stage \in {"wait"} \cup Ended
    BY <1>4, <1>6, <2>1 DEF CeremonyKnows, LocksHeld, Run
  <2>3. QED
    BY <1>4, <2>1, <2>2 DEF CeremonyKnows, SnapshotShows, LocksHeld, GrantsClose, CopyReady, Attested,
                            Stages, Resolved, Ended
<1>7. QED
  BY <1>3, <1>5, <1>6 DEF TransferInv

LEMMA CeremonyKeepsInv ==
    ASSUME TransferInv, NEW p \in Ceremonies, Ceremony(p) \/ CommitAmbiguous(p) \/ Abort(p)
    PROVE  TransferInv'
<1>1. ASSUME Abort(p) PROVE TransferInv'
  <2>1. [NoRun EXCEPT !.stage = "failed"] \in Run /\ [NoRun EXCEPT !.stage = "failed"].stage \in Ended
    BY DEF NoRun, Run, Ended
  <2>2. receipts' \subseteq db.markers
    BY <1>1 DEF Abort, TransferInv
  <2>3. QED
    BY <1>1, <2>1, <2>2, EndKeepsInv DEF Abort
<1>2. QED
  BY <1>1, MainKeepsInv, AcquireKeepsInv, ResolveKeepsInv, LockKeepsInv, ViewsKeepsInv,
     ProvenanceKeepsInv, AclKeepsInv, ReadKeepsInv, CommitKeepsInv, PostKeepsInv, EmitKeepsInv
     DEF Ceremony

-----------------------------------------------------------------------------
(* The portals, the import script and the administrators touch no lock, no row
   of a paused portal and nothing of a locked table. *)
LEMMA OutsideKeepsInv ==
    ASSUME TransferInv, UNCHANGED <<advisory, tableLock, run, receipts>>,
           db' \in Database, Sourced(db)', Settled', db'.markers = db.markers,
           Paused /\ Running => db'.row["L"] = db.row["L"],
           tableLock["T"] # None => db'.row["T"] = db.row["T"] /\ db'.plain["T"] = db.plain["T"]
    PROVE  TransferInv'
<1>1. TransferShape' /\ receipts' \subseteq db'.markers
  BY DEF TransferInv, TransferShape
<1>2. ASSUME NEW p \in Ceremonies PROVE CeremonyKnows(p)'
  <2>1. CeremonyKnows(p) /\ p # None /\ run' = run
    BY TransferAssumption DEF TransferInv
  <2>2. SnapshotShows(p)'
    BY <2>1 DEF CeremonyKnows, SnapshotShows, Running
  <2>3. LocksHeld(p)' /\ GrantsClose(p)' /\ Attested(p)'
    BY <2>1 DEF CeremonyKnows, LocksHeld, GrantsClose, Attested
  <2>4. CopyReady(p)'
    <3>1. run[p].stage = "commit" /\ run[p].copied => tableLock["T"] = p
      BY <2>1 DEF CeremonyKnows, LocksHeld, CopyReady
    <3>2. QED
      BY <2>1, <3>1 DEF CeremonyKnows, CopyReady, Inserted
  <2>5. QED
    BY <2>2, <2>3, <2>4 DEF CeremonyKnows
<1>3. QED
  BY <1>1, <1>2 DEF TransferInv

(* A row that is written: one revision on, or the first one. *)
LEMMA WriteKeepsInv ==
    ASSUME TransferInv, UNCHANGED <<advisory, tableLock, run, receipts>>,
           NEW r \in Relations, NEW row \in Row,
           db' = [db EXCEPT !.row = [db.row EXCEPT ![r] = row]],
           tableLock[r] = None, db.open[r], ~(Paused /\ Running) \/ r # "L",
           \/ db.row[r] # NoRow /\ row.import = db.row[r].import /\ row.revision = db.row[r].revision + 1
           \/ db.row[r] = NoRow
    PROVE  TransferInv'
<1>1. db \in Database /\ Sourced(db) /\ Settled /\ NoRow.import = 0 /\ NoRow.revision = 0
  BY DEF TransferInv, TransferShape, NoRow
<1> DEFINE rows == [db.row EXCEPT ![r] = row]
<1>2. /\ rows \in [Relations -> Row] /\ rows[r] = row
      /\ \A x \in Relations : x # r => rows[x] = db.row[x]
  BY <1>1 DEF Database
<1>3. /\ db' \in Database /\ db'.row = rows /\ db'.open = db.open /\ db'.plain = db.plain
      /\ db'.markers = db.markers
  <2> HIDE DEF rows
  <2>1. db' = [db EXCEPT !.row = rows]
    BY DEF rows
  <2>2. QED
    BY <1>1, <1>2, <2>1 DEF Database
<1>4. ExpectedRevision \in Nat /\ Reviewed = 1
  BY TransferAssumption DEF Reviewed
<1>5. \A x \in Relations : db.row[x] \in Row
  BY <1>1 DEF Database
<1> HIDE DEF rows
<1>6. Sourced(db)'
  BY <1>1, <1>2, <1>3, <1>4, <1>5 DEF Sourced, Relations, Row
<1>7. Settled'
  <2>1. CASE db.markers = {}
    BY <1>3, <2>1 DEF Settled
  <2>2. CASE db.markers # {}
    <3>1. r # "L" /\ ExpectedRevision \in Nat /\ db.row["T"] \in Row
      BY <1>1, <1>4, <1>5, <2>2 DEF Settled, Relations
    <3>2. r = "T" => row.import = Reviewed /\ row.revision >= ExpectedRevision
      BY <1>1, <1>4, <2>2, <3>1 DEF Settled, Row
    <3>3. QED
      BY <1>1, <1>2, <1>3, <2>2, <3>1, <3>2 DEF Settled, Relations
  <2>3. QED
    BY <2>1, <2>2
<1>8. Paused /\ Running => db'.row["L"] = db.row["L"]
  BY <1>2, <1>3 DEF Relations
<1>9. tableLock["T"] # None => db'.row["T"] = db.row["T"] /\ db'.plain["T"] = db.plain["T"]
  BY <1>2, <1>3 DEF Relations
<1>10. QED
  BY <1>3, <1>6, <1>7, <1>8, <1>9, OutsideKeepsInv

LEMMA UpdateKeepsInv ==
    ASSUME TransferInv, NEW r \in Relations, updatePortalState(r)
    PROVE  TransferInv'
<1> DEFINE row == [db.row[r] EXCEPT !.revision = @ + 1]
<1>1. db \in Database /\ db.row[r] \in Row
  BY DEF TransferInv, TransferShape, Database
<1>2. row \in Row /\ row.import = db.row[r].import /\ row.revision = db.row[r].revision + 1
  BY <1>1 DEF Row
<1>3. db' = [db EXCEPT !.row = [db.row EXCEPT ![r] = row]]
  BY DEF updatePortalState
<1> HIDE DEF row
<1>4. QED
  BY <1>2, <1>3, WriteKeepsInv DEF updatePortalState, Quiet

LEMMA ImportKeepsInv ==
    ASSUME TransferInv, importPortalState
    PROVE  TransferInv'
<1> DEFINE row == [import |-> 3, revision |-> 0]
           r == db.name.target
<1>1. row \in Row /\ r \in Relations /\ r # "L"
  BY DEF Row, TransferInv, TransferShape, Database, Relations
<1>2. db' = [db EXCEPT !.row = [db.row EXCEPT ![r] = row]] /\ db.row[r] = NoRow
  BY DEF importPortalState
<1> HIDE DEF row, r
<1>3. tableLock[r] = None /\ db.open[r] /\ UNCHANGED <<advisory, tableLock, run, receipts>>
  BY DEF importPortalState, r
<1>4. QED
  BY <1>1, <1>2, <1>3, WriteKeepsInv

(* Names, roles and shapes come and go without a row or a grant. *)
LEMMA AdministratorsKeepInv ==
    ASSUME TransferInv,
           \/ \E kind \in Kinds : RenameSchema(kind) \/ RestoreSchema(kind)
           \/ AlterAuthority \/ RestoreAuthority
           \/ \E r \in Relations : AlterTable(r) \/ RestoreTable(r)
    PROVE  TransferInv'
<1>1. db \in Database /\ Sourced(db) /\ Settled
  BY DEF TransferInv, TransferShape
<1>2. /\ db' \in Database /\ db'.row = db.row /\ db'.open = db.open /\ db'.markers = db.markers
      /\ tableLock["T"] # None => db'.plain["T"] = db.plain["T"]
      /\ UNCHANGED <<advisory, tableLock, run, receipts>>
  <2>1. CASE \E kind \in Kinds : RenameSchema(kind) \/ RestoreSchema(kind)
    <3>1. PICK kind \in Kinds : RenameSchema(kind) \/ RestoreSchema(kind)
      BY <2>1
    <3>2. PICK x \in {"L", "T", "R"} :
             /\ db' = [db EXCEPT !.name = [db.name EXCEPT ![kind] = x]]
             /\ x = "R" \/ x = (IF kind = "legacy" THEN "L" ELSE "T")
      BY <3>1 DEF RenameSchema, RestoreSchema
    <3>3. [db.name EXCEPT ![kind] = x] \in [legacy : {"L", "R"}, target : {"T", "R"}]
      BY <1>1, <3>2 DEF Database, Kinds
    <3>4. QED
      BY <1>1, <3>1, <3>2, <3>3 DEF Database, RenameSchema, RestoreSchema
  <2>2. CASE AlterAuthority \/ RestoreAuthority
    BY <1>1, <2>2 DEF Database, AlterAuthority, RestoreAuthority
  <2>3. CASE \E r \in Relations : AlterTable(r) \/ RestoreTable(r)
    <3>1. PICK r \in Relations, plain \in BOOLEAN :
             /\ db' = [db EXCEPT !.plain = [db.plain EXCEPT ![r] = plain]]
             /\ tableLock[r] = None /\ UNCHANGED <<advisory, tableLock, run, receipts>>
      BY <2>3 DEF AlterTable, RestoreTable
    <3>2. [db.plain EXCEPT ![r] = plain] \in [Relations -> BOOLEAN]
      BY <1>1, <3>1 DEF Database
    <3>3. QED
      BY <1>1, <3>1, <3>2 DEF Database, Relations
  <2>4. QED
    BY <2>1, <2>2, <2>3
<1>3. Sourced(db)' /\ Settled'
  BY <1>1, <1>2 DEF Sourced, Settled
<1>4. QED
  BY <1>2, <1>3, OutsideKeepsInv

LEMMA TransferInvStep == TransferInv /\ [Next]_vars => TransferInv'
<1> SUFFICES ASSUME TransferInv, [Next]_vars PROVE TransferInv'
  OBVIOUS
<1>1. CASE UNCHANGED vars
  BY <1>1, OutsideKeepsInv DEF vars, TransferInv, TransferShape, Settled
<1>2. CASE Next
  BY <1>2, CeremonyKeepsInv, UpdateKeepsInv, ImportKeepsInv, AdministratorsKeepInv DEF Next, Restore
<1>3. QED
  BY <1>1, <1>2

(* The only steps that write a row. *)
LEMMA RowsWritten ==
    ASSUME TransferInv, [Next]_vars, NEW x \in Relations, db'.row[x] # db.row[x]
    PROVE  \/ x = "T" /\ db.row[x] = NoRow
           \/ updatePortalState(x) /\ db'.row[x] = [db.row[x] EXCEPT !.revision = @ + 1]
<1>1. db \in Database
  BY DEF TransferInv, TransferShape
<1>2. CASE \E p \in Ceremonies : Commit(p) \/ CommitAmbiguous(p)
  BY <1>2, CommittedIs DEF Commit, CommitAmbiguous, Relations
<1>3. CASE \E r \in Relations : updatePortalState(r)
  <2>1. PICK r \in Relations : updatePortalState(r)
    BY <1>3
  <2>2. db' = [db EXCEPT !.row = [db.row EXCEPT ![r] = [db.row[r] EXCEPT !.revision = @ + 1]]]
    BY <2>1 DEF updatePortalState
  <2>3. r = x
    BY <1>1, <2>2 DEF Database
  <2>4. db'.row[x] = [db.row[x] EXCEPT !.revision = @ + 1]
    BY <1>1, <2>2, <2>3 DEF Database
  <2>5. QED
    BY <2>1, <2>3, <2>4
<1>4. CASE importPortalState
  <2> DEFINE r == db.name.target
             row == [import |-> 3, revision |-> 0]
  <2>1. db' = [db EXCEPT !.row = [db.row EXCEPT ![r] = row]] /\ db.row[r] = NoRow
    BY <1>4 DEF importPortalState
  <2> HIDE DEF row
  <2>2. r = x
    BY <1>1, <2>1 DEF Database
  <2>3. r = "T"
    BY <1>1, <2>1, <2>2 DEF Database, TransferInv, Sourced, NoRow, Reviewed
  <2>4. QED
    BY <2>1, <2>2, <2>3
<1>5. CASE \/ \E kind \in Kinds : RenameSchema(kind) \/ RestoreSchema(kind)
           \/ AlterAuthority \/ RestoreAuthority
           \/ \E r \in Relations : AlterTable(r) \/ RestoreTable(r)
  BY <1>1, <1>5 DEF Database, RenameSchema, RestoreSchema, AlterAuthority, RestoreAuthority, AlterTable,
                    RestoreTable
<1>6. db' = db => FALSE
  OBVIOUS
<1>7. ASSUME NEW p \in Ceremonies, Ceremony(p) \/ Abort(p), ~Commit(p) PROVE FALSE
  BY <1>6, <1>7 DEF Ceremony, Abort, Checked, fail, main, acquireCeremonyLock, resolveRuntimeRole, Lock,
     LockTable, createOidBoundPortalView, ensureProvenanceTable, normalizePortalAcls, readSingleton,
     postCommitAuthorityCheck, emitReceipt
<1>8. CASE UNCHANGED vars
  BY <1>6, <1>8 DEF vars
<1>9. QED
  BY <1>2, <1>3, <1>4, <1>5, <1>7, <1>8 DEF Next, Restore

-----------------------------------------------------------------------------
(* The locks, the snapshot and the grants of every ceremony are what its stage
   relies on (main). *)
THEOREM TransferInvariant == Spec => []TransferInv
<1>1. QED
  BY TransferInvInit, TransferInvStep, PTL DEF Spec

(* While the writers are paused during a ceremony, what the legacy portal last
   committed is what was copied (verifyExpectedSource, normalizePortalAcls). *)
THEOREM NeverLeftBehind ==
    ASSUME Paused
    PROVE  Spec => []NothingLeftBehind
<1>1. TransferInv => NothingLeftBehind
  BY DEF TransferInv, TransferShape, Database, Settled, NothingLeftBehind, binding
<1>2. QED
  BY <1>1, TransferInvariant, PTL

(* A receipt is of a transfer that is committed, and the target holds the
   reviewed import from then on (postCommitAuthorityCheck, emitReceipt). *)
THEOREM ReceiptsAlwaysHold == Spec => []ReceiptHolds
<1>1. TransferInv => ReceiptHolds
  BY DEF TransferInv, TransferShape, Database, Settled, ReceiptHolds, binding
<1>2. QED
  BY <1>1, TransferInvariant, PTL

(* No ceremony, first run or retry, writes over a row (copyable, Inserted). *)
THEOREM RowsNeverOverwritten == Spec => NeverOverwritten
<1>1. TransferInv /\ [Next]_vars =>
        \A r \in Relations : db.row[r] # NoRow /\ db'.row[r] # db.row[r]
            => db'.row[r] = [db.row[r] EXCEPT !.revision = @ + 1]
  BY RowsWritten
<1>2. QED
  BY <1>1, TransferInvariant, PTL DEF Spec, NeverOverwritten

(* From the commit of a transfer on the legacy table is never written again,
   paused or not (normalizePortalAcls). *)
THEOREM LegacyAlwaysFrozen == Spec => LegacyFrozen
<1>1. TransferInv /\ [Next]_vars => \A m \in db.markers : db'.row[m.legacy] = db.row[m.legacy]
  <2> SUFFICES ASSUME TransferInv, [Next]_vars, NEW m \in db.markers
               PROVE  db'.row[m.legacy] = db.row[m.legacy]
    OBVIOUS
  <2>1. m.legacy = "L" /\ ~db.open["L"]
    BY DEF TransferInv, TransferShape, Database, Settled, binding
  <2>2. ~updatePortalState("L")
    BY <2>1 DEF updatePortalState
  <2>3. QED
    BY <2>1, <2>2, RowsWritten DEF Relations
<1>2. QED
  BY <1>1, TransferInvariant, PTL DEF Spec, LegacyFrozen
=============================================================================
