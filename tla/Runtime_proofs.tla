---------------------------- MODULE Runtime_proofs ----------------------------
(***************************************************************************)
(* What every runtime stands on: the owner lock of its state directory     *)
(* (first part) and the supervisor that starts it (second part).           *)
(*                                                                         *)
(* The owner lock is safe for any number of processes on any hosts, any    *)
(* crash points and any number of restarts: a living holder's record is    *)
(* never moved away, two living processes never hold the lock together,    *)
(* the put-back branches are dead code, and the file system protocol       *)
(* implements Mutex.                                                       *)
(*                                                                         *)
(* The argument: the incarnation that the record at the lock path names    *)
(* is either alive, and then only its own release moves the record, or     *)
(* dead for good, and then only the one reclaimer that got `.reclaim' can  *)
(* move it, so what that reclaimer judged is what it renames.              *)
(***************************************************************************)
EXTENDS OwnerLock, RuntimeSupervisor, TLAPS

\* The incarnation that wrote a record has crashed; its pid may be in use again.
OwnerGone(owner) ==
    \/ owner.started < started[owner.pid]
    \/ owner.started = started[owner.pid] /\ pc[owner.pid] = "dead"

\* A record at the lock path was written by the present or an earlier incarnation.
RecordsArePast == lockDir # NoOwner => lockDir.started <= started[lockDir.pid]

\* A holder's record is its own, and it is at the lock path.
HolderRecorded ==
    \A p \in Pids : pc[p] \in Holding =>
        /\ own[p] \in Owner
        /\ own[p].pid = p
        /\ own[p].started = started[p]
        /\ lockDir = own[p]

\* `.reclaim' excludes a second reclaimer, also one whose maker crashed.
OneReclaimer ==
    /\ \A p \in Pids : pc[p] \in Reclaiming => reclaimDir
    /\ \A p, q \in Pids : pc[p] \in Reclaiming /\ pc[q] \in Reclaiming => p = q

\* What a reclaimer is about to rename is what it judged, and dead for good.
JudgedIsThere ==
    \A p \in Pids : pc[p] = "renameDead" =>
        /\ lockDir \in Owner
        /\ lockDir = observed[p]
        /\ OwnerGone(lockDir)

LockInv ==
    /\ LockTypeOK
    /\ \A p \in Pids : started[p] <= MaxRestarts
    /\ RecordsArePast
    /\ HolderRecorded
    /\ OneReclaimer
    /\ JudgedIsThere
    /\ MovedAsJudged

(* A host proves dead only an incarnation that is gone: the agents by the
   missing pid, the portal also by another start identity of the pid. *)
LEMMA DeathIsReal ==
    ASSUME NEW owner \in Owner, NEW p \in Pids, started \in [Pids -> Nat],
           owner.started <= started[owner.pid], ownerIsDeadOnThisHost(owner, p)
    PROVE  OwnerGone(owner)
  BY DEF ownerIsDeadOnThisHost, portalOwnerIsDead, envelopeOwnerIsDead, processLiveness,
         processStartIdentity, OwnerGone, Owner

(* No process holds the lock, nothing is reclaimed. *)
LEMMA LockInvInit == LockInit => LockInv
<1> SUFFICES ASSUME LockInit
             PROVE  LockInv
  OBVIOUS
<1> USE DEF LockInit
<1>1. LockTypeOK
  BY DEF LockTypeOK, Points
<1>2. (\A p \in Pids : started[p] <= MaxRestarts) /\ RecordsArePast
  BY LockAssumption DEF RecordsArePast
<1>3. HolderRecorded /\ OneReclaimer /\ JudgedIsThere /\ MovedAsJudged
  BY DEF HolderRecorded, OneReclaimer, JudgedIsThere, MovedAsJudged, Holding, Reclaiming
<1>4. QED
  BY <1>1, <1>2, <1>3 DEF LockInv

-----------------------------------------------------------------------------
(* Steps that change only what one process does next, from a point outside
   the lock and the reclaim to another such point. *)
LEMMA IdleStepKeepsLock ==
    ASSUME LockInv, NEW p \in Pids, NEW q \in Points \ (Holding \cup Reclaiming \cup {"dead", "verifyRelease"}),
           pc[p] \notin Holding \cup Reclaiming \cup {"dead", "verifyRelease"},
           pc' = [pc EXCEPT ![p] = q],
           observed' \in [Pids -> Owner \cup {NoOwner}],
           \A r \in Pids : r # p => observed'[r] = observed[r],
           UNCHANGED <<lockDir, reclaimDir, own, moved, started, nextToken>>
    PROVE  LockInv'
<1> USE DEF LockInv
<1>1. LockTypeOK'
  BY DEF LockTypeOK
<1>2. pc \in [Pids -> Points] /\ \A r \in Pids : r # p => pc'[r] = pc[r]
  BY DEF LockTypeOK
<1>3. pc'[p] = q
  BY <1>2
<1>4. (\A r \in Pids : started[r] <= MaxRestarts)' /\ RecordsArePast'
  BY DEF RecordsArePast
<1>5. HolderRecorded'
  BY <1>2, <1>3 DEF HolderRecorded
<1>6. OneReclaimer'
  BY <1>2, <1>3 DEF OneReclaimer
<1>7. JudgedIsThere'
  <2> SUFFICES ASSUME NEW r \in Pids, pc'[r] = "renameDead"
               PROVE  lockDir \in Owner /\ lockDir = observed'[r] /\ OwnerGone(lockDir)'
    BY DEF JudgedIsThere
  <2>1. r # p /\ pc[r] = "renameDead"
    BY <1>2, <1>3 DEF Reclaiming
  <2>2. lockDir.pid \in Pids /\ OwnerGone(lockDir)
    BY <2>1 DEF JudgedIsThere, Owner
  <2>3. OwnerGone(lockDir)'
    BY <1>2, <1>3, <2>2 DEF OwnerGone
  <2>4. QED
    BY <2>1, <2>3 DEF JudgedIsThere
<1>8. MovedAsJudged'
  BY <1>2, <1>3 DEF MovedAsJudged, Reclaiming
<1>9. QED
  BY <1>1, <1>4, <1>5, <1>6, <1>7, <1>8
-----------------------------------------------------------------------------
(* acquireLock: a caller asks, waits, stages, looks at the record it found, and gives up. *)
LEMMA WaitingKeepsLock ==
    ASSUME LockInv, NEW p \in Pids,
           request(p) \/ checkReclaim(p) \/ claimRefused(p) \/ observe(p) \/ timeout(p)
             \/ tryAgain(p) \/ retryLater(p) \/ (mkdirReclaim(p) /\ reclaimDir)
    PROVE  LockInv'
<1> DEFINE Outside == Points \ (Holding \cup Reclaiming \cup {"dead", "verifyRelease"})
<1>1. /\ pc \in [Pids -> Points] /\ lockDir \in Owner \cup {NoOwner} /\ reclaimDir \in BOOLEAN
      /\ observed \in [Pids -> Owner \cup {NoOwner}]
  BY DEF LockInv, LockTypeOK
<1>2. {"idle", "wait", "stage", "observe", "again", "mkdirReclaim", "failed"} \subseteq Outside
  BY DEF Points, Holding, Reclaiming
<1>3. PICK q \in Outside :
        /\ pc[p] \in Outside
        /\ pc' = [pc EXCEPT ![p] = q]
        /\ observed' \in [Pids -> Owner \cup {NoOwner}]
        /\ \A r \in Pids : r # p => observed'[r] = observed[r]
        /\ UNCHANGED <<lockDir, reclaimDir, own, moved, started, nextToken>>
  <2>1. CASE request(p) \/ checkReclaim(p) \/ claimRefused(p) \/ timeout(p) \/ tryAgain(p)
               \/ retryLater(p)
    BY <1>1, <1>2, <2>1
       DEF request, checkReclaim, claimRefused, timeout, tryAgain, retryLater, goto
  <2>2. CASE observe(p)
    <3> DEFINE judgedDead == lockDir # NoOwner /\ ownerIsDeadOnThisHost(lockDir, p)
               q == IF lockDir = NoOwner THEN "wait"
                    ELSE IF judgedDead THEN "mkdirReclaim" ELSE "again"
    <3>1. /\ pc[p] = "observe"
          /\ pc' = [pc EXCEPT ![p] = q]
          /\ observed' = [observed EXCEPT ![p] = IF judgedDead THEN lockDir ELSE NoOwner]
          /\ UNCHANGED <<lockDir, reclaimDir, own, moved, started, nextToken>>
      BY <2>2 DEF observe, goto
    <3>2. q \in Outside
      BY <1>2
    <3> HIDE DEF judgedDead, q
    <3>3. QED
      BY <1>1, <1>2, <3>1, <3>2
  <2>3. CASE mkdirReclaim(p) /\ reclaimDir
    BY <1>1, <1>2, <2>3 DEF mkdirReclaim, goto
  <2>4. QED
    BY <2>1, <2>2, <2>3
<1>4. QED
  BY <1>3, IdleStepKeepsLock

(* renameSync of the staged directory onto a free path. *)
LEMMA ClaimKeepsLock ==
    ASSUME LockInv, NEW p \in Pids, claim(p)
    PROVE  LockInv'
<1> USE DEF LockInv, claim, goto
<1> DEFINE new == [token |-> nextToken, pid |-> p, started |-> started[p]]
<1>1. new \in Owner /\ new # NoOwner /\ own' = [own EXCEPT ![p] = new] /\ lockDir' = new
  BY LockAssumption DEF LockTypeOK, Owner
<1>2. pc \in [Pids -> Points] /\ pc[p] = "stage" /\ pc' = [pc EXCEPT ![p] = "held"]
  BY DEF LockTypeOK
<1>3. LockTypeOK'
  BY <1>1, <1>2 DEF LockTypeOK, Points
<1>4. (\A r \in Pids : started[r] <= MaxRestarts)' /\ RecordsArePast'
  BY <1>1 DEF RecordsArePast, LockTypeOK
<1>5. HolderRecorded'
  <2>1. \A r \in Pids : pc[r] \notin Holding
    BY LockAssumption DEF HolderRecorded, Owner
  <2>2. QED
    BY <1>1, <1>2, <2>1 DEF HolderRecorded, LockTypeOK
<1>6. OneReclaimer' /\ MovedAsJudged'
  <2>1. \A r \in Pids : pc'[r] \in Reclaiming \cup {"verifyRelease"} => r # p /\ pc'[r] = pc[r]
    BY <1>2 DEF Reclaiming
  <2>2. \A r \in Pids : r # p => own'[r] = own[r]
    BY <1>1 DEF LockTypeOK
  <2>3. QED
    BY <2>1, <2>2 DEF OneReclaimer, MovedAsJudged, Reclaiming
<1>7. JudgedIsThere'
  <2>1. \A r \in Pids : pc[r] # "renameDead"
    BY LockAssumption DEF JudgedIsThere, Owner
  <2>2. QED
    BY <1>2, <2>1 DEF JudgedIsThere
<1>8. QED
  BY <1>3, <1>4, <1>5, <1>6, <1>7

-----------------------------------------------------------------------------
(* A reclaimer that got `.reclaim' is the only one, whoever crashed inside one before. *)
LEMMA MkdirReclaimKeepsLock ==
    ASSUME LockInv, NEW p \in Pids, mkdirReclaim(p), ~reclaimDir
    PROVE  LockInv'
<1> USE DEF LockInv, mkdirReclaim, goto
<1>1. pc \in [Pids -> Points] /\ pc[p] = "mkdirReclaim" /\ pc' = [pc EXCEPT ![p] = "recheck"]
  BY DEF LockTypeOK
<1>2. observed' = observed
  BY DEF LockTypeOK
<1>3. LockTypeOK'
  BY <1>1, <1>2 DEF LockTypeOK, Points
<1>4. (\A r \in Pids : started[r] <= MaxRestarts)' /\ RecordsArePast'
  BY DEF RecordsArePast
<1>5. \A r \in Pids : pc[r] \notin Reclaiming
  BY DEF OneReclaimer
<1>6. \A r \in Pids : r # p => pc'[r] = pc[r]
  BY <1>1
<1>7. HolderRecorded'
  BY <1>1, <1>6 DEF HolderRecorded, Holding
<1>8. OneReclaimer'
  BY <1>5, <1>6 DEF OneReclaimer
<1>9. JudgedIsThere' /\ MovedAsJudged'
  BY <1>1, <1>2, <1>5, <1>6 DEF JudgedIsThere, MovedAsJudged, Reclaiming
<1>10. QED
  BY <1>3, <1>4, <1>7, <1>8, <1>9

(* The second look: the record is the one observed before, and its writer is gone. *)
LEMMA RecheckKeepsLock ==
    ASSUME LockInv, NEW p \in Pids, recheck(p)
    PROVE  LockInv'
<1> USE DEF LockInv
<1> DEFINE q == IF lockDir = NoOwner THEN "leaveError"
                ELSE IF mayMoveDead(p) THEN "renameDead" ELSE "leaveKept"
<1>1. pc \in [Pids -> Points] /\ pc[p] = "recheck" /\ pc' = [pc EXCEPT ![p] = q]
  BY DEF LockTypeOK, recheck, goto
<1>2. UNCHANGED <<lockDir, reclaimDir, own, observed, moved, started, nextToken>>
  BY DEF recheck
<1>3. q \in Reclaiming /\ q \in Points /\ q # "verifyDead"
  BY DEF Reclaiming, Points
<1>4. q = "renameDead" => lockDir \in Owner /\ lockDir = observed[p] /\ OwnerGone(lockDir)
  <2>1. HAVE q = "renameDead"
  <2>2. lockDir \in Owner /\ mayMoveDead(p)
    BY <2>1 DEF LockTypeOK
  <2>3. lockDir.started <= started[lockDir.pid] /\ started \in [Pids -> Nat]
    BY <2>2, LockAssumption DEF RecordsArePast, LockTypeOK, Owner
  <2>4. QED
    BY <2>2, <2>3, DeathIsReal DEF mayMoveDead
<1> HIDE DEF q
<1>5. pc'[p] = q /\ \A r \in Pids : r # p => pc'[r] = pc[r]
  BY <1>1
<1>6. LockTypeOK'
  BY <1>1, <1>2, <1>3 DEF LockTypeOK
<1>7. (\A r \in Pids : started[r] <= MaxRestarts)' /\ RecordsArePast'
  BY <1>2 DEF RecordsArePast
<1>8. HolderRecorded'
  BY <1>2, <1>3, <1>5 DEF HolderRecorded, Holding, Reclaiming
<1>9. OneReclaimer'
  BY <1>1, <1>2, <1>3, <1>5 DEF OneReclaimer, Reclaiming
<1>10. JudgedIsThere'
  <2> SUFFICES ASSUME NEW r \in Pids, pc'[r] = "renameDead"
               PROVE  lockDir \in Owner /\ lockDir = observed[r] /\ OwnerGone(lockDir)'
    BY <1>2 DEF JudgedIsThere
  <2>1. r = p
    BY <1>1, <1>5 DEF OneReclaimer, Reclaiming
  <2>2. lockDir \in Owner /\ lockDir = observed[r] /\ OwnerGone(lockDir)
    BY <1>4, <1>5, <2>1
  <2>3. lockDir.pid \in Pids
    BY <2>2 DEF Owner
  <2>4. QED
    BY <1>1, <1>2, <1>3, <1>5, <2>2, <2>3 DEF OwnerGone, Reclaiming
<1>11. MovedAsJudged'
  BY <1>2, <1>3, <1>5 DEF MovedAsJudged, Reclaiming
<1>12. QED
  BY <1>6, <1>7, <1>8, <1>9, <1>10, <1>11

(* The rename takes a record whose writer is gone, so it takes nothing from a holder. *)
LEMMA RenameDeadKeepsLock ==
    ASSUME LockInv, NEW p \in Pids, renameDead(p)
    PROVE  LockInv'
<1> USE DEF LockInv
<1>1. lockDir \in Owner /\ lockDir = observed[p] /\ OwnerGone(lockDir) /\ lockDir # NoOwner
  BY LockAssumption DEF renameDead, JudgedIsThere, Owner
<1>2. /\ pc \in [Pids -> Points] /\ pc[p] = "renameDead" /\ pc' = [pc EXCEPT ![p] = "verifyDead"]
      /\ moved' = [moved EXCEPT ![p] = lockDir] /\ moved \in [Pids -> Owner \cup {NoOwner}]
      /\ lockDir' = NoOwner
      /\ UNCHANGED <<reclaimDir, own, observed, started, nextToken>>
  BY <1>1 DEF renameDead, goto, LockTypeOK
<1>3. pc'[p] = "verifyDead" /\ \A r \in Pids : r # p => pc'[r] = pc[r] /\ moved'[r] = moved[r]
  BY <1>2
<1>4. LockTypeOK'
  BY <1>1, <1>2 DEF LockTypeOK, Points
<1>5. (\A r \in Pids : started[r] <= MaxRestarts)' /\ RecordsArePast'
  BY <1>2 DEF RecordsArePast
<1>6. HolderRecorded'
  <2>1. \A r \in Pids : pc[r] \notin Holding
    BY <1>1 DEF HolderRecorded, OwnerGone, Holding, Owner, LockTypeOK
  <2>2. QED
    BY <1>3, <2>1 DEF HolderRecorded, Holding
<1>7. \A r \in Pids : pc'[r] \in Reclaiming => r = p
  BY <1>2, <1>3 DEF OneReclaimer, Reclaiming
<1>8. OneReclaimer'
  BY <1>2, <1>7 DEF OneReclaimer, Reclaiming
<1>9. JudgedIsThere'
  BY <1>3, <1>7 DEF JudgedIsThere, Reclaiming
<1>10. MovedAsJudged'
  BY <1>1, <1>2, <1>3, <1>7 DEF MovedAsJudged, Reclaiming
<1>11. QED
  BY <1>4, <1>5, <1>6, <1>8, <1>9, <1>10

(* What was moved is what was judged, so nothing has to be put back. *)
LEMMA VerifyDeadKeepsLock ==
    ASSUME LockInv, NEW p \in Pids, verifyDead(p)
    PROVE  LockInv'
<1> USE DEF LockInv
<1>1. moved[p] = observed[p]
  BY DEF verifyDead, MovedAsJudged
<1>2. /\ pc \in [Pids -> Points] /\ pc[p] = "verifyDead" /\ pc' = [pc EXCEPT ![p] = "leaveMoved"]
      /\ UNCHANGED <<lockDir, reclaimDir, own, observed, moved, started, nextToken>>
  BY <1>1 DEF verifyDead, goto, LockTypeOK
<1>3. pc'[p] = "leaveMoved" /\ \A r \in Pids : r # p => pc'[r] = pc[r]
  BY <1>2
<1>4. LockTypeOK'
  BY <1>2 DEF LockTypeOK, Points
<1>5. (\A r \in Pids : started[r] <= MaxRestarts)' /\ RecordsArePast'
  BY <1>2 DEF RecordsArePast
<1>6. HolderRecorded'
  BY <1>2, <1>3 DEF HolderRecorded, Holding
<1>7. \A r \in Pids : pc'[r] \in Reclaiming => r = p
  BY <1>2, <1>3 DEF OneReclaimer, Reclaiming
<1>8. OneReclaimer'
  BY <1>2, <1>7 DEF OneReclaimer, Reclaiming
<1>9. JudgedIsThere' /\ MovedAsJudged'
  BY <1>2, <1>3, <1>7 DEF JudgedIsThere, MovedAsJudged, Reclaiming
<1>10. QED
  BY <1>4, <1>5, <1>6, <1>8, <1>9

(* The reclaimer removes `.reclaim'; nobody else was inside. *)
LEMMA LeaveReclaimKeepsLock ==
    ASSUME LockInv, NEW p \in Pids, leaveReclaim(p)
    PROVE  LockInv'
<1> USE DEF LockInv
<1>1. PICK q \in {"wait", "again", "failed"} : pc' = [pc EXCEPT ![p] = q]
  BY DEF leaveReclaim, goto
<1>2. /\ pc \in [Pids -> Points] /\ pc[p] \in {"leaveMoved", "leaveKept", "leaveError"}
      /\ observed \in [Pids -> Owner \cup {NoOwner}] /\ moved \in [Pids -> Owner \cup {NoOwner}]
      /\ reclaimDir' = FALSE
      /\ observed' = [observed EXCEPT ![p] = NoOwner] /\ moved' = [moved EXCEPT ![p] = NoOwner]
      /\ UNCHANGED <<lockDir, own, started, nextToken>>
  BY DEF leaveReclaim, LockTypeOK
<1>3. pc'[p] = q /\ \A r \in Pids : r # p => /\ pc'[r] = pc[r] /\ moved'[r] = moved[r]
                                            /\ observed'[r] = observed[r]
  BY <1>1, <1>2
<1>4. LockTypeOK'
  BY <1>1, <1>2 DEF LockTypeOK, Points
<1>5. (\A r \in Pids : started[r] <= MaxRestarts)' /\ RecordsArePast'
  BY <1>2 DEF RecordsArePast
<1>6. HolderRecorded'
  BY <1>2, <1>3 DEF HolderRecorded, Holding
<1>7. \A r \in Pids : pc'[r] \notin Reclaiming
  BY <1>2, <1>3 DEF OneReclaimer, Reclaiming
<1>8. OneReclaimer'
  BY <1>7 DEF OneReclaimer
<1>9. JudgedIsThere' /\ MovedAsJudged'
  BY <1>2, <1>3, <1>7 DEF JudgedIsThere, MovedAsJudged, Reclaiming
<1>10. QED
  BY <1>4, <1>5, <1>6, <1>8, <1>9

-----------------------------------------------------------------------------
(* A holder finds its own record when it releases. *)
LEMMA ReleaseKeepsLock ==
    ASSUME LockInv, NEW p \in Pids, release(p)
    PROVE  LockInv'
<1> USE DEF LockInv
<1>1. pc[p] = "held" /\ lockDir = own[p]
  BY DEF release, HolderRecorded, Holding
<1>2. /\ pc \in [Pids -> Points] /\ pc' = [pc EXCEPT ![p] = "renameRelease"]
      /\ UNCHANGED <<lockDir, reclaimDir, own, observed, moved, started, nextToken>>
  BY <1>1 DEF release, goto, LockTypeOK
<1>3. pc'[p] = "renameRelease" /\ \A r \in Pids : r # p => pc'[r] = pc[r]
  BY <1>2
<1>4. LockTypeOK'
  BY <1>2 DEF LockTypeOK, Points
<1>5. (\A r \in Pids : started[r] <= MaxRestarts)' /\ RecordsArePast'
  BY <1>2 DEF RecordsArePast
<1>6. HolderRecorded'
  BY <1>1, <1>2, <1>3 DEF HolderRecorded, Holding
<1>7. OneReclaimer'
  BY <1>2, <1>3 DEF OneReclaimer, Reclaiming
<1>8. JudgedIsThere'
  <2> SUFFICES ASSUME NEW r \in Pids, pc'[r] = "renameDead"
               PROVE  lockDir \in Owner /\ lockDir = observed[r] /\ OwnerGone(lockDir)'
    BY <1>2 DEF JudgedIsThere
  <2>1. lockDir \in Owner /\ lockDir = observed[r] /\ OwnerGone(lockDir)
    BY <1>3 DEF JudgedIsThere
  <2>2. QED
    BY <1>1, <1>2, <1>3, <2>1 DEF OwnerGone, Owner
<1>9. MovedAsJudged'
  BY <1>2, <1>3 DEF MovedAsJudged
<1>10. QED
  BY <1>4, <1>5, <1>6, <1>7, <1>8, <1>9

(* Only the holder's own record is renamed by a release. *)
LEMMA RenameReleaseKeepsLock ==
    ASSUME LockInv, NEW p \in Pids, renameRelease(p)
    PROVE  LockInv'
<1> USE DEF LockInv
<1>1. /\ own[p] \in Owner /\ own[p].pid = p /\ own[p].started = started[p] /\ lockDir = own[p]
      /\ pc[p] = "renameRelease"
  BY DEF renameRelease, HolderRecorded, Holding
<1>2. /\ pc \in [Pids -> Points] /\ pc' = [pc EXCEPT ![p] = "verifyRelease"]
      /\ moved \in [Pids -> Owner \cup {NoOwner}] /\ moved' = [moved EXCEPT ![p] = lockDir]
      /\ lockDir' = NoOwner
      /\ UNCHANGED <<reclaimDir, own, observed, started, nextToken>>
  BY DEF renameRelease, goto, LockTypeOK
<1>3. pc'[p] = "verifyRelease" /\ \A r \in Pids : r # p => pc'[r] = pc[r] /\ moved'[r] = moved[r]
  BY <1>2
<1>4. LockTypeOK'
  BY <1>1, <1>2 DEF LockTypeOK, Points
<1>5. (\A r \in Pids : started[r] <= MaxRestarts)' /\ RecordsArePast'
  BY <1>2 DEF RecordsArePast
<1>6. HolderRecorded'
  <2>1. \A r \in Pids : pc[r] \in Holding => r = p
    BY <1>1 DEF HolderRecorded
  <2>2. QED
    BY <1>3, <2>1 DEF HolderRecorded, Holding
<1>7. OneReclaimer'
  BY <1>2, <1>3 DEF OneReclaimer, Reclaiming
<1>8. JudgedIsThere'
  <2>1. ~OwnerGone(lockDir)
    BY <1>1 DEF OwnerGone, LockTypeOK
  <2>2. QED
    BY <1>1, <1>3, <2>1 DEF JudgedIsThere
<1>9. MovedAsJudged'
  BY <1>1, <1>2, <1>3 DEF MovedAsJudged
<1>10. QED
  BY <1>4, <1>5, <1>6, <1>7, <1>8, <1>9

(* ... so it is not put back either. *)
LEMMA VerifyReleaseKeepsLock ==
    ASSUME LockInv, NEW p \in Pids, verifyRelease(p)
    PROVE  LockInv'
<1> USE DEF LockInv
<1>1. moved[p] = own[p] /\ pc[p] = "verifyRelease"
  BY DEF verifyRelease, MovedAsJudged
<1>2. /\ pc \in [Pids -> Points] /\ pc' = [pc EXCEPT ![p] = "idle"]
      /\ own \in [Pids -> Owner \cup {NoOwner}] /\ own' = [own EXCEPT ![p] = NoOwner]
      /\ moved \in [Pids -> Owner \cup {NoOwner}] /\ moved' = [moved EXCEPT ![p] = NoOwner]
      /\ UNCHANGED <<lockDir, reclaimDir, observed, started, nextToken>>
  BY <1>1 DEF verifyRelease, goto, LockTypeOK
<1>3. pc'[p] = "idle" /\ \A r \in Pids : r # p => /\ pc'[r] = pc[r] /\ moved'[r] = moved[r]
                                                 /\ own'[r] = own[r]
  BY <1>2
<1>4. LockTypeOK'
  BY <1>2 DEF LockTypeOK, Points
<1>5. (\A r \in Pids : started[r] <= MaxRestarts)' /\ RecordsArePast'
  BY <1>2 DEF RecordsArePast
<1>6. HolderRecorded'
  BY <1>2, <1>3 DEF HolderRecorded, Holding
<1>7. OneReclaimer'
  BY <1>2, <1>3 DEF OneReclaimer, Reclaiming
<1>8. JudgedIsThere'
  <2> SUFFICES ASSUME NEW r \in Pids, pc'[r] = "renameDead"
               PROVE  lockDir \in Owner /\ lockDir = observed[r] /\ OwnerGone(lockDir)'
    BY <1>2 DEF JudgedIsThere
  <2>1. lockDir \in Owner /\ lockDir = observed[r] /\ OwnerGone(lockDir)
    BY <1>3 DEF JudgedIsThere
  <2>2. QED
    BY <1>1, <1>2, <1>3, <2>1 DEF OwnerGone, Owner
<1>9. MovedAsJudged'
  BY <1>2, <1>3 DEF MovedAsJudged
<1>10. QED
  BY <1>4, <1>5, <1>6, <1>7, <1>8, <1>9

-----------------------------------------------------------------------------
(* A crash forgets what the process knew, and makes its incarnation gone for good. *)
LEMMA CrashKeepsLock ==
    ASSUME LockInv, NEW p \in Pids, crash(p)
    PROVE  LockInv'
<1> USE DEF LockInv
<1>1. /\ pc \in [Pids -> Points] /\ pc' = [pc EXCEPT ![p] = "dead"]
      /\ own \in [Pids -> Owner \cup {NoOwner}] /\ own' = [own EXCEPT ![p] = NoOwner]
      /\ moved \in [Pids -> Owner \cup {NoOwner}] /\ moved' = [moved EXCEPT ![p] = NoOwner]
      /\ observed \in [Pids -> Owner \cup {NoOwner}] /\ observed' = [observed EXCEPT ![p] = NoOwner]
      /\ UNCHANGED <<lockDir, reclaimDir, started, nextToken>>
  BY DEF crash, goto, LockTypeOK
<1>2. pc'[p] = "dead" /\ \A r \in Pids : r # p => /\ pc'[r] = pc[r] /\ moved'[r] = moved[r]
                                                 /\ own'[r] = own[r] /\ observed'[r] = observed[r]
  BY <1>1
<1>3. LockTypeOK'
  BY <1>1 DEF LockTypeOK, Points
<1>4. (\A r \in Pids : started[r] <= MaxRestarts)' /\ RecordsArePast'
  BY <1>1 DEF RecordsArePast
<1>5. HolderRecorded'
  BY <1>1, <1>2 DEF HolderRecorded, Holding
<1>6. OneReclaimer'
  BY <1>1, <1>2 DEF OneReclaimer, Reclaiming
<1>7. JudgedIsThere'
  <2> SUFFICES ASSUME NEW r \in Pids, pc'[r] = "renameDead"
               PROVE  lockDir \in Owner /\ lockDir = observed'[r] /\ OwnerGone(lockDir)'
    BY <1>1 DEF JudgedIsThere
  <2>1. lockDir \in Owner /\ lockDir = observed'[r] /\ OwnerGone(lockDir)
    BY <1>2 DEF JudgedIsThere
  <2>2. QED
    BY <1>1, <1>2, <2>1 DEF OwnerGone, Owner
<1>8. MovedAsJudged'
  BY <1>1, <1>2 DEF MovedAsJudged
<1>9. QED
  BY <1>3, <1>4, <1>5, <1>6, <1>7, <1>8

(* A new incarnation under the old pid leaves the old one gone. *)
LEMMA RestartKeepsLock ==
    ASSUME LockInv, NEW p \in Pids, restart(p)
    PROVE  LockInv'
<1> USE DEF LockInv
<1>1. /\ pc \in [Pids -> Points] /\ pc[p] = "dead" /\ pc' = [pc EXCEPT ![p] = "idle"]
      /\ started \in [Pids -> Nat] /\ started' = [started EXCEPT ![p] = @ + 1]
      /\ started[p] < MaxRestarts
      /\ UNCHANGED <<lockDir, reclaimDir, own, observed, moved, nextToken>>
  BY DEF restart, goto, LockTypeOK
<1>2. /\ pc'[p] = "idle" /\ started'[p] = started[p] + 1
      /\ \A r \in Pids : r # p => pc'[r] = pc[r] /\ started'[r] = started[r]
  BY <1>1
<1>3. LockTypeOK'
  BY <1>1 DEF LockTypeOK, Points
<1>4. (\A r \in Pids : started[r] <= MaxRestarts)'
  BY <1>1, <1>2, LockAssumption
<1>5. lockDir # NoOwner => lockDir \in Owner /\ lockDir.pid \in Pids /\ lockDir.started \in Nat
  BY DEF LockTypeOK, Owner
<1>6. RecordsArePast'
  BY <1>1, <1>2, <1>5 DEF RecordsArePast
<1>7. HolderRecorded'
  BY <1>1, <1>2 DEF HolderRecorded, Holding
<1>8. OneReclaimer'
  BY <1>1, <1>2 DEF OneReclaimer, Reclaiming
<1>9. JudgedIsThere'
  <2> SUFFICES ASSUME NEW r \in Pids, pc'[r] = "renameDead"
               PROVE  lockDir \in Owner /\ lockDir = observed[r] /\ OwnerGone(lockDir)'
    BY <1>1 DEF JudgedIsThere
  <2>1. lockDir \in Owner /\ lockDir = observed[r] /\ OwnerGone(lockDir)
    BY <1>2 DEF JudgedIsThere
  <2>2. QED
    BY <1>1, <1>2, <2>1 DEF OwnerGone, Owner
<1>10. MovedAsJudged'
  BY <1>1, <1>2 DEF MovedAsJudged
<1>11. QED
  BY <1>3, <1>4, <1>6, <1>7, <1>8, <1>9, <1>10

-----------------------------------------------------------------------------
(* No step of any process breaks the invariant. *)
LEMMA LockInvStep == LockInv /\ [LockNext]_lockVars => LockInv'
<1> SUFFICES ASSUME LockInv, [LockNext]_lockVars
             PROVE  LockInv'
  OBVIOUS
<1>1. ASSUME NEW p \in Pids, acquireLock(p) \/ timeout(p) \/ retryLater(p)
      PROVE  LockInv'
  BY <1>1, WaitingKeepsLock, ClaimKeepsLock, MkdirReclaimKeepsLock, RecheckKeepsLock,
     RenameDeadKeepsLock, VerifyDeadKeepsLock, LeaveReclaimKeepsLock
     DEF acquireLock, reclaimDeadOwner
<1>2. ASSUME NEW p \in Pids, releaseLock(p)
      PROVE  LockInv'
  BY <1>2, ReleaseKeepsLock, RenameReleaseKeepsLock, VerifyReleaseKeepsLock DEF releaseLock
<1>3. ASSUME NEW p \in Pids, crash(p) \/ restart(p)
      PROVE  LockInv'
  BY <1>3, CrashKeepsLock, RestartKeepsLock
<1>4. CASE UNCHANGED lockVars
  BY <1>4 DEF lockVars, LockInv, LockTypeOK, RecordsArePast, HolderRecorded, OneReclaimer,
              JudgedIsThere, OwnerGone, MovedAsJudged
<1>5. QED
  BY <1>1, <1>2, <1>3, <1>4 DEF LockNext

(* The invariant holds throughout every behaviour. *)
THEOREM LockAlwaysConsistent == LockSpec => []LockInv
<1>1. QED
  BY LockInvInit, LockInvStep, PTL DEF LockSpec

(* While a living process holds the lock, the record at the lock path is its own: no
   reclaimer that judged an earlier owner dead, and no stale owner's release, has moved it
   away, for any number of processes, hosts, crashes and restarts, and for the agents' and
   the portal's way to prove an owner dead. *)
THEOREM LockNeverStolen == LockSpec => []NeverStolen
<1>1. LockInv => NeverStolen
  BY DEF LockInv, HolderRecorded, NeverStolen
<1>2. QED
  BY <1>1, LockAlwaysConsistent, PTL

(* No two living processes are between acquire and release. *)
THEOREM LockMutualExclusion == LockSpec => []MutualExclusion
<1>1. LockInv => MutualExclusion
  BY DEF LockInv, HolderRecorded, MutualExclusion
<1>2. QED
  BY <1>1, LockAlwaysConsistent, PTL

(* What reclaimDeadOwner and releaseEnvelopeLock rename is what they read before: their
   put-back branches, which a crash could leave half done, are never taken. *)
THEOREM LockMovedAsJudged == LockSpec => []MovedAsJudged
<1>1. LockInv => MovedAsJudged
  BY DEF LockInv
<1>2. QED
  BY <1>1, LockAlwaysConsistent, PTL

-----------------------------------------------------------------------------
\* A step of Mutex under the mapping.
MutexStep ==
    \/ Holder \in Crashed /\ Holder' = NoOwner /\ Crashed' = Crashed
    \/ \E o \in Incarnations :
         \/ Holder = NoOwner /\ o \notin Crashed /\ Holder' = o /\ Crashed' = Crashed
         \/ Holder = o /\ o \notin Crashed /\ Holder' = NoOwner /\ Crashed' = Crashed
         \/ o \notin Crashed /\ Crashed' = Crashed \cup {o} /\ Holder' = Holder

(* The incarnation of a running process has not crashed. *)
LEMMA PresentIncarnation ==
    ASSUME LockInv, NEW p \in Pids
    PROVE  /\ <<p, started[p]>> \in Incarnations
           /\ <<p, started[p]>> \in Crashed <=> pc[p] = "dead"
<1>1. started[p] \in 0..MaxRestarts
  BY LockAssumption DEF LockInv, LockTypeOK
<1>2. <<p, started[p]>> \in Incarnations
  BY <1>1 DEF Incarnations
<1>3. QED
  BY <1>1, <1>2 DEF Crashed

(* Nobody crashes or restarts: the crashed incarnations stay the same. *)
LEMMA SameCrashed ==
    ASSUME LockInv, UNCHANGED started,
           \A p \in Pids : pc'[p] = "dead" <=> pc[p] = "dead"
    PROVE  Crashed' = Crashed
<1>1. \A o \in Incarnations : o[1] \in Pids
  BY DEF Incarnations
<1>2. QED
  BY <1>1 DEF Crashed, Incarnations

(* Every other step of the protocol moves nobody's record and crashes nobody. *)
LEMMA LockStepIsMutexStep ==
    ASSUME LockInv, [LockNext]_lockVars
    PROVE  MutexStep \/ UNCHANGED <<Holder, Crashed>>
<1>0. pc \in [Pids -> Points] /\ started \in [Pids -> Nat] /\ LockAssumption
  BY LockAssumption DEF LockInv, LockTypeOK
<1>1. ASSUME NEW p \in Pids, claim(p)
      PROVE  MutexStep
  <2>1. Crashed' = Crashed
    BY <1>0, <1>1, SameCrashed DEF claim, goto
  <2>2. Holder = NoOwner
    BY <1>1 DEF claim, Holder
  <2>3. Holder' = <<p, started[p]>>
    <3>1. lockDir' = [token |-> nextToken, pid |-> p, started |-> started[p]]
      BY <1>1 DEF claim, LockInv, LockTypeOK
    <3>2. lockDir' # NoOwner
      BY <1>0, <3>1 DEF LockAssumption, LockInv, LockTypeOK
    <3>3. QED
      BY <3>1, <3>2 DEF Holder
  <2>4. <<p, started[p]>> \in Incarnations /\ <<p, started[p]>> \notin Crashed
    BY <1>1, PresentIncarnation DEF claim
  <2>5. QED
    BY <2>1, <2>2, <2>3, <2>4 DEF MutexStep
<1>2. ASSUME NEW p \in Pids, renameRelease(p)
      PROVE  MutexStep
  <2>1. Crashed' = Crashed
    BY <1>0, <1>2, SameCrashed DEF renameRelease, goto
  <2>2. Holder = <<p, started[p]>>
    BY <1>0, <1>2 DEF renameRelease, Holder, LockInv, HolderRecorded, Holding, LockAssumption, Owner
  <2>3. Holder' = NoOwner
    BY <1>2 DEF renameRelease, Holder
  <2>4. <<p, started[p]>> \in Incarnations /\ <<p, started[p]>> \notin Crashed
    BY <1>2, PresentIncarnation DEF renameRelease
  <2>5. QED
    BY <2>1, <2>2, <2>3, <2>4 DEF MutexStep
<1>3. ASSUME NEW p \in Pids, renameDead(p)
      PROVE  MutexStep
  <2>1. Crashed' = Crashed
    BY <1>0, <1>3, SameCrashed DEF renameDead, goto
  <2>2. lockDir \in Owner /\ lockDir # NoOwner /\ OwnerGone(lockDir)
    BY <1>0, <1>3 DEF renameDead, LockInv, JudgedIsThere, LockAssumption, Owner
  <2>3. lockDir.pid \in Pids /\ lockDir.started \in 0..MaxRestarts
    BY <1>0, <2>2 DEF Owner, LockInv, RecordsArePast, LockAssumption
  <2>4. Holder = <<lockDir.pid, lockDir.started>> /\ Holder \in Incarnations
    BY <2>2, <2>3 DEF Holder, Incarnations
  <2>5. Holder \in Crashed
    BY <2>2, <2>4 DEF Crashed, OwnerGone
  <2>6. Holder' = NoOwner
    BY <1>3 DEF renameDead, Holder
  <2>7. QED
    BY <2>1, <2>5, <2>6 DEF MutexStep
<1>4. ASSUME NEW p \in Pids, crash(p)
      PROVE  MutexStep
  <2>1. Holder' = Holder
    BY <1>4 DEF crash, Holder
  <2>2. <<p, started[p]>> \in Incarnations /\ <<p, started[p]>> \notin Crashed
    BY <1>4, PresentIncarnation DEF crash
  <2>3. Crashed' = Crashed \cup {<<p, started[p]>>}
    <3>1. started' = started /\ \A q \in Pids : pc'[q] = IF q = p THEN "dead" ELSE pc[q]
      BY <1>0, <1>4 DEF crash, goto
    <3>2. \A o \in Incarnations : o[1] \in Pids /\ (o = <<p, started[p]>> <=> o[1] = p /\ o[2] = started[p])
      BY DEF Incarnations
    <3>3. QED
      BY <2>2, <3>1, <3>2 DEF Crashed
  <2>4. QED
    BY <2>1, <2>2, <2>3 DEF MutexStep
<1>5. ASSUME NEW p \in Pids, restart(p)
      PROVE  UNCHANGED <<Holder, Crashed>>
  <2>1. Holder' = Holder
    BY <1>5 DEF restart, Holder
  <2>2. \A q \in Pids : /\ started'[q] = IF q = p THEN started[q] + 1 ELSE started[q]
                        /\ pc'[q] = IF q = p THEN "idle" ELSE pc[q]
    BY <1>0, <1>5 DEF restart, goto
  <2>3. pc[p] = "dead"
    BY <1>5 DEF restart
  <2>4. \A o \in Incarnations : o[1] \in Pids /\ o[2] \in Nat
    BY DEF Incarnations
  <2>5. Crashed' = Crashed
    BY <1>0, <2>2, <2>3, <2>4 DEF Crashed
  <2>6. QED
    BY <2>1, <2>5
<1>6. ASSUME NEW p \in Pids,
             \/ request(p) \/ checkReclaim(p) \/ claimRefused(p) \/ observe(p) \/ timeout(p)
             \/ tryAgain(p) \/ retryLater(p) \/ mkdirReclaim(p) \/ recheck(p)
             \/ verifyDead(p) \/ leaveReclaim(p) \/ release(p) \/ verifyRelease(p)
      PROVE  UNCHANGED <<Holder, Crashed>>
  <2>1. lockDir' = lockDir /\ started' = started
    BY <1>6 DEF request, checkReclaim, claimRefused, observe, timeout, tryAgain, retryLater,
                mkdirReclaim, recheck, verifyDead, leaveReclaim, release, verifyRelease,
                LockInv, MovedAsJudged
  <2>2. pc[p] # "dead"
    BY <1>6 DEF request, checkReclaim, claimRefused, observe, timeout, tryAgain, retryLater,
                mkdirReclaim, recheck, verifyDead, leaveReclaim, release, verifyRelease
  <2>3. \E q \in Points \ {"dead"} : pc' = [pc EXCEPT ![p] = q]
    BY <1>6 DEF request, checkReclaim, claimRefused, observe, timeout, tryAgain, retryLater, goto,
                mkdirReclaim, recheck, verifyDead, leaveReclaim, release, verifyRelease, Points
  <2>4. \A q \in Pids : pc'[q] = "dead" <=> pc[q] = "dead"
    BY <1>0, <2>2, <2>3
  <2>5. QED
    BY <2>1, <2>4, SameCrashed DEF Holder
<1>7. CASE UNCHANGED lockVars
  BY <1>7 DEF lockVars, Holder, Crashed
<1>8. QED
  BY <1>1, <1>2, <1>3, <1>4, <1>5, <1>6, <1>7
     DEF LockNext, acquireLock, releaseLock, reclaimDeadOwner

(* The lock directory protocol implements Mutex: claims, releases and reclaims of the record
   are its steps, a restarted process is a new owner, and everything else stutters. *)
THEOREM LockImplementsMutex == LockSpec => ImplementsMutex
<1>1. LockInit => M!Init
  BY LockAssumption DEF LockInit, M!Init, Holder, Crashed, Incarnations
<1>2. LockInv /\ [LockNext]_lockVars => [M!Next]_<<Holder, Crashed>>
  <2>1. MutexStep => M!Next
    BY DEF MutexStep, M!Next, M!Reclaim, M!Acquire, M!Release, M!Die
  <2>2. QED
    BY <2>1, LockStepIsMutexStep
<1>3. QED
  BY <1>1, <1>2, LockAlwaysConsistent, PTL DEF ImplementsMutex, M!Spec, LockSpec

-----------------------------------------------------------------------------
(***************************************************************************)
(* The failure budget of the supervisor, for any budget, runtime, disk,    *)
(* crashes and restarts.                                                   *)
(*                                                                         *)
(* The argument: what failed since the last success is covered by the last *)
(* entry of the journal and the failures that are known to have missed it. *)
(* While a cycle's outcome is on its way to the journal the counter in     *)
(* memory takes the entry's place: it is one ahead of the file, and        *)
(* whatever ends the supervisor there moves that one to the missed ones.   *)
(***************************************************************************)
Record == [classification : Classifications, failures : Nat]

SupervisorShape ==
    /\ journal \in Seq(Record)
    /\ failures \in Nat /\ failing \in Nat /\ lost \in Nat
    /\ phase \in {"down", "loop", "cycle", "append", "sleep"}
    /\ phase = "append" => outcome \in Classifications

(* The file never says more than the budget, and less whenever a cycle runs. *)
WithinBudget ==
    /\ persistedIn(journal) <= maxFailures
    /\ phase # "down" => persistedIn(journal) < maxFailures

(* The counter in memory is the file's, or one outcome ahead of it. *)
CounterFollowsJournal ==
    /\ phase \in {"loop", "cycle", "sleep"} => failures = persistedIn(journal)
    /\ phase = "append" => failures = failuresAfter(persistedIn(journal), outcome)

(* Every failure since a success is counted or known to be missed. *)
FailuresAccounted ==
    IF phase = "append" THEN failing <= failures + lost ELSE failing <= persistedIn(journal) + lost

SupervisorInv == SupervisorShape /\ WithinBudget /\ CounterFollowsJournal /\ FailuresAccounted

-----------------------------------------------------------------------------
(* What the last entry says. *)
LEMMA PersistedNat ==
    ASSUME NEW s \in Seq(Record)
    PROVE  persistedIn(s) \in Nat
<1>1. CASE s = <<>>
  BY <1>1 DEF persistedIn
<1>2. CASE s # <<>>
  <2>1. Len(s) \in 1..Len(s)
    BY <1>2
  <2>2. s[Len(s)] \in Record
    BY <2>1
  <2>3. QED
    BY <1>2, <2>2 DEF persistedIn, Record
<1>3. QED
  BY <1>1, <1>2

LEMMA PersistedAppended ==
    ASSUME NEW s \in Seq(Record), NEW c \in Classifications, NEW n \in Nat
    PROVE  /\ Append(s, [classification |-> c, failures |-> n]) \in Seq(Record)
           /\ persistedIn(Append(s, [classification |-> c, failures |-> n])) = n
<1> DEFINE r == [classification |-> c, failures |-> n]
<1>1. r \in Record /\ r.failures = n
  BY DEF Record
<1> HIDE DEF r
<1>2. /\ Append(s, r) \in Seq(Record) /\ Append(s, r) # <<>>
      /\ Append(s, r)[Len(Append(s, r))] = r
  BY <1>1
<1>3. QED
  BY <1>1, <1>2 DEF persistedIn, r

(* An outcome adds at most one failure, and a success clears them. *)
LEMMA OutcomeCounts ==
    ASSUME NEW n \in Nat, NEW c \in Classifications
    PROVE  /\ failuresAfter(n, c) \in Nat /\ failuresAfter(n, c) <= n + 1
           /\ isFailure(c) => failuresAfter(n, c) = n + 1
           /\ ~isFailure(c) => failuresAfter(n, c) <= n
  BY DEF failuresAfter, isFailure, Classifications

LEMMA ClassificationKnown == classificationOf \in Classifications
<1>1. classificationOf_code \in Classifications
  <2>1. CASE ending = SpawnFailed
    BY <2>1 DEF classificationOf_code, Classifications
  <2>2. CASE ending = Signalled
    BY <2>2 DEF classificationOf_code, Classifications, SpawnFailed, Signalled
  <2>3. CASE ending \notin {SpawnFailed, Signalled}
    BY <2>3 DEF classificationOf_code, Classifications
  <2>4. QED
    BY <2>1, <2>2, <2>3
<1>2. QED
  BY <1>1 DEF classificationOf, Classifications

-----------------------------------------------------------------------------
LEMMA SupervisorInvInit == Init => SupervisorInv
  BY SupervisorAssumption DEF Init, SupervisorInv, SupervisorShape, WithinBudget,
     CounterFollowsJournal, FailuresAccounted, persistedIn

(* The runtime's cycle is classified. *)
LEMMA CycleStep ==
    ASSUME SupervisorInv, runRuntimeCycle
    PROVE  SupervisorInv'
<1> DEFINE c == classificationOf
<1>1. /\ phase = "cycle" /\ phase' = "append" /\ outcome' = c /\ journal' = journal
      /\ failures' = failuresAfter(failures, c)
      /\ failing' = IF c = "success" THEN 0 ELSE failing + (IF reallyFailed THEN 1 ELSE 0)
      /\ lost' = IF c = "success" THEN 0
                 ELSE lost + (IF reallyFailed /\ ~isFailure(c) THEN 1 ELSE 0)
  BY DEF runRuntimeCycle
<1>2. c \in Classifications /\ failures \in Nat /\ failing \in Nat /\ lost \in Nat
  BY ClassificationKnown DEF SupervisorInv, SupervisorShape
<1> HIDE DEF c
<1>3. failures = persistedIn(journal) /\ failing <= failures + lost
  BY <1>1 DEF SupervisorInv, CounterFollowsJournal, FailuresAccounted
<1>4. failures' \in Nat /\ failing' \in Nat /\ lost' \in Nat
  BY <1>1, <1>2, OutcomeCounts
<1>5. failing' <= failures' + lost'
  <2>1. CASE c = "success"
    BY <1>1, <1>4, <2>1
  <2>2. CASE c # "success" /\ isFailure(c)
    BY <1>1, <1>2, <1>3, <2>2, OutcomeCounts
  <2>3. CASE c # "success" /\ ~isFailure(c)
    <3>1. failures' = failures
      BY <1>1, <1>2, <2>3 DEF failuresAfter
    <3>2. QED
      BY <1>1, <1>2, <1>3, <2>3, <3>1
  <2>4. QED
    BY <2>1, <2>2, <2>3
<1>6. SupervisorShape'
  BY <1>1, <1>2, <1>4 DEF SupervisorInv, SupervisorShape
<1>7. WithinBudget' /\ CounterFollowsJournal' /\ FailuresAccounted'
  BY <1>1, <1>3, <1>5 DEF SupervisorInv, WithinBudget, CounterFollowsJournal, FailuresAccounted
<1>8. QED
  BY <1>6, <1>7 DEF SupervisorInv

(* What is known while an outcome is on its way. *)
LEMMA BeforeAppend ==
    ASSUME SupervisorInv, phase = "append"
    PROVE  /\ outcome \in Classifications
           /\ appended \in Seq(Record) /\ persistedIn(appended) = failures
           /\ failures \in Nat /\ failures <= maxFailures /\ failing <= failures + lost
           /\ failing <= persistedIn(journal) + lost + (IF isFailure(outcome) THEN 1 ELSE 0)
<1>1. /\ outcome \in Classifications /\ journal \in Seq(Record)
      /\ failures \in Nat /\ failing \in Nat /\ lost \in Nat
      /\ persistedIn(journal) < maxFailures /\ maxFailures \in Nat
      /\ failures = failuresAfter(persistedIn(journal), outcome)
      /\ failing <= failures + lost
  BY SupervisorAssumption
     DEF SupervisorInv, SupervisorShape, WithinBudget, CounterFollowsJournal, FailuresAccounted
<1>2. persistedIn(journal) \in Nat
  BY <1>1, PersistedNat
<1>3. appended \in Seq(Record) /\ persistedIn(appended) = failures
  BY <1>1, PersistedAppended DEF appended
<1>4. /\ failures <= persistedIn(journal) + 1
      /\ ~isFailure(outcome) => failures <= persistedIn(journal)
  BY <1>1, <1>2, OutcomeCounts
<1>5. QED
  BY <1>1, <1>2, <1>3, <1>4

LEMMA AppendStep ==
    ASSUME SupervisorInv, append
    PROVE  SupervisorInv'
<1>1. /\ phase = "append" /\ journal' = appended
      /\ UNCHANGED <<failures, failing, lost>>
      /\ phase' \in {"down", "loop", "sleep"} /\ (phase' # "down" => ~(failures >= maxFailures))
  BY DEF append, nextPhase, exit
<1>2. /\ appended \in Seq(Record) /\ persistedIn(appended) = failures
      /\ failures \in Nat /\ failures <= maxFailures /\ failing <= failures + lost
  BY <1>1, BeforeAppend
<1>3. maxFailures \in Nat /\ failing \in Nat /\ lost \in Nat
  BY SupervisorAssumption DEF SupervisorInv, SupervisorShape
<1>4. SupervisorShape'
  BY <1>1, <1>2, <1>3 DEF SupervisorShape
<1>5. WithinBudget' /\ CounterFollowsJournal' /\ FailuresAccounted'
  BY <1>1, <1>2, <1>3 DEF WithinBudget, CounterFollowsJournal, FailuresAccounted
<1>6. QED
  BY <1>4, <1>5 DEF SupervisorInv

(* A write that fails or a kill: the process is gone, and the outcome is in the
   file or among the missed ones. *)
LEMMA EndSteps ==
    ASSUME SupervisorInv, appendFails \/ Crash
    PROVE  SupervisorInv'
<1>1. phase' = "down" /\ phase # "down" /\ UNCHANGED <<failures, failing>>
  BY DEF appendFails, Crash, exit
<1>2. /\ failures \in Nat /\ failing \in Nat /\ lost \in Nat /\ journal \in Seq(Record)
      /\ persistedIn(journal) \in Nat /\ persistedIn(journal) <= maxFailures
  BY PersistedNat DEF SupervisorInv, SupervisorShape, WithinBudget
<1>3. CASE phase = "append" /\ journal' = appended /\ lost' = lost
  <2>1. SupervisorShape'
    BY <1>1, <1>2, <1>3, BeforeAppend DEF SupervisorShape
  <2>2. WithinBudget' /\ CounterFollowsJournal' /\ FailuresAccounted'
    BY <1>1, <1>3, BeforeAppend DEF WithinBudget, CounterFollowsJournal, FailuresAccounted
  <2>3. QED
    BY <2>1, <2>2 DEF SupervisorInv
<1>4. CASE /\ journal' = journal
           /\ \/ phase = "append" /\ lost' = lost + (IF isFailure(outcome) THEN 1 ELSE 0)
              \/ phase # "append" /\ lost' = lost
  <2>1. lost' \in Nat /\ failing <= persistedIn(journal) + lost'
    <3>1. CASE phase = "append"
      BY <1>2, <1>4, <3>1, BeforeAppend
    <3>2. CASE phase # "append"
      BY <1>2, <1>4, <3>2 DEF SupervisorInv, FailuresAccounted
    <3>3. QED
      BY <3>1, <3>2
  <2>2. SupervisorShape'
    BY <1>1, <1>2, <1>4, <2>1 DEF SupervisorShape
  <2>3. WithinBudget' /\ CounterFollowsJournal' /\ FailuresAccounted'
    BY <1>1, <1>2, <1>4, <2>1 DEF WithinBudget, CounterFollowsJournal, FailuresAccounted
  <2>4. QED
    BY <2>2, <2>3 DEF SupervisorInv
<1>5. QED
  BY <1>3, <1>4 DEF appendFails, Crash

(* A start reads the counter back from the file. *)
LEMMA StartStep ==
    ASSUME SupervisorInv, main, phase = "down"
    PROVE  SupervisorInv'
<1>1. /\ failures' = persistedIn(journal) /\ UNCHANGED <<journal, failing, lost>>
      /\ phase' \in {"down", "loop"} /\ (phase' = "loop" => ~(persistedIn(journal) >= maxFailures))
  BY DEF main
<1>2. /\ persistedIn(journal) \in Nat /\ journal \in Seq(Record) /\ failing \in Nat /\ lost \in Nat
      /\ persistedIn(journal) <= maxFailures /\ maxFailures \in Nat
      /\ failing <= persistedIn(journal) + lost
  BY SupervisorAssumption, PersistedNat
     DEF SupervisorInv, SupervisorShape, WithinBudget, FailuresAccounted
<1>3. SupervisorShape'
  BY <1>1, <1>2 DEF SupervisorShape
<1>4. WithinBudget' /\ CounterFollowsJournal' /\ FailuresAccounted'
  BY <1>1, <1>2 DEF WithinBudget, CounterFollowsJournal, FailuresAccounted
<1>5. QED
  BY <1>3, <1>4 DEF SupervisorInv

(* The rest moves no counter and neither enters nor leaves an append. *)
LEMMA QuietStep ==
    ASSUME SupervisorInv, UNCHANGED <<journal, failures, failing, lost, outcome>>,
           \/ phase' = phase
           \/ phase' \in {"loop", "cycle", "down"} /\ phase \in {"loop", "sleep"}
    PROVE  SupervisorInv'
  BY DEF SupervisorInv, SupervisorShape, WithinBudget, CounterFollowsJournal, FailuresAccounted

LEMMA SupervisorInvNext == SupervisorInv /\ [Next]_vars => SupervisorInv'
<1> SUFFICES ASSUME SupervisorInv, [Next]_vars PROVE SupervisorInv'
  OBVIOUS
<1>1. CASE \/ Spawn \/ Timeout \/ outputCollector \/ KillAfterGrace \/ abortableSleep \/ Sigterm
           \/ \E how \in Codes \cup {Signalled} : ChildEnds(how)
  <2>1. /\ UNCHANGED <<journal, failures, failing, lost, outcome>>
        /\ \/ phase' = phase
           \/ phase' \in {"loop", "cycle", "down"} /\ phase \in {"loop", "sleep"}
    BY <1>1 DEF Spawn, Timeout, outputCollector, KillAfterGrace, abortableSleep, Sigterm, ChildEnds
  <2>2. QED
    BY <2>1, QuietStep
<1>2. CASE LoopEnds
  BY <1>2, QuietStep DEF LoopEnds, exit
<1>3. CASE SystemdRestarts \/ OperatorStarts
  BY <1>3, StartStep DEF SystemdRestarts, OperatorStarts
<1>4. CASE UNCHANGED vars
  BY <1>4, QuietStep DEF vars
<1>5. QED
  BY <1>1, <1>2, <1>3, <1>4, CycleStep, AppendStep, EndSteps DEF Next

-----------------------------------------------------------------------------
(* The counter in memory, the journal and the failures are in step at every
   point where the supervisor may die (supervise). *)
THEOREM SupervisorInvariant == Spec => []SupervisorInv
<1>1. QED
  BY SupervisorInvInit, SupervisorInvNext, PTL DEF Spec

(* The runtime fails at most maxFailures times in a row, plus the failures kept
   out of the journal, over any crashes and restarts (supervise). *)
THEOREM BudgetAlwaysHolds == Spec => []BudgetHolds
<1>1. SupervisorInv => BudgetHolds
  <2> SUFFICES ASSUME SupervisorInv PROVE BudgetHolds
    OBVIOUS
  <2>1. CASE phase = "append"
    <3>1. failing \in Nat /\ lost \in Nat /\ maxFailures \in Nat
      BY SupervisorAssumption DEF SupervisorInv, SupervisorShape
    <3>2. QED
      BY <2>1, <3>1, BeforeAppend DEF BudgetHolds
  <2>2. CASE phase # "append"
    <3>1. /\ failing \in Nat /\ lost \in Nat /\ maxFailures \in Nat /\ persistedIn(journal) \in Nat
          /\ persistedIn(journal) <= maxFailures /\ failing <= persistedIn(journal) + lost
      BY <2>2, SupervisorAssumption, PersistedNat
         DEF SupervisorInv, SupervisorShape, WithinBudget, FailuresAccounted
    <3>2. QED
      BY <3>1 DEF BudgetHolds
  <2>3. QED
    BY <2>1, <2>2
<1>2. QED
  BY <1>1, SupervisorInvariant, PTL

(* A spent budget stays spent: no start runs the runtime again (main). *)
THEOREM SpentAlwaysSpent == Spec => SpentStaysSpent
<1>1. SupervisorInv /\ [Next]_vars =>
         (persistedIn(journal) >= maxFailures => child' # "running" \/ child = "running")
  <2> SUFFICES ASSUME SupervisorInv, [Next]_vars, persistedIn(journal) >= maxFailures,
                      child' = "running", child # "running"
               PROVE  FALSE
    OBVIOUS
  <2>1. Spawn
    BY DEF Next, vars, cycleVars, Spawn, Timeout, outputCollector, KillAfterGrace, runRuntimeCycle,
           ChildEnds, append, appendFails, abortableSleep, LoopEnds, Sigterm, SystemdRestarts,
           OperatorStarts, main, Crash
  <2>2. persistedIn(journal) < maxFailures /\ persistedIn(journal) \in Nat /\ maxFailures \in Nat
    BY <2>1, SupervisorAssumption, PersistedNat DEF Spawn, SupervisorInv, SupervisorShape, WithinBudget
  <2>3. QED
    BY <2>2
<1>2. QED
  BY <1>1, SupervisorInvariant, PTL DEF Spec, SpentStaysSpent
=============================================================================
