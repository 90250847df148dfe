------------------------------ MODULE OwnerLock ------------------------------
(***************************************************************************)
(* The owner lock of the agents (agent/challenge-envelope.mjs) and of the  *)
(* portal (web/src/lib/portal-lock.ts).  Both run one protocol on a        *)
(* directory whose owner.json names the holder: a claim is a staged        *)
(* directory renamed onto the lock path, and the lock of a process that    *)
(* is provably dead on this host is renamed away by a reclaimer that holds *)
(* a second directory, `.reclaim'.  They differ in how they prove an owner *)
(* dead: the agents ask whether its pid exists, the portal also compares   *)
(* the start identity of the process that has the pid now.                 *)
(*                                                                         *)
(* Every file system call is a step of its own; processes crash between    *)
(* any two of them and may restart under the same pid.                     *)
(***************************************************************************)
EXTENDS Naturals, FiniteSets

CONSTANTS Pids,           \* processes, named by pid
          HostOf,         \* HostOf[p]: the host p runs on
          IdentityProbe,  \* TRUE: the portal's lock, which compares start identities
          MaxTokens,      \* bound: acquisition attempts
          MaxRestarts,    \* bound: incarnations of one pid, less one
          CrashPoints,    \* the program points at which a process may crash
          NoOwner         \* no lock directory, or nothing observed yet

ASSUME LockAssumption ==
    /\ MaxTokens \in Nat
    /\ MaxRestarts \in Nat
    /\ IdentityProbe \in BOOLEAN
    /\ NoOwner \notin [token : Nat, pid : Pids, started : Nat]

VARIABLES
    lockDir,    \* the owner record at the lock path, or NoOwner
    reclaimDir, \* the `.reclaim' directory exists
    pc,         \* the next file system call of each process
    own,        \* the owner record a process staged or holds
    observed,   \* the owner record a process found at the lock path
    moved,      \* the owner record a process renamed to its tombstone
    started,    \* how often the pid has been restarted
    nextToken   \* the 256-bit random tokens, drawn without repetition

lockVars == <<lockDir, reclaimDir, pc, own, observed, moved, started, nextToken>>

Owner == [token : Nat, pid : Pids, started : Nat]

\* Program points between whose file system calls a process can be interrupted.
Points == {"idle", "wait", "stage", "observe", "again", "mkdirReclaim", "recheck", "renameDead",
           "verifyDead", "leaveMoved", "leaveKept", "leaveError", "held", "renameRelease",
           "verifyRelease", "failed", "dead"}

Reclaiming == {"recheck", "renameDead", "verifyDead", "leaveMoved", "leaveKept", "leaveError"}
Holding == {"held", "renameRelease"}

LockInit ==
    /\ lockDir = NoOwner
    /\ reclaimDir = FALSE
    /\ pc = [p \in Pids |-> "idle"]
    /\ own = [p \in Pids |-> NoOwner]
    /\ observed = [p \in Pids |-> NoOwner]
    /\ moved = [p \in Pids |-> NoOwner]
    /\ started = [p \in Pids |-> 0]
    /\ nextToken = 0

goto(p, point) == pc' = [pc EXCEPT ![p] = point]

\* kill(pid, 0) says ESRCH.
processLiveness(pid) == IF pc[pid] = "dead" THEN "dead" ELSE "alive"

\* The agents' test: only the pid is asked about.
envelopeOwnerIsDead(owner, p) ==
    HostOf[owner.pid] = HostOf[p] /\ processLiveness(owner.pid) = "dead"

\* The boot id and start time of the process that has the pid: another one after a restart.
processStartIdentity(pid) == started[pid]

\* The portal's test: a living process with another start identity proves the owner dead too.
portalOwnerIsDead(owner, p) ==
    /\ HostOf[owner.pid] = HostOf[p]
    /\ \/ processLiveness(owner.pid) = "dead"
       \/ processStartIdentity(owner.pid) # owner.started

ownerIsDeadOnThisHost(owner, p) ==
    IF IdentityProbe THEN portalOwnerIsDead(owner, p) ELSE envelopeOwnerIsDead(owner, p)

request(p) ==
    /\ pc[p] = "idle"
    /\ goto(p, "wait")
    /\ UNCHANGED <<lockDir, reclaimDir, own, observed, moved, started, nextToken>>

\* existsSync(`.reclaim'): go on only when nobody is reclaiming.
checkReclaim(p) ==
    /\ pc[p] = "wait"
    /\ ~reclaimDir
    /\ goto(p, "stage")
    /\ UNCHANGED <<lockDir, reclaimDir, own, observed, moved, started, nextToken>>

\* renameSync of the staged directory: atomic, and refused while the lock path exists.  The
\* staged token is drawn here, since nobody can see it before the rename.
claim(p) ==
    /\ pc[p] = "stage"
    /\ lockDir = NoOwner
    /\ nextToken < MaxTokens
    /\ own' = [own EXCEPT ![p] = [token |-> nextToken, pid |-> p, started |-> started[p]]]
    /\ lockDir' = own'[p]
    /\ nextToken' = nextToken + 1
    /\ goto(p, "held")
    /\ UNCHANGED <<reclaimDir, observed, moved, started>>

claimRefused(p) ==
    /\ pc[p] = "stage"
    /\ lockDir # NoOwner
    /\ goto(p, "observe")
    /\ UNCHANGED <<lockDir, reclaimDir, own, observed, moved, started, nextToken>>

\* A lock path that vanished is retried; a dead owner is reclaimed, a living one waited for.
observe(p) ==
    /\ pc[p] = "observe"
    /\ LET judgedDead == lockDir # NoOwner /\ ownerIsDeadOnThisHost(lockDir, p)
       IN /\ observed' = [observed EXCEPT ![p] = IF judgedDead THEN lockDir ELSE NoOwner]
          /\ goto(p, IF lockDir = NoOwner THEN "wait" ELSE IF judgedDead THEN "mkdirReclaim" ELSE "again")
    /\ UNCHANGED <<lockDir, reclaimDir, own, moved, started, nextToken>>

\* An attempt came to nothing: the deadline passes and the caller gets an error, or it tries on.
timeout(p) ==
    /\ pc[p] = "again" \/ (pc[p] = "wait" /\ reclaimDir)
    /\ goto(p, "failed")
    /\ UNCHANGED <<lockDir, reclaimDir, own, observed, moved, started, nextToken>>

tryAgain(p) ==
    /\ pc[p] = "again"
    /\ goto(p, "wait")
    /\ UNCHANGED <<lockDir, reclaimDir, own, observed, moved, started, nextToken>>

\* Mutant: an existing `.reclaim' directory is no obstacle.
mkdirReclaimAnyway(p) ==
    /\ pc[p] = "mkdirReclaim"
    /\ reclaimDir' = TRUE
    /\ goto(p, "recheck")
    /\ UNCHANGED <<lockDir, own, observed, moved, started, nextToken>>

mkdirReclaim(p) ==
    /\ pc[p] = "mkdirReclaim"
    /\ reclaimDir' = TRUE
    /\ goto(p, IF reclaimDir THEN "again" ELSE "recheck")
    /\ observed' = [observed EXCEPT ![p] = IF reclaimDir THEN NoOwner ELSE @]
    /\ UNCHANGED <<lockDir, own, moved, started, nextToken>>

\* Mutants: the second look at the owner is left out, or asks only whether somebody is dead.
moveUnseen(p) == TRUE

\* Under `.reclaim', the owner is read and judged again.
mayMoveDead(p) ==
    /\ lockDir = observed[p]
    /\ ownerIsDeadOnThisHost(lockDir, p)

recheck(p) ==
    /\ pc[p] = "recheck"
    /\ goto(p, IF lockDir = NoOwner THEN "leaveError"
               ELSE IF mayMoveDead(p) THEN "renameDead" ELSE "leaveKept")
    /\ UNCHANGED <<lockDir, reclaimDir, own, observed, moved, started, nextToken>>

\* The rename takes whatever is at the lock path by then.
renameDead(p) ==
    /\ pc[p] = "renameDead"
    /\ moved' = [moved EXCEPT ![p] = lockDir]
    /\ lockDir' = NoOwner
    /\ goto(p, IF lockDir = NoOwner THEN "leaveError" ELSE "verifyDead")
    /\ UNCHANGED <<reclaimDir, own, observed, started, nextToken>>

\* A successor's record moved by mistake is put back, if its place is still free.
verifyDead(p) ==
    /\ pc[p] = "verifyDead"
    /\ lockDir' = IF moved[p] # observed[p] /\ lockDir = NoOwner THEN moved[p] ELSE lockDir
    /\ goto(p, IF moved[p] = observed[p] THEN "leaveMoved" ELSE "leaveError")
    /\ UNCHANGED <<reclaimDir, own, observed, moved, started, nextToken>>

leaveReclaim(p) ==
    /\ pc[p] \in {"leaveMoved", "leaveKept", "leaveError"}
    /\ reclaimDir' = FALSE
    /\ goto(p, CASE pc[p] = "leaveMoved" -> "wait"
                 [] pc[p] = "leaveKept" -> "again"
                 [] pc[p] = "leaveError" -> "failed")
    /\ observed' = [observed EXCEPT ![p] = NoOwner]
    /\ moved' = [moved EXCEPT ![p] = NoOwner]
    /\ UNCHANGED <<lockDir, own, started, nextToken>>

reclaimDeadOwner(p) == mkdirReclaim(p) \/ recheck(p) \/ renameDead(p) \/ verifyDead(p) \/ leaveReclaim(p)

\* Release reads the record, refuses a foreign one, and renames it away ...
release(p) ==
    /\ pc[p] = "held"
    /\ goto(p, IF lockDir = own[p] THEN "renameRelease" ELSE "failed")
    /\ own' = [own EXCEPT ![p] = IF lockDir = @ THEN @ ELSE NoOwner]
    /\ UNCHANGED <<lockDir, reclaimDir, observed, moved, started, nextToken>>

renameRelease(p) ==
    /\ pc[p] = "renameRelease"
    /\ moved' = [moved EXCEPT ![p] = lockDir]
    /\ lockDir' = NoOwner
    /\ goto(p, "verifyRelease")
    /\ UNCHANGED <<reclaimDir, own, observed, started, nextToken>>

\* ... and verifies what it moved before deleting it.
verifyRelease(p) ==
    /\ pc[p] = "verifyRelease"
    /\ lockDir' = IF moved[p] # own[p] /\ lockDir = NoOwner THEN moved[p] ELSE lockDir
    /\ goto(p, IF moved[p] = own[p] THEN "idle" ELSE "failed")
    /\ own' = [own EXCEPT ![p] = NoOwner]
    /\ moved' = [moved EXCEPT ![p] = NoOwner]
    /\ UNCHANGED <<reclaimDir, observed, started, nextToken>>

\* A caller that got an error may try again later.
retryLater(p) ==
    /\ pc[p] = "failed"
    /\ goto(p, "idle")
    /\ UNCHANGED <<lockDir, reclaimDir, own, observed, moved, started, nextToken>>

\* What a process remembers dies with it; the directories stay.
crash(p) ==
    /\ pc[p] \in CrashPoints
    /\ pc[p] # "dead"
    /\ goto(p, "dead")
    /\ own' = [own EXCEPT ![p] = NoOwner]
    /\ observed' = [observed EXCEPT ![p] = NoOwner]
    /\ moved' = [moved EXCEPT ![p] = NoOwner]
    /\ UNCHANGED <<lockDir, reclaimDir, started, nextToken>>

\* The supervisor starts the program again and the kernel hands it the same pid.
restart(p) ==
    /\ pc[p] = "dead"
    /\ started[p] < MaxRestarts
    /\ started' = [started EXCEPT ![p] = @ + 1]
    /\ goto(p, "idle")
    /\ UNCHANGED <<lockDir, reclaimDir, own, observed, moved, nextToken>>

acquireLock(p) ==
    \/ request(p) \/ checkReclaim(p) \/ claim(p) \/ claimRefused(p)
    \/ observe(p) \/ tryAgain(p) \/ reclaimDeadOwner(p)

releaseLock(p) == release(p) \/ renameRelease(p) \/ verifyRelease(p)

LockNext == \E p \in Pids :
    acquireLock(p) \/ releaseLock(p) \/ timeout(p) \/ retryLater(p) \/ crash(p) \/ restart(p)

LockSpec == LockInit /\ [][LockNext]_lockVars

\* A process that runs keeps executing its calls, and a caller that failed calls again.
FairLockSpec ==
    /\ LockSpec
    /\ \A p \in Pids : WF_lockVars(acquireLock(p) \/ releaseLock(p) \/ retryLater(p))
-----------------------------------------------------------------------------
LockTypeOK ==
    /\ lockDir \in Owner \cup {NoOwner}
    /\ reclaimDir \in BOOLEAN
    /\ pc \in [Pids -> Points]
    /\ own \in [Pids -> Owner \cup {NoOwner}]
    /\ observed \in [Pids -> Owner \cup {NoOwner}]
    /\ moved \in [Pids -> Owner \cup {NoOwner}]
    /\ started \in [Pids -> Nat]
    /\ nextToken \in Nat

\* No two living processes are between acquire and release.
MutualExclusion ==
    \A p, q \in Pids : pc[p] \in Holding /\ pc[q] \in Holding => p = q

\* While a living process holds the lock, the record at the lock path is its own: no reclaimer
\* that judged an earlier owner dead and no stale owner's release has moved it away.
NeverStolen ==
    \A p \in Pids : pc[p] \in Holding => lockDir = own[p]

\* Whatever a process renamed to a tombstone is what it meant to move, so the put-back
\* branches of reclaim and release, which two crashes could leave half done, are never taken.
MovedAsJudged ==
    \A p \in Pids : /\ pc[p] = "verifyDead" => moved[p] = observed[p]
                    /\ pc[p] = "verifyRelease" => moved[p] = own[p]

\* Who holds the lock: the incarnation that the record at the lock path names.  An incarnation
\* is dead once it crashed, also when its pid is in use again.
Incarnations == {<<p, n>> : p \in Pids, n \in 0..MaxRestarts}
Holder == IF lockDir = NoOwner THEN NoOwner ELSE <<lockDir.pid, lockDir.started>>
Crashed == {o \in Incarnations : o[2] < started[o[1]] \/ (o[2] = started[o[1]] /\ pc[o[1]] = "dead")}

\* The protocol implements Mutex: only the holder's release or its death ever frees the lock
\* (acquireEnvelopeLock, reclaimDeadOwner, releaseEnvelopeLock).
M == INSTANCE Mutex WITH Owners <- Incarnations, Free <- NoOwner, holder <- Holder, dead <- Crashed
ImplementsMutex == M!Spec

\* A crashed holder does not keep the lock: as long as somebody on its host lives, its record
\* is moved away, whoever else crashes or restarts meanwhile (reclaimDeadOwner).
DeadOwnerReplaced ==
    \A t \in 0..(MaxTokens - 1) :
        (/\ lockDir # NoOwner
         /\ lockDir.token = t
         /\ started[lockDir.pid] # lockDir.started \/ pc[lockDir.pid] = "dead")
        ~> \/ lockDir = NoOwner
           \/ lockDir.token # t
           \/ \A p \in Pids : HostOf[p] = HostOf[lockDir.pid] => pc[p] = "dead"
=============================================================================
