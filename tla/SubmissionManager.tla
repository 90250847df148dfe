-------------------------- MODULE SubmissionManager --------------------------
(***************************************************************************)
(* P42SubmissionManager: the commit / reveal / finalize lifecycle, the     *)
(* live frontier, posting bonds, duplicate priority, the full pause and    *)
(* the governance void, with the hooks the challenge manager calls.  Each  *)
(* operation constrains exactly `managerVars' and, where the code calls    *)
(* the ledger, `ledgerVars'.                                               *)
(*                                                                         *)
(* A commitment binds one solution CID to its sender (hash preimage), so   *)
(* it is modelled by that CID; a commitment that nobody can open is one    *)
(* that is never revealed.  Score atoms are integers, lower is better.     *)
(***************************************************************************)
EXTENDS BountyPool

CONSTANTS
    Resolver,                        \* beneficiary of resolver bonds
    NoOne,                           \* address(0)
    MaxSubmissions,                  \* bound on submissionCount, for TLC only
    Cids, NoCid,                     \* solution identities; the empty one
    Scores,                          \* absolute scores a reveal may claim
    seedScoreAtoms, MIN_SCORE_ATOMS_BOUND, minImprovementAtoms,
    alphaBps, minPostingBondWei,
    BondValues, MaxBond,             \* ETH a solver may attach; bound on a topped-up bond
    challengeWindowSeconds,
    MIN_COMMIT_AGE_BLOCKS,
    MAX_CUMULATIVE_DISPUTE_WINDOWS,
    PAUSED_ALL_RECOVERY_DELAY,
    CREDIT_FINALIZE_RECOVERY_DELAY

Ids == 1..MaxSubmissions
Accounts == Actors \cup {Treasury, Resolver}
Statuses == {"None", "Committed", "Revealed", "Challenged", "Finalized",
             "Rejected", "Voided"}

ASSUME ManagerAssumption ==
    /\ Resolver \notin Actors /\ Resolver # Treasury
    /\ NoOne \notin Actors \cup {Treasury, Resolver}
    /\ NoCid \notin Cids
    /\ MaxSubmissions \in Nat
    /\ Scores \subseteq Int /\ seedScoreAtoms \in Int
    /\ MIN_SCORE_ATOMS_BOUND \in Int
    /\ minImprovementAtoms \in Nat
    /\ alphaBps \in 0..10000 /\ minPostingBondWei \in Nat
    /\ BondValues \subseteq Nat /\ MaxBond \in Nat
    /\ challengeWindowSeconds \in Nat \ {0}
    /\ MIN_COMMIT_AGE_BLOCKS \in Nat
    /\ MAX_CUMULATIVE_DISPUTE_WINDOWS \in Nat \ {0}
    /\ PAUSED_ALL_RECOVERY_DELAY \in Nat
    /\ CREDIT_FINALIZE_RECOVERY_DELAY \in Nat

VARIABLES
    (* per submission id *)
    status, solverOf, solutionCid, paidAtCommit,
    committedBlock, committedActiveAt,
    bondWei, claimedScoreAtoms,
    challengeEndsAt, maxDisputeEndsAt, objectiveCleared,
    finalizeInfo,
    (* board-wide *)
    submissionCount, openSubmissionCount,
    revealedSubmissionCount, challengedSubmissionCount,
    prioritySubmissionOf,
    bestScoreAtoms, creditRecoveryEndsAt,
    claimableBondWei, managerBalance,
    managerPaused,                       \* pausedNewActions
    pausedAll, pausedAllAt, totalPausedAllSeconds, expiryGraceUntil

commitVars   == <<submissionCount, solverOf, solutionCid, paidAtCommit,
                  committedBlock, committedActiveAt>>
revealVars   == <<claimedScoreAtoms, maxDisputeEndsAt, prioritySubmissionOf>>
windowVars   == <<challengeEndsAt, objectiveCleared>>
statusVars   == <<status, openSubmissionCount, revealedSubmissionCount,
                  challengedSubmissionCount>>
frontierVars == <<bestScoreAtoms, creditRecoveryEndsAt, finalizeInfo>>
bondVars     == <<bondWei, claimableBondWei>>
pauseVars    == <<pausedAll, pausedAllAt, totalPausedAllSeconds, expiryGraceUntil>>
managerVars  == <<commitVars, revealVars, windowVars, statusVars, frontierVars,
                  bondVars, managerBalance, managerPaused, pauseVars>>

NoFinalize == [prevBestScoreAtoms |-> 0, creditAtoms |-> 0, prevCreditRecoveryEndsAt |-> 0]

ManagerInit ==
    /\ status = [i \in Ids |-> "None"]
    /\ solverOf = [i \in Ids |-> NoOne]
    /\ solutionCid = [i \in Ids |-> NoCid]
    /\ paidAtCommit = [i \in Ids |-> FALSE]
    /\ committedBlock = [i \in Ids |-> 0]
    /\ committedActiveAt = [i \in Ids |-> 0]
    /\ bondWei = [i \in Ids |-> 0]
    /\ claimedScoreAtoms = [i \in Ids |-> 0]
    /\ challengeEndsAt = [i \in Ids |-> 0]
    /\ maxDisputeEndsAt = [i \in Ids |-> 0]
    /\ objectiveCleared = [i \in Ids |-> FALSE]
    /\ finalizeInfo = [i \in Ids |-> NoFinalize]
    /\ submissionCount = 0 /\ openSubmissionCount = 0
    /\ revealedSubmissionCount = 0 /\ challengedSubmissionCount = 0
    /\ prioritySubmissionOf = [c \in Cids |-> 0]
    /\ bestScoreAtoms = seedScoreAtoms
    /\ creditRecoveryEndsAt = 0
    /\ claimableBondWei = [a \in Accounts |-> 0]
    /\ managerBalance = 0
    /\ managerPaused = FALSE
    /\ pausedAll = FALSE /\ pausedAllAt = 0
    /\ totalPausedAllSeconds = 0 /\ expiryGraceUntil = 0

ManagerTypeOK ==
    /\ status \in [Ids -> Statuses]
    /\ solverOf \in [Ids -> Actors \cup {NoOne}]
    /\ solutionCid \in [Ids -> Cids \cup {NoCid}]
    /\ paidAtCommit \in [Ids -> BOOLEAN]
    /\ committedBlock \in [Ids -> Nat]
    /\ committedActiveAt \in [Ids -> Nat]
    /\ bondWei \in [Ids -> Nat]
    /\ claimedScoreAtoms \in [Ids -> Int]
    /\ challengeEndsAt \in [Ids -> Nat]
    /\ maxDisputeEndsAt \in [Ids -> Nat]
    /\ objectiveCleared \in [Ids -> BOOLEAN]
    /\ finalizeInfo \in [Ids -> [prevBestScoreAtoms : Int, creditAtoms : Nat,
                                 prevCreditRecoveryEndsAt : Nat]]
    /\ submissionCount \in 0..MaxSubmissions
    /\ openSubmissionCount \in Nat
    /\ revealedSubmissionCount \in Nat
    /\ challengedSubmissionCount \in Nat
    /\ prioritySubmissionOf \in [Cids -> Ids \cup {0}]
    /\ bestScoreAtoms \in Int
    /\ creditRecoveryEndsAt \in Nat
    /\ claimableBondWei \in [Accounts -> Nat]
    /\ managerBalance \in Nat
    /\ managerPaused \in BOOLEAN
    /\ pausedAll \in BOOLEAN /\ pausedAllAt \in Nat
    /\ totalPausedAllSeconds \in Nat /\ expiryGraceUntil \in Nat

-----------------------------------------------------------------------------
(* Views and private helpers. *)

(* Protocol time of the commit reveal window: wall time less full pauses. *)
activeTimestamp ==
    now - totalPausedAllSeconds - (IF pausedAll THEN now - pausedAllAt ELSE 0)

requiredPostingBondForPool(poolWei) ==
    LET scaled == mulDiv(poolWei, alphaBps, 10000)
    IN  IF scaled > minPostingBondWei THEN scaled ELSE minPostingBondWei

(* The marginal frontier reduction of a claim against the live frontier. *)
marginalOf(claimed) ==
    IF claimed < bestScoreAtoms /\ bestScoreAtoms - claimed >= minImprovementAtoms
    THEN bestScoreAtoms - claimed
    ELSE 0

pendingCreditAtoms_fromSeed(i) == seedScoreAtoms - claimedScoreAtoms[i]

pendingCreditAtoms(i) == marginalOf(claimedScoreAtoms[i])

disputedEntitlementWei(i) ==
    provisionalEntitlement(solverOf[i], pendingCreditAtoms(i), funded)

boundedRearmDeadline(i) ==
    IF now + challengeWindowSeconds < maxDisputeEndsAt[i]
    THEN now + challengeWindowSeconds
    ELSE maxDisputeEndsAt[i]

hasPriority(i) == prioritySubmissionOf[solutionCid[i]] = i

makeBondClaimable_keepsBond(i, claimant) ==
    /\ claimableBondWei' = [claimableBondWei EXCEPT ![claimant] = @ + bondWei[i]]
    /\ UNCHANGED bondWei

makeBondClaimable(i, claimant) ==
    /\ bondWei' = [bondWei EXCEPT ![i] = 0]
    /\ claimableBondWei' = [claimableBondWei EXCEPT ![claimant] = @ + bondWei[i]]

decrementOpenSubmission ==
    openSubmissionCount' =
        IF openSubmissionCount > 0 THEN openSubmissionCount - 1 ELSE openSubmissionCount

(* Submission i leaves the open set for good; its bond goes to `claimant'. *)
reject(i, claimant) ==
    /\ status' = [status EXCEPT ![i] = "Rejected"]
    /\ makeBondClaimable(i, claimant)
    /\ decrementOpenSubmission

-----------------------------------------------------------------------------
(* Pauses, by the owner unless said otherwise. *)

setPausedNewActions(paused) ==
    /\ managerPaused' = paused
    /\ UNCHANGED <<commitVars, revealVars, windowVars, statusVars, frontierVars,
                   bondVars, managerBalance, pauseVars>>

clearPausedAll ==
    /\ totalPausedAllSeconds' = totalPausedAllSeconds + (now - pausedAllAt)
    /\ pausedAll' = FALSE
    /\ expiryGraceUntil' = now + challengeWindowSeconds
    /\ UNCHANGED <<pausedAllAt, commitVars, revealVars, windowVars, statusVars,
                   frontierVars, bondVars, managerBalance, managerPaused>>

(* setPausedAll(true); a call during a pause keeps the first timestamp. *)
startPausedAll ==
    /\ ~pausedAll
    /\ now >= expiryGraceUntil
    /\ pausedAll' = TRUE
    /\ pausedAllAt' = now
    /\ UNCHANGED <<totalPausedAllSeconds, expiryGraceUntil, commitVars, revealVars,
                   windowVars, statusVars, frontierVars, bondVars, managerBalance,
                   managerPaused>>

(* setPausedAll(false). *)
endPausedAll == pausedAll /\ clearPausedAll

pauseRecoverable == pausedAll /\ now >= pausedAllAt + PAUSED_ALL_RECOVERY_DELAY

(* Permissionless. *)
recoverPausedAll == pauseRecoverable /\ clearPausedAll

-----------------------------------------------------------------------------
(* The lifecycle, by solvers. *)

(* After arming, a commit is bonded against the whole funding cap. *)
commitBond == requiredPostingBondForPool(IF fundingArmed THEN fundingCap ELSE funded)

commit(solver, cid, value) ==
    /\ ~pausedAll /\ ~managerPaused
    /\ ~closed
    /\ now <= fundingDeadline
    /\ fundingArmed => ObjectiveProofsActive
    /\ value >= commitBond
    /\ submissionCount < MaxSubmissions
    /\ LET i == submissionCount + 1
       IN /\ submissionCount' = i
          /\ solverOf' = [solverOf EXCEPT ![i] = solver]
          /\ solutionCid' = [solutionCid EXCEPT ![i] = cid]
          /\ paidAtCommit' = [paidAtCommit EXCEPT ![i] = fundingArmed]
          /\ committedBlock' = [committedBlock EXCEPT ![i] = now]
          /\ committedActiveAt' = [committedActiveAt EXCEPT ![i] = activeTimestamp]
          /\ bondWei' = [bondWei EXCEPT ![i] = value]
          /\ status' = [status EXCEPT ![i] = "Committed"]
    /\ managerBalance' = managerBalance + value
    /\ openSubmissionCount' = openSubmissionCount + 1
    /\ UNCHANGED <<revealVars, windowVars, revealedSubmissionCount,
                   challengedSubmissionCount, frontierVars, claimableBondWei,
                   managerPaused, pauseVars>>

topUpBond(i, value) ==
    /\ status[i] \in {"Committed", "Revealed", "Challenged"}
    /\ value > 0
    /\ bondWei[i] + value <= MaxBond
    /\ bondWei' = [bondWei EXCEPT ![i] = @ + value]
    /\ managerBalance' = managerBalance + value
    /\ UNCHANGED <<commitVars, revealVars, windowVars, statusVars, frontierVars,
                   claimableBondWei, managerPaused, pauseVars>>

commitOpen(i) == activeTimestamp < committedActiveAt[i] + challengeWindowSeconds

superseded_anyStatus(holder) == holder # 0

(* A displaced holder that is still Revealed is rejected on the spot. *)
superseded(holder) == holder # 0 /\ status[holder] = "Revealed"

(* The first reveal of a CID, or an earlier commit than the one that holds it,
   takes the priority; the loser's bond goes back to its solver. *)
assignDuplicatePriority(i) ==
    LET holder == prioritySubmissionOf[solutionCid[i]]
    IN  \/ /\ holder = 0 \/ i < holder
           /\ prioritySubmissionOf' = [prioritySubmissionOf EXCEPT ![solutionCid[i]] = i]
           /\ IF superseded(holder)
              THEN /\ status' = [status EXCEPT ![i] = "Revealed", ![holder] = "Rejected"]
                   /\ makeBondClaimable(holder, solverOf[holder])
                   /\ decrementOpenSubmission
                   /\ UNCHANGED revealedSubmissionCount
              ELSE /\ status' = [status EXCEPT ![i] = "Revealed"]
                   /\ revealedSubmissionCount' = revealedSubmissionCount + 1
                   /\ UNCHANGED <<bondVars, openSubmissionCount>>
        \/ /\ holder # 0 /\ i >= holder
           /\ reject(i, solverOf[i])
           /\ UNCHANGED <<prioritySubmissionOf, revealedSubmissionCount>>

reveal(i, score) ==
    /\ ~pausedAll
    /\ status[i] = "Committed"
    /\ now >= committedBlock[i] + MIN_COMMIT_AGE_BLOCKS
    /\ commitOpen(i)
    /\ score < seedScoreAtoms /\ score > MIN_SCORE_ATOMS_BOUND
    /\ claimedScoreAtoms' = [claimedScoreAtoms EXCEPT ![i] = score]
    /\ challengeEndsAt' = [challengeEndsAt EXCEPT ![i] = now + challengeWindowSeconds]
    /\ maxDisputeEndsAt' =
         [maxDisputeEndsAt EXCEPT
            ![i] = now + challengeWindowSeconds * MAX_CUMULATIVE_DISPUTE_WINDOWS]
    /\ assignDuplicatePriority(i)
    /\ UNCHANGED <<commitVars, objectiveCleared, challengedSubmissionCount,
                   frontierVars, managerBalance, managerPaused, pauseVars>>

creditOf_anyPhase(i) == pendingCreditAtoms(i)

(* Only a submission committed after arming earns. *)
creditOf(i) == IF paidAtCommit[i] THEN pendingCreditAtoms(i) ELSE 0

frontierAfter(i) ==
    IF pendingCreditAtoms(i) # 0 THEN claimedScoreAtoms[i] ELSE bestScoreAtoms

(* The frontier, the recovery snapshot and the ledger credit of a finalize. *)
advanceFrontier(i) ==
    /\ finalizeInfo' =
         [finalizeInfo EXCEPT
            ![i] = [prevBestScoreAtoms |-> bestScoreAtoms,
                    creditAtoms |-> creditOf(i),
                    prevCreditRecoveryEndsAt |-> creditRecoveryEndsAt]]
    /\ bestScoreAtoms' = frontierAfter(i)
    /\ IF creditOf(i) # 0
       THEN /\ creditRecoveryEndsAt' = now + CREDIT_FINALIZE_RECOVERY_DELAY
            /\ recordCredit(solverOf[i], creditOf(i))
       ELSE UNCHANGED <<creditRecoveryEndsAt, ledgerVars>>

(* By the solver of i only. *)
finalize(i) ==
    /\ ~pausedAll
    /\ status[i] = "Revealed"
    /\ now >= challengeEndsAt[i]
    /\ IF ~hasPriority(i)
       THEN /\ reject(i, solverOf[i])
            /\ UNCHANGED <<frontierVars, ledgerVars>>
       ELSE /\ creditOf(i) # 0 => bondWei[i] >= requiredPostingBondForPool(fundingCap)
            /\ status' = [status EXCEPT ![i] = "Finalized"]
            /\ IF creditOf(i) = 0 THEN makeBondClaimable(i, solverOf[i])
                                  ELSE UNCHANGED bondVars
            /\ decrementOpenSubmission
            /\ advanceFrontier(i)
    /\ revealedSubmissionCount' = revealedSubmissionCount - 1
    /\ UNCHANGED <<commitVars, revealVars, windowVars, challengedSubmissionCount,
                   managerBalance, managerPaused, pauseVars>>

(* Permissionless. *)
releaseFinalizedBond(i) ==
    /\ closed
    /\ status[i] = "Finalized"
    /\ bondWei[i] # 0
    /\ makeBondClaimable(i, solverOf[i])
    /\ UNCHANGED <<commitVars, revealVars, windowVars, statusVars, frontierVars,
                   managerBalance, managerPaused, pauseVars>>

commitForfeitable(i) ==
    /\ ~pausedAll
    /\ status[i] = "Committed"
    /\ ~commitOpen(i)
    /\ now >= expiryGraceUntil

(* Permissionless; the bond is forfeited. *)
expireCommitted(i) ==
    /\ commitForfeitable(i)
    /\ reject(i, Treasury)
    /\ UNCHANGED <<commitVars, revealVars, windowVars, revealedSubmissionCount,
                   challengedSubmissionCount, frontierVars, managerBalance,
                   managerPaused, pauseVars>>

revealForfeitable(i) ==
    /\ ~pausedAll
    /\ status[i] = "Revealed"
    /\ now >= challengeEndsAt[i] + challengeWindowSeconds
    /\ now >= expiryGraceUntil

(* Permissionless; the bond is forfeited. *)
expireRevealed(i) ==
    /\ revealForfeitable(i)
    /\ reject(i, Treasury)
    /\ revealedSubmissionCount' = revealedSubmissionCount - 1
    /\ UNCHANGED <<commitVars, revealVars, windowVars, challengedSubmissionCount,
                   frontierVars, managerBalance, managerPaused, pauseVars>>

claimBond(account) ==
    /\ claimableBondWei[account] # 0
    /\ claimableBondWei' = [claimableBondWei EXCEPT ![account] = 0]
    /\ managerBalance' = managerBalance - claimableBondWei[account]
    /\ UNCHANGED <<commitVars, revealVars, windowVars, statusVars, frontierVars,
                   bondWei, managerPaused, pauseVars>>

-----------------------------------------------------------------------------
(* Governance recovery of a poisoned frontier, by the owner. *)
voidFinalize(i) ==
    /\ pausedAll
    /\ revealedSubmissionCount = 0 /\ challengedSubmissionCount = 0
    /\ status[i] = "Finalized"
    /\ bestScoreAtoms = claimedScoreAtoms[i]
    /\ finalizeInfo[i].prevBestScoreAtoms # claimedScoreAtoms[i]
    /\ status' = [status EXCEPT ![i] = "Voided"]
    /\ bestScoreAtoms' = finalizeInfo[i].prevBestScoreAtoms
    /\ IF finalizeInfo[i].creditAtoms > 0
       THEN /\ creditRecoveryEndsAt' = finalizeInfo[i].prevCreditRecoveryEndsAt
            /\ voidCredit(solverOf[i], finalizeInfo[i].creditAtoms)
            /\ makeBondClaimable(i, Treasury)
       ELSE /\ makeBondClaimable(i, solverOf[i])
            /\ UNCHANGED <<creditRecoveryEndsAt, ledgerVars>>
    /\ UNCHANGED <<commitVars, revealVars, windowVars, openSubmissionCount,
                   revealedSubmissionCount, challengedSubmissionCount, finalizeInfo,
                   managerBalance, managerPaused, pauseVars>>

-----------------------------------------------------------------------------
(* Hooks, callable by the challenge manager only. *)

markChallenged(i) ==
    /\ status[i] = "Revealed"
    /\ ~objectiveCleared[i]
    /\ now < challengeEndsAt[i]
    /\ status' = [status EXCEPT ![i] = "Challenged"]
    /\ revealedSubmissionCount' = revealedSubmissionCount - 1
    /\ challengedSubmissionCount' = challengedSubmissionCount + 1
    /\ UNCHANGED <<commitVars, revealVars, windowVars, openSubmissionCount,
                   frontierVars, bondVars, managerBalance, managerPaused, pauseVars>>

(* A dispute of i ends without a challenger win: i is Revealed again until
   `deadline', unless an earlier commit of its CID was revealed meanwhile. *)
returnToRevealed(i, deadline, cleared) ==
    IF ~hasPriority(i)
    THEN /\ reject(i, solverOf[i])
         /\ UNCHANGED <<revealedSubmissionCount, windowVars>>
    ELSE /\ status' = [status EXCEPT ![i] = "Revealed"]
         /\ revealedSubmissionCount' = revealedSubmissionCount + 1
         /\ challengeEndsAt' = [challengeEndsAt EXCEPT ![i] = deadline]
         /\ objectiveCleared' = [objectiveCleared EXCEPT ![i] = @ \/ cleared]
         /\ UNCHANGED <<bondVars, openSubmissionCount>>

leaveChallenged(i) ==
    /\ status[i] = "Challenged"
    /\ challengedSubmissionCount' = challengedSubmissionCount - 1
    /\ UNCHANGED <<commitVars, revealVars, frontierVars, managerBalance,
                   managerPaused, pauseVars>>

rejectForChallenger(i, beneficiary) ==
    /\ beneficiary # NoOne
    /\ reject(i, beneficiary)
    /\ UNCHANGED <<revealedSubmissionCount, windowVars>>

resolveChallenge(i, challengerWins, beneficiary) ==
    /\ leaveChallenged(i)
    /\ IF challengerWins THEN rejectForChallenger(i, beneficiary)
                         ELSE returnToRevealed(i, boundedRearmDeadline(i), FALSE)

cancelChallenge(i) ==
    /\ leaveChallenged(i)
    /\ returnToRevealed(i, boundedRearmDeadline(i), FALSE)

resolveObjectiveChallenge(i, challengerWins, beneficiary) ==
    /\ leaveChallenged(i)
    /\ IF challengerWins THEN rejectForChallenger(i, beneficiary)
                         ELSE returnToRevealed(i, now, TRUE)
=============================================================================
