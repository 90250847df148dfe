---------------------------- MODULE PayoutLedger ----------------------------
(***************************************************************************)
(* P42PayoutLedger: final-denominator credit accounting of one problem     *)
(* pool.  Every operation below constrains exactly `ledgerVars'; the       *)
(* modules that call the ledger conjoin it with their own assignments, as  *)
(* a Solidity call executes inside its caller's transaction.  What the     *)
(* ledger reads from another contract (the pool's balance, the credit      *)
(* recorder's close guard) is a parameter.                                 *)
(***************************************************************************)
EXTENDS Integers, FiniteSets

CONSTANTS
    Actors,                   \* solvers, challengers and sponsors
    Treasury,                 \* the fee and forfeiture account
    feeBps,
    earliestCloseTimestamp,   \* a scheduling promise; close waits for closeByTimestamp
    closeByTimestamp,
    MIN_COMPETITION_SECONDS,
    CLAIM_DEADLINE_SECONDS,
    MAX_TOTAL_CREDIT_ATOMS,
    MaxTime                   \* bound on the clock, for TLC only

ASSUME LedgerAssumption ==
    /\ IsFiniteSet(Actors)     \* addresses have 160 bits
    /\ Treasury \notin Actors
    /\ feeBps \in 0..250
    /\ closeByTimestamp \in Nat
    /\ MIN_COMPETITION_SECONDS \in 0..closeByTimestamp
    /\ earliestCloseTimestamp \in MIN_COMPETITION_SECONDS..closeByTimestamp
    /\ CLAIM_DEADLINE_SECONDS \in Nat
    /\ MAX_TOTAL_CREDIT_ATOMS \in Nat
    /\ MaxTime \in Nat

VARIABLES
    now,                \* block.timestamp; one Tick is one block
    closed, closedAt, closedPoolBalance,
    ledgerPaused,       \* pausedNewActions
    totalCreditAtoms, creditAtomsOf,
    claimedWeiOf, ledgerGrossClaimed, ledgerFeeAccrued,
    rolloverSwept

creditVars == <<totalCreditAtoms, creditAtomsOf>>
closeVars  == <<closed, closedAt, closedPoolBalance>>
claimVars  == <<claimedWeiOf, ledgerGrossClaimed, ledgerFeeAccrued, rolloverSwept>>
ledgerVars == <<creditVars, closeVars, claimVars, ledgerPaused>>

(* A mutant: entitlements rounded up. *)
mulDiv_roundedUp(x, y, denominator) == (x * y + denominator - 1) \div denominator

(* P42Math.mulDiv: the 512-bit product divided exactly, rounded down. *)
mulDiv(x, y, denominator) == (x * y) \div denominator

LedgerInit ==
    /\ closed = FALSE /\ closedAt = 0 /\ closedPoolBalance = 0
    /\ ledgerPaused = FALSE
    /\ totalCreditAtoms = 0
    /\ creditAtomsOf = [a \in Actors |-> 0]
    /\ claimedWeiOf = [a \in Actors |-> 0]
    /\ ledgerGrossClaimed = 0 /\ ledgerFeeAccrued = 0
    /\ rolloverSwept = FALSE

LedgerTypeOK ==
    /\ now \in Nat
    /\ closed \in BOOLEAN /\ closedAt \in Nat /\ closedPoolBalance \in Nat
    /\ ledgerPaused \in BOOLEAN
    /\ totalCreditAtoms \in Nat
    /\ creditAtomsOf \in [Actors -> Nat]
    /\ claimedWeiOf \in [Actors -> Nat]
    /\ ledgerGrossClaimed \in Nat /\ ledgerFeeAccrued \in Nat
    /\ rolloverSwept \in BOOLEAN

-----------------------------------------------------------------------------
(* Views. *)

fundingDeadline == closeByTimestamp - MIN_COMPETITION_SECONDS

effectiveEarliestCloseTimestamp(poolEverFunded, poolFirstFundedAt) ==
    IF poolEverFunded /\ poolFirstFundedAt + MIN_COMPETITION_SECONDS > earliestCloseTimestamp
    THEN poolFirstFundedAt + MIN_COMPETITION_SECONDS
    ELSE earliestCloseTimestamp

positiveCreditClose == closed /\ totalCreditAtoms # 0

sponsorRefundsEnabled == closed /\ totalCreditAtoms = 0

claimDeadline == IF positiveCreditClose THEN closedAt + CLAIM_DEADLINE_SECONDS ELSE 0

finalEntitlement(solver) ==
    IF positiveCreditClose
    THEN mulDiv(closedPoolBalance, creditAtomsOf[solver], totalCreditAtoms)
    ELSE 0

claimable(solver) ==
    IF now > claimDeadline \/ finalEntitlement(solver) <= claimedWeiOf[solver]
    THEN 0
    ELSE finalEntitlement(solver) - claimedWeiOf[solver]

feeOf(grossAmount) == mulDiv(grossAmount, feeBps, 10000)

withinCreditBound(solver, atoms) ==
    /\ atoms <= MAX_TOTAL_CREDIT_ATOMS - totalCreditAtoms
    /\ atoms <= MAX_TOTAL_CREDIT_ATOMS - creditAtomsOf[solver]

provisionalEntitlement(solver, additionalAtoms, poolFunded) ==
    IF totalCreditAtoms + additionalAtoms = 0 THEN 0
    ELSE mulDiv(poolFunded, creditAtomsOf[solver] + additionalAtoms,
                totalCreditAtoms + additionalAtoms)

-----------------------------------------------------------------------------
(* Operations. *)

ledgerSetPausedNewActions(paused) ==
    /\ ledgerPaused' = paused
    /\ UNCHANGED <<creditVars, closeVars, claimVars>>

(* Called by the credit recorder, the submission manager, at finalize. *)
recordCredit(solver, atoms) ==
    /\ ~closed /\ ~ledgerPaused
    /\ atoms # 0
    /\ withinCreditBound(solver, atoms)
    /\ totalCreditAtoms' = totalCreditAtoms + atoms
    /\ creditAtomsOf' = [creditAtomsOf EXCEPT ![solver] = @ + atoms]
    /\ UNCHANGED <<closeVars, claimVars, ledgerPaused>>

(* Called by the credit recorder at voidFinalize. *)
voidCredit(solver, atoms) ==
    /\ ~closed
    /\ atoms # 0
    /\ creditAtomsOf[solver] >= atoms /\ totalCreditAtoms >= atoms
    /\ creditAtomsOf' = [creditAtomsOf EXCEPT ![solver] = @ - atoms]
    /\ totalCreditAtoms' = totalCreditAtoms - atoms
    /\ UNCHANGED <<closeVars, claimVars, ledgerPaused>>

(* `openCount', `fullPause' and `recoveryEndsAt' are the close guard the
   credit recorder answers; `poolFunded' is the pool's accounted balance. *)
close(openCount, fullPause, recoveryEndsAt, poolFunded) ==
    /\ ~closed
    /\ now >= closeByTimestamp
    /\ openCount = 0
    /\ ~fullPause
    /\ now >= recoveryEndsAt
    /\ closed' = TRUE /\ closedAt' = now
    /\ closedPoolBalance' = poolFunded
    /\ UNCHANGED <<creditVars, claimVars, ledgerPaused>>

(* Called by the pool; the caller reads claimable(solver) and its fee. *)
consumeClaim(solver) ==
    /\ positiveCreditClose
    /\ now <= claimDeadline
    /\ claimedWeiOf' = [claimedWeiOf EXCEPT ![solver] = @ + claimable(solver)]
    /\ ledgerGrossClaimed' = ledgerGrossClaimed + claimable(solver)
    /\ ledgerFeeAccrued' = ledgerFeeAccrued + feeOf(claimable(solver))
    /\ UNCHANGED <<creditVars, closeVars, ledgerPaused, rolloverSwept>>

(* The ledger half of sweepRollover; the pool pays the amount out. *)
markRolloverSwept ==
    /\ positiveCreditClose
    /\ now > claimDeadline
    /\ ~rolloverSwept
    /\ rolloverSwept' = TRUE
    /\ UNCHANGED <<creditVars, closeVars, ledgerPaused,
                   claimedWeiOf, ledgerGrossClaimed, ledgerFeeAccrued>>
=============================================================================
