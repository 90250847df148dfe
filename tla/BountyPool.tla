----------------------------- MODULE BountyPool -----------------------------
(***************************************************************************)
(* P42BountyPool: the escrow of one problem.  It is bound to the ledger    *)
(* above and to the funding gate of the submission manager; the wiring     *)
(* (setLedger, setSubmissionManager, setRegistry, the ledger's             *)
(* setCreditRecorder and setRolloverDestination) is done before Init.      *)
(* Each operation constrains exactly `poolVars' and, where it calls the    *)
(* ledger, `ledgerVars'.                                                   *)
(***************************************************************************)
EXTENDS FundingAuthorization

CONSTANTS
    fundingCap,
    FrozenAtStart,      \* whether a run starts with the registry entry frozen
    AcceptingChoices,   \* values the owner gives acceptingFunds in a run
    FundingAmounts,     \* ETH values a sponsor may send
    ForcedAmounts,      \* ETH values that may be forced into the contract
    MaxForcedEth        \* bound on the ETH ever forced in, for TLC only

ASSUME PoolAssumption ==
    /\ fundingCap \in Nat \ {0}
    /\ FrozenAtStart \in BOOLEAN /\ AcceptingChoices \subseteq BOOLEAN
    /\ FundingAmounts \subseteq Nat
    /\ ForcedAmounts \subseteq Nat
    /\ MaxForcedEth \in Nat

VARIABLES
    acceptingFunds,
    explicitlyFrozen,        \* the registry's freeze flag for this problem
    rawBalance,              \* address(pool).balance
    accountedBalance, sponsorshipOf,
    everFunded, firstFundedAt,
    totalFunded, totalClaimed, totalGrossClaimed, totalWinningsDonated,
    totalFeeAccrued, totalFeePaid, accruedFeeBalance,
    totalSponsorRefunded, totalRolloverPaid, totalForcedEthRecovered

poolGateVars == <<acceptingFunds, explicitlyFrozen>>
poolFundVars == <<sponsorshipOf, everFunded, firstFundedAt, totalFunded, totalSponsorRefunded>>
poolClaimVars == <<totalClaimed, totalGrossClaimed, totalWinningsDonated,
                   totalFeeAccrued>>
poolFeeVars == <<totalFeePaid, accruedFeeBalance>>
poolOutVars == <<totalRolloverPaid, totalForcedEthRecovered>>
balanceVars == <<rawBalance, accountedBalance>>
poolVars == <<poolGateVars, poolFundVars, poolClaimVars, poolFeeVars,
              poolOutVars, balanceVars>>

PoolInit ==
    /\ acceptingFunds = FALSE /\ explicitlyFrozen = FrozenAtStart
    /\ rawBalance = 0 /\ accountedBalance = 0
    /\ sponsorshipOf = [a \in Actors |-> 0]
    /\ everFunded = FALSE /\ firstFundedAt = 0
    /\ totalFunded = 0 /\ totalClaimed = 0 /\ totalGrossClaimed = 0
    /\ totalWinningsDonated = 0
    /\ totalFeeAccrued = 0 /\ totalFeePaid = 0 /\ accruedFeeBalance = 0
    /\ totalSponsorRefunded = 0 /\ totalRolloverPaid = 0
    /\ totalForcedEthRecovered = 0

PoolTypeOK ==
    /\ acceptingFunds \in BOOLEAN /\ explicitlyFrozen \in BOOLEAN
    /\ rawBalance \in Nat /\ accountedBalance \in Nat
    /\ sponsorshipOf \in [Actors -> Nat]
    /\ everFunded \in BOOLEAN /\ firstFundedAt \in Nat
    /\ totalFunded \in Nat /\ totalClaimed \in Nat
    /\ totalGrossClaimed \in Nat /\ totalWinningsDonated \in Nat
    /\ totalFeeAccrued \in Nat /\ totalFeePaid \in Nat
    /\ accruedFeeBalance \in Nat
    /\ totalSponsorRefunded \in Nat /\ totalRolloverPaid \in Nat
    /\ totalForcedEthRecovered \in Nat

-----------------------------------------------------------------------------
funded == accountedBalance

forcedEthAvailable ==
    IF rawBalance > accountedBalance THEN rawBalance - accountedBalance ELSE 0

rolloverBalance == accountedBalance - accruedFeeBalance

(* debitAccounted reverts on underflow, then the ETH leaves the contract. *)
payOut(amount) ==
    /\ amount <= accountedBalance
    /\ accountedBalance' = accountedBalance - amount
    /\ rawBalance' = rawBalance - amount

-----------------------------------------------------------------------------
(* P42ProblemRegistry.freeze, by the owner. *)
freeze ==
    /\ ~explicitlyFrozen
    /\ explicitlyFrozen' = TRUE
    /\ UNCHANGED <<acceptingFunds, poolFundVars, poolClaimVars, poolFeeVars,
                   poolOutVars, balanceVars>>

setAcceptingFunds(accepting) ==
    /\ accepting => /\ now <= fundingDeadline
                    /\ explicitlyFrozen
                    /\ fundingArmed
                    /\ ObjectiveProofsActive
                    /\ now <= fundingAuthorizationExpiresAt
    /\ acceptingFunds' = accepting
    /\ UNCHANGED <<explicitlyFrozen, poolFundVars, poolClaimVars, poolFeeVars,
                   poolOutVars, balanceVars>>

(* fund, fundFor and receive: `sponsor' is credited with the principal. *)
fund(sponsor, value) ==
    /\ value > 0
    /\ fundingArmed /\ ObjectiveProofsActive
    /\ acceptingFunds /\ explicitlyFrozen
    /\ ~closed
    /\ now <= fundingAuthorizationExpiresAt
    /\ now <= fundingDeadline
    /\ value <= fundingCap - accountedBalance
    /\ accountedBalance' = accountedBalance + value
    /\ rawBalance' = rawBalance + value
    /\ sponsorshipOf' = [sponsorshipOf EXCEPT ![sponsor] = @ + value]
    /\ everFunded' = TRUE
    /\ firstFundedAt' = IF everFunded THEN firstFundedAt ELSE now
    /\ totalFunded' = totalFunded + value
    /\ UNCHANGED <<poolGateVars, poolClaimVars, poolFeeVars, poolOutVars,
                   totalSponsorRefunded>>

(* ETH that reaches the contract outside fund (a selfdestruct, a coinbase). *)
forceEth(value) ==
    /\ forcedEthAvailable + totalForcedEthRecovered + value <= MaxForcedEth
    /\ rawBalance' = rawBalance + value
    /\ UNCHANGED <<poolGateVars, poolFundVars, poolClaimVars, poolFeeVars,
                   poolOutVars, accountedBalance>>

(* claimTo and donateClaimToPool settle the caller's award the same way; the
   donation sends the net amount to another board's pool. *)
settleClaim(solver, donated) ==
    /\ claimable(solver) # 0
    /\ consumeClaim(solver)
    /\ LET grossAmount == claimable(solver)
           feeAmount   == feeOf(grossAmount)
           net         == grossAmount - feeAmount
       IN /\ payOut(net)
          /\ totalGrossClaimed' = totalGrossClaimed + grossAmount
          /\ totalClaimed' = totalClaimed + net
          /\ totalFeeAccrued' = totalFeeAccrued + feeAmount
          /\ accruedFeeBalance' = accruedFeeBalance + feeAmount
          /\ totalWinningsDonated' =
               IF donated THEN totalWinningsDonated + net ELSE totalWinningsDonated
    /\ UNCHANGED <<poolGateVars, poolFundVars, poolOutVars, totalFeePaid>>

claimTo(solver) == settleClaim(solver, FALSE)

donateClaimToPool(solver) == settleClaim(solver, TRUE)

sponsorRefundTo(sponsor) ==
    /\ sponsorRefundsEnabled
    /\ sponsorshipOf[sponsor] # 0
    /\ sponsorshipOf' = [sponsorshipOf EXCEPT ![sponsor] = 0]
    /\ payOut(sponsorshipOf[sponsor])
    /\ totalSponsorRefunded' = totalSponsorRefunded + sponsorshipOf[sponsor]
    /\ UNCHANGED <<poolGateVars, poolClaimVars, poolFeeVars, poolOutVars, everFunded,
                   firstFundedAt, totalFunded>>

claimFees_keepsAccrual ==
    /\ accruedFeeBalance # 0
    /\ payOut(accruedFeeBalance)
    /\ totalFeePaid' = totalFeePaid + accruedFeeBalance
    /\ UNCHANGED <<poolGateVars, poolFundVars, poolClaimVars, poolOutVars, accruedFeeBalance>>

(* Anyone may call claimFees; the amount goes to the treasury. *)
claimFees ==
    /\ accruedFeeBalance # 0
    /\ payOut(accruedFeeBalance)
    /\ accruedFeeBalance' = 0
    /\ totalFeePaid' = totalFeePaid + accruedFeeBalance
    /\ UNCHANGED <<poolGateVars, poolFundVars, poolClaimVars, poolOutVars>>

recoverForcedEth(amount) ==
    /\ amount \in 1..forcedEthAvailable
    /\ closed
    /\ totalForcedEthRecovered' = totalForcedEthRecovered + amount
    /\ rawBalance' = rawBalance - amount
    /\ UNCHANGED <<poolGateVars, poolFundVars, poolClaimVars, poolFeeVars,
                   totalRolloverPaid, accountedBalance>>

(* P42PayoutLedger.sweepRollover, which calls payRollover on this pool; the
   subtraction in rolloverBalance() is checked and reverts on underflow. *)
sweepRollover ==
    /\ markRolloverSwept
    /\ accruedFeeBalance <= accountedBalance
    /\ payOut(rolloverBalance)
    /\ totalRolloverPaid' = totalRolloverPaid + rolloverBalance
    /\ UNCHANGED <<poolGateVars, poolFundVars, poolClaimVars, poolFeeVars,
                   totalForcedEthRecovered>>
=============================================================================
