----------------------------- MODULE Settlement -----------------------------
(***************************************************************************)
(* The money side of a board: the pool, the ledger and the funding gate,   *)
(* composed with what they rely on from the credit recorder.  The recorder *)
(* is abstract here: once funding is armed it may record a credit for any  *)
(* solver, void one, or let the close guard pass at any moment.  Board.tla *)
(* refines this specification with the real submission and challenge       *)
(* managers in the recorder's place.                                       *)
(***************************************************************************)
EXTENDS BountyPool, Functions

CONSTANT CreditAmounts      \* marginal credits the recorder may report

ASSUME CreditAssumption == CreditAmounts \subseteq Nat

settlementVars == <<now, ledgerVars, gateVars, poolVars>>

SettlementInit ==
    /\ now = 0
    /\ LedgerInit
    /\ GateInit
    /\ PoolInit

Tick ==
    /\ now < MaxTime
    /\ now' = now + 1

(* The funding ceremony: signatures, authorization, cancel, arm. *)
GateStep ==
    \/ \E message \in Messages : sign(message)
    \/ \E digest \in Digests :
         \/ \E expiresAt \in AuthorizationExpiries, nonce \in 0..MaxNonce :
              authorizeFunding(digest, expiresAt, nonce)
         \/ cancelFundingAuthorization(digest)
         \/ armFunding(digest)

(* Steps that leave the ledger alone. *)
PoolStep ==
    \/ freeze
    \/ \E accepting \in AcceptingChoices : setAcceptingFunds(accepting)
    \/ \E sponsor \in Actors, value \in FundingAmounts : fund(sponsor, value)
    \/ \E value \in ForcedAmounts : forceEth(value)
    \/ \E sponsor \in Actors : sponsorRefundTo(sponsor)
    \/ claimFees
    \/ \E amount \in 1..forcedEthAvailable : recoverForcedEth(amount)

(* Steps of the pool and the ledger together. *)
ClaimStep ==
    \/ \E solver \in Actors : claimTo(solver)
    \/ \E solver \in Actors : donateClaimToPool(solver)
    \/ sweepRollover

(* What the credit recorder may do to the ledger. *)
RecorderStep ==
    \/ \E solver \in Actors, atoms \in CreditAmounts :
         fundingArmed /\ recordCredit(solver, atoms)
    \/ \E solver \in Actors, atoms \in CreditAmounts : voidCredit(solver, atoms)
    \/ close(0, FALSE, 0, funded)

SettlementNext ==
    \/ Tick /\ UNCHANGED <<ledgerVars, gateVars, poolVars>>
    \/ GateStep /\ UNCHANGED <<now, ledgerVars, poolVars>>
    \/ PoolStep /\ UNCHANGED <<now, ledgerVars, gateVars>>
    \/ ClaimStep /\ UNCHANGED <<now, gateVars>>
    \/ RecorderStep /\ UNCHANGED <<now, gateVars, poolVars>>
    \/ \E paused \in BOOLEAN :
         ledgerSetPausedNewActions(paused) /\ UNCHANGED <<now, gateVars, poolVars>>

SettlementSpec == SettlementInit /\ [][SettlementNext]_settlementVars

(* Time passes; the sweep and the treasury's fee pull are open to anyone, and
   each sponsor pulls its own refund. *)
SettlementFairness ==
    /\ WF_settlementVars(Tick /\ UNCHANGED <<ledgerVars, gateVars, poolVars>>)
    /\ WF_settlementVars(sweepRollover /\ UNCHANGED <<now, gateVars>>)
    /\ WF_settlementVars(claimFees /\ UNCHANGED <<now, ledgerVars, gateVars>>)
    /\ \A sponsor \in Actors :
         WF_settlementVars(sponsorRefundTo(sponsor) /\ UNCHANGED <<now, ledgerVars, gateVars>>)

FairSettlementSpec == SettlementSpec /\ SettlementFairness

-----------------------------------------------------------------------------
(* Every counter of the pool and the ledger stays a natural number: no fee,
   claim, void or refund makes a uint256 underflow. *)
SettlementTypeOK == LedgerTypeOK /\ GateTypeOK /\ PoolTypeOK

(* At every moment the pool holds enough accounted ETH for every solver's
   outstanding gross award and for every fee accrued and not yet pulled,
   whatever the order of claims, donations, fee pulls and the sweep, and however
   the entitlements were rounded (finalEntitlement, _claimTo, payRollover). *)
AwardsCovered ==
    SumFunction([s \in Actors |-> claimable(s)]) + accruedFeeBalance <= accountedBalance

(* Until a positive-credit close, every sponsor could be repaid in full: the
   accounted balance is exactly the sum of the recorded principals. *)
SponsorsCovered ==
    ~positiveCreditClose => accountedBalance = SumFunction(sponsorshipOf)

(* The reconstructable identities of docs/ECONOMIC_STATE_MACHINE.md, and the
   agreement of the pool's claim counters with the ledger's. *)
BooksBalance ==
    /\ accountedBalance = totalFunded - totalClaimed - totalFeePaid
                          - totalSponsorRefunded - totalRolloverPaid
    /\ totalGrossClaimed = totalClaimed + totalFeePaid + accruedFeeBalance
    /\ totalFeeAccrued = totalFeePaid + accruedFeeBalance
    /\ ledgerGrossClaimed = totalGrossClaimed
    /\ ledgerFeeAccrued = totalFeeAccrued

(* Custody: the contract's ETH covers what it accounts for, so recovering
   forced ETH never takes a sponsor's, a solver's or the treasury's money. *)
CustodyCovered == accountedBalance <= rawBalance

(* The two closing modes exclude each other for good: no sponsor is refunded on
   a board that paid a solver or rolled over, and the reverse. *)
ModesExclusive ==
    /\ totalSponsorRefunded > 0 => totalGrossClaimed = 0 /\ totalRolloverPaid = 0
    /\ totalSponsorRefunded > 0 => sponsorRefundsEnabled
    /\ totalGrossClaimed > 0 \/ totalRolloverPaid > 0 => positiveCreditClose

(* A close is irrevocable: denominator, shares and the distributed balance stay
   what they were, and no new principal enters. *)
CloseIsFinal ==
    [][closed => /\ closed'
                 /\ UNCHANGED <<totalCreditAtoms, creditAtomsOf, closedAt,
                                closedPoolBalance, totalFunded>>]_settlementVars

(* Credit, and ETH in the pool, exist only after funding was armed. *)
PaidOnlyWhenArmed ==
    totalCreditAtoms > 0 \/ totalFunded > 0 => fundingArmed

(* The money of a board: books, custody and closing modes at once, and no paid board
   without the signed arming. *)
MoneySafe == BooksBalance /\ CustodyCovered /\ ModesExclusive /\ PaidOnlyWhenArmed

(* Nothing is stranded: after a close every accounted wei leaves the pool, the
   rounding dust and the unclaimed awards included (sweepRollover).  The bound
   leaves out closes too late for the bounded clock to reach the sweep. *)
NothingStranded == closed /\ claimDeadline < MaxTime ~> accountedBalance = 0
=============================================================================
