---------------------------- MODULE Board_proofs ----------------------------
(***************************************************************************)
(* First the money side of a board, Settlement, for every set of actors,   *)
(* every fee rate up to the constructor's limit and every schedule.  Then  *)
(* the board, which implements Settlement: the real submission and         *)
(* challenge managers, under every interleaving, ask of the pool and the   *)
(* ledger only what the abstract credit recorder of Settlement may ask.    *)
(* Whatever is proved of Settlement therefore holds of the whole board.    *)
(* Then the life of a submission and its disputes, for any windows the     *)
(* constructors accept: the two managers agree on every dispute, every     *)
(* dispute clock stays within the horizon fixed at reveal, nobody can keep *)
(* a dispute stuck, and a copied solution never stands beside the          *)
(* original.  Then the counters that gate close() and voidFinalize() count *)
(* what they stand for, an outcome is final, and a paid submission stays   *)
(* bonded.  Last, what is said of sums: awards, principals, bonds, credits *)
(* and the score frontier, for any number of actors and submissions.       *)
(***************************************************************************)
EXTENDS Board, FiniteSetTheorems, TLAPS

(* A fee is a natural number that never exceeds the gross award it is taken
   from, because the constructor limits feeBps to 250 (consumeClaim). *)
LEMMA FeeWithinGross ==
    ASSUME NEW g \in Nat
    PROVE  feeOf(g) \in Nat /\ feeOf(g) <= g
<1>1. feeBps \in 0..250
  BY LedgerAssumption
<1>2. g * feeBps \in Nat /\ g * feeBps <= g * 10000
  BY <1>1, SMT
<1>3. \A x \in Nat : x <= g * 10000 => x \div 10000 \in Nat /\ x \div 10000 <= g
  BY SMT
<1>4. QED
  BY <1>2, <1>3 DEF feeOf, mulDiv

(* An award, and what is left to claim of it, is a natural number. *)
LEMMA ClaimableNat ==
    ASSUME LedgerTypeOK, NEW s \in Actors
    PROVE  claimable(s) \in Nat
<1>1. \A x, y \in Nat : \A d \in Nat \ {0} : mulDiv(x, y, d) \in Nat
  <2>1. \A x, y \in Nat : x * y \in Nat
    BY SMT
  <2>2. \A z \in Nat : \A d \in Nat \ {0} : z \div d \in Nat
    BY SMT
  <2>3. QED
    BY <2>1, <2>2 DEF mulDiv
<1>2. finalEntitlement(s) \in Nat
  BY <1>1 DEF finalEntitlement, positiveCreditClose, LedgerTypeOK
<1>3. QED
  BY <1>2 DEF claimable, LedgerTypeOK

-----------------------------------------------------------------------------
(* The inductive invariant: types, custody (without which rawBalance could go
   negative), the identities of the books, the closing mode each payment
   counter implies, and the arming that precedes any money. *)
ModeOfPayments ==
    /\ totalSponsorRefunded > 0 => sponsorRefundsEnabled
    /\ totalGrossClaimed > 0 \/ totalRolloverPaid > 0 => positiveCreditClose

SettlementInv ==
    /\ SettlementTypeOK
    /\ CustodyCovered
    /\ BooksBalance
    /\ ModeOfPayments
    /\ PaidOnlyWhenArmed

(* The deployed board satisfies the inductive invariant, from whichever gate
   state a run starts. *)
LEMMA SettlementInvInit == SettlementInit => SettlementInv
<1> SUFFICES ASSUME SettlementInit PROVE SettlementInv
  OBVIOUS
<1> USE DEF SettlementInit, LedgerInit, GateInit, PoolInit
<1>1. LedgerTypeOK
  BY DEF LedgerTypeOK
<1>2. GateTypeOK
  <2>1. \A digest \in Digests, expiresAt \in AuthorizationExpiries :
          signatures(digest, expiresAt, 0) \subseteq Messages
    <3>1. 0 \in 0..MaxNonce
      BY GateAssumption
    <3>2. QED
      BY <3>1 DEF signatures, Messages
  <2>2. {} \subseteq Messages
    OBVIOUS
  <2>3. signed \subseteq Messages
    BY <2>1, <2>2, Zenon
  <2>4. fundingArmed \in BOOLEAN /\ fundingAuthorizationDigest \in Digests \cup {NoDigest}
    BY Zenon
  <2>5. /\ authorizedFundingDigest \in Digests \cup {NoDigest}
        /\ fundingAuthorizationExpiresAt \in Nat
        /\ fundingAuthorizationNonce \in Nat
    BY GateAssumption
  <2>6. QED
    BY <2>3, <2>4, <2>5 DEF GateTypeOK
<1>3. PoolTypeOK
  BY PoolAssumption DEF PoolTypeOK
<1>4. QED
  BY <1>1, <1>2, <1>3 DEF SettlementInv, SettlementTypeOK, CustodyCovered, BooksBalance,
     ModeOfPayments, PaidOnlyWhenArmed

(* The funding ceremony leaves the money alone and keeps the gate's types. *)
LEMMA GatePreserves ==
    SettlementInv /\ GateStep /\ UNCHANGED <<now, ledgerVars, poolVars>> => SettlementInv'
<1> SUFFICES ASSUME SettlementInv, GateStep, UNCHANGED <<now, ledgerVars, poolVars>>
             PROVE  SettlementInv'
  OBVIOUS
<1> USE GateAssumption DEF SettlementInv, SettlementTypeOK, GateTypeOK
<1>1. GateTypeOK' /\ (fundingArmed => fundingArmed')
  <2>1. ASSUME NEW message \in Messages, sign(message)
        PROVE  GateTypeOK' /\ (fundingArmed => fundingArmed')
    BY <2>1 DEF sign
  <2>2. ASSUME NEW digest \in Digests, NEW expiresAt \in AuthorizationExpiries,
               NEW nonce \in 0..MaxNonce, authorizeFunding(digest, expiresAt, nonce)
        PROVE  GateTypeOK' /\ (fundingArmed => fundingArmed')
    BY <2>2 DEF authorizeFunding
  <2>3. ASSUME NEW digest \in Digests, cancelFundingAuthorization(digest)
        PROVE  GateTypeOK' /\ (fundingArmed => fundingArmed')
    BY <2>3 DEF cancelFundingAuthorization
  <2>4. ASSUME NEW digest \in Digests, armFunding(digest)
        PROVE  GateTypeOK' /\ (fundingArmed => fundingArmed')
    BY <2>4 DEF armFunding
  <2>5. QED
    BY <2>1, <2>2, <2>3, <2>4 DEF GateStep
<1>2. QED
  BY <1>1 DEF SettlementInv, SettlementTypeOK, LedgerTypeOK, PoolTypeOK, CustodyCovered,
     BooksBalance, ModeOfPayments, PaidOnlyWhenArmed, positiveCreditClose, sponsorRefundsEnabled,
     ledgerVars, creditVars, closeVars, claimVars, poolVars, poolGateVars, poolFundVars,
     poolClaimVars, poolFeeVars, poolOutVars, balanceVars

(* What the pool does alone: freeze, the funding switch, funding, forced ETH,
   refunds, fee pulls and the recovery of forced ETH. *)
LEMMA PoolPreserves ==
    SettlementInv /\ PoolStep /\ UNCHANGED <<now, ledgerVars, gateVars>> => SettlementInv'
<1> SUFFICES ASSUME SettlementInv, PoolStep, UNCHANGED <<now, ledgerVars, gateVars>>
             PROVE  SettlementInv'
  OBVIOUS
<1>1. LedgerTypeOK' /\ GateTypeOK'
  BY DEF SettlementInv, SettlementTypeOK, LedgerTypeOK, GateTypeOK, Messages,
     ledgerVars, creditVars, closeVars, claimVars, gateVars
<1> DEFINE PoolGoal == PoolTypeOK /\ CustodyCovered /\ BooksBalance /\ ModeOfPayments /\ PaidOnlyWhenArmed
<1> USE DEF SettlementInv, SettlementTypeOK, LedgerTypeOK, PoolTypeOK, CustodyCovered, BooksBalance,
        ModeOfPayments, PaidOnlyWhenArmed, positiveCreditClose, sponsorRefundsEnabled,
        ledgerVars, creditVars, closeVars, claimVars, gateVars,
        poolGateVars, poolFundVars, poolClaimVars, poolFeeVars, poolOutVars, balanceVars
<1>2. CASE freeze
  BY <1>1, <1>2 DEF freeze
<1>3. ASSUME NEW accepting \in AcceptingChoices, setAcceptingFunds(accepting)
      PROVE  PoolGoal'
  BY <1>3, PoolAssumption DEF setAcceptingFunds
<1>4. ASSUME NEW sponsor \in Actors, NEW value \in FundingAmounts, fund(sponsor, value)
      PROVE  PoolGoal'
  BY <1>4, PoolAssumption DEF fund
<1>5. ASSUME NEW value \in ForcedAmounts, forceEth(value)
      PROVE  PoolGoal'
  BY <1>5, PoolAssumption DEF forceEth
<1>6. ASSUME NEW sponsor \in Actors, sponsorRefundTo(sponsor)
      PROVE  PoolGoal'
  BY <1>6 DEF sponsorRefundTo, payOut
<1>7. ASSUME claimFees
      PROVE  PoolGoal'
  BY <1>7 DEF claimFees, payOut
<1>8. ASSUME NEW amount \in 1..forcedEthAvailable, recoverForcedEth(amount)
      PROVE  PoolGoal'
  BY <1>8 DEF recoverForcedEth, forcedEthAvailable
<1>9. QED
  BY <1>1, <1>2, <1>3, <1>4, <1>5, <1>6, <1>7, <1>8 DEF PoolStep

(* A claim or a donation of an award: the pool and the ledger move together. *)
LEMMA ClaimPreserves ==
    SettlementInv /\ ClaimStep /\ UNCHANGED <<now, gateVars>> => SettlementInv'
<1> SUFFICES ASSUME SettlementInv, ClaimStep, UNCHANGED <<now, gateVars>>
             PROVE  SettlementInv'
  OBVIOUS
<1>1. GateTypeOK'
  BY DEF SettlementInv, SettlementTypeOK, GateTypeOK, Messages, gateVars
<1> USE DEF SettlementInv, SettlementTypeOK, LedgerTypeOK, PoolTypeOK, CustodyCovered, BooksBalance,
        ModeOfPayments, PaidOnlyWhenArmed, positiveCreditClose, sponsorRefundsEnabled,
        creditVars, closeVars, claimVars, gateVars,
        poolGateVars, poolFundVars, poolClaimVars, poolFeeVars, poolOutVars, balanceVars
<1>2. ASSUME NEW solver \in Actors, NEW donated \in BOOLEAN, settleClaim(solver, donated)
      PROVE  SettlementInv'
  <2> DEFINE gross == claimable(solver)
             fee == feeOf(gross)
  <2>1. gross \in Nat
    BY ClaimableNat
  <2>2. fee \in Nat /\ fee <= gross
    BY <2>1, FeeWithinGross
  <2> HIDE DEF gross, fee
  <2>3. /\ positiveCreditClose
        /\ claimedWeiOf' = [claimedWeiOf EXCEPT ![solver] = @ + gross]
        /\ ledgerGrossClaimed' = ledgerGrossClaimed + gross
        /\ ledgerFeeAccrued' = ledgerFeeAccrued + fee
        /\ UNCHANGED <<creditVars, closeVars, ledgerPaused, rolloverSwept>>
        /\ gross - fee <= accountedBalance
        /\ accountedBalance' = accountedBalance - (gross - fee)
        /\ rawBalance' = rawBalance - (gross - fee)
        /\ totalGrossClaimed' = totalGrossClaimed + gross
        /\ totalClaimed' = totalClaimed + (gross - fee)
        /\ totalFeeAccrued' = totalFeeAccrued + fee
        /\ accruedFeeBalance' = accruedFeeBalance + fee
        /\ totalWinningsDonated' \in {totalWinningsDonated, totalWinningsDonated + (gross - fee)}
        /\ UNCHANGED <<poolGateVars, poolFundVars, poolOutVars, totalFeePaid>>
    BY <1>2 DEF settleClaim, consumeClaim, payOut, gross, fee
  <2>4. LedgerTypeOK'
    BY <2>1, <2>2, <2>3
  <2>5. PoolTypeOK'
    BY <2>1, <2>2, <2>3
  <2>6. CustodyCovered' /\ BooksBalance'
    BY <2>1, <2>2, <2>3
  <2>7. ModeOfPayments' /\ PaidOnlyWhenArmed'
    BY <2>1, <2>2, <2>3
  <2>8. QED
    BY <1>1, <2>4, <2>5, <2>6, <2>7
<1>3. ASSUME sweepRollover
      PROVE  SettlementInv'
  BY <1>1, <1>3 DEF sweepRollover, markRolloverSwept, payOut, rolloverBalance
<1>4. QED
  BY <1>2, <1>3 DEF ClaimStep, claimTo, donateClaimToPool

(* What the credit recorder does to the ledger: it records and voids credit
   while the ledger is open, and closes it once. *)
LEMMA RecorderPreserves ==
    SettlementInv /\ RecorderStep /\ UNCHANGED <<now, gateVars, poolVars>> => SettlementInv'
<1> SUFFICES ASSUME SettlementInv, RecorderStep, UNCHANGED <<now, gateVars, poolVars>>
             PROVE  SettlementInv'
  OBVIOUS
<1>1. GateTypeOK'
  BY DEF SettlementInv, SettlementTypeOK, GateTypeOK, Messages, gateVars
<1> USE DEF SettlementInv, SettlementTypeOK, LedgerTypeOK, PoolTypeOK, CustodyCovered, BooksBalance,
        ModeOfPayments, PaidOnlyWhenArmed, positiveCreditClose, sponsorRefundsEnabled,
        creditVars, closeVars, claimVars, gateVars, poolVars,
        poolGateVars, poolFundVars, poolClaimVars, poolFeeVars, poolOutVars, balanceVars
<1>2. ASSUME NEW solver \in Actors, NEW atoms \in CreditAmounts, fundingArmed,
             recordCredit(solver, atoms)
      PROVE  SettlementInv'
  BY <1>1, <1>2, CreditAssumption DEF recordCredit
<1>3. ASSUME NEW solver \in Actors, NEW atoms \in CreditAmounts, voidCredit(solver, atoms)
      PROVE  SettlementInv'
  BY <1>1, <1>3, CreditAssumption DEF voidCredit
<1>4. ASSUME close(0, FALSE, 0, funded)
      PROVE  SettlementInv'
  BY <1>1, <1>4 DEF close, funded
<1>5. QED
  BY <1>2, <1>3, <1>4 DEF RecorderStep

(* Every step of the money side, a stutter included, keeps the invariant. *)
LEMMA SettlementInvStep == SettlementInv /\ [SettlementNext]_settlementVars => SettlementInv'
<1> SUFFICES ASSUME SettlementInv, [SettlementNext]_settlementVars
             PROVE  SettlementInv'
  OBVIOUS
<1>1. ASSUME UNCHANGED <<ledgerVars, gateVars, poolVars>>, now' \in Nat
      PROVE  SettlementInv'
  BY <1>1 DEF SettlementInv, SettlementTypeOK, LedgerTypeOK, GateTypeOK, Messages, PoolTypeOK,
     CustodyCovered, BooksBalance, ModeOfPayments, PaidOnlyWhenArmed, positiveCreditClose,
     sponsorRefundsEnabled, ledgerVars, creditVars, closeVars, claimVars, gateVars, poolVars,
     poolGateVars, poolFundVars, poolClaimVars, poolFeeVars, poolOutVars, balanceVars
<1>2. CASE Tick /\ UNCHANGED <<ledgerVars, gateVars, poolVars>>
  <2>1. now' \in Nat
    BY <1>2 DEF Tick, SettlementInv, SettlementTypeOK, LedgerTypeOK
  <2>2. QED
    BY <1>1, <1>2, <2>1
<1>3. ASSUME NEW paused \in BOOLEAN, ledgerSetPausedNewActions(paused),
             UNCHANGED <<now, gateVars, poolVars>>
      PROVE  SettlementInv'
  BY <1>3 DEF ledgerSetPausedNewActions, SettlementInv, SettlementTypeOK, LedgerTypeOK, GateTypeOK,
     Messages, PoolTypeOK, CustodyCovered, BooksBalance, ModeOfPayments, PaidOnlyWhenArmed,
     positiveCreditClose, sponsorRefundsEnabled, creditVars, closeVars, claimVars, gateVars,
     poolVars, poolGateVars, poolFundVars, poolClaimVars, poolFeeVars, poolOutVars, balanceVars
<1>4. CASE UNCHANGED settlementVars
  <2>1. now' \in Nat
    BY <1>4 DEF settlementVars, SettlementInv, SettlementTypeOK, LedgerTypeOK
  <2>2. QED
    BY <1>1, <1>4, <2>1 DEF settlementVars
<1>5. QED
  BY <1>2, <1>3, <1>4, GatePreserves, PoolPreserves, ClaimPreserves, RecorderPreserves
     DEF SettlementNext

(* The inductive invariant holds of every reachable state. *)
THEOREM SettlementInvariant == SettlementSpec => []SettlementInv
<1>1. SettlementInit => SettlementInv
  BY SettlementInvInit
<1>2. SettlementInv /\ [SettlementNext]_settlementVars => SettlementInv'
  BY SettlementInvStep
<1>3. QED
  BY <1>1, <1>2, PTL DEF SettlementSpec

(* No claim, fee pull, void, refund or sweep underflows a counter of the pool
   or the ledger, on a board of any size. *)
THEOREM SettlementTypeCorrect == SettlementSpec => []SettlementTypeOK
<1>1. SettlementInv => SettlementTypeOK
  BY DEF SettlementInv
<1>2. QED
  BY <1>1, SettlementInvariant, PTL

(* The identities of the books hold after every sequence of transactions. *)
THEOREM BooksAlwaysBalance == SettlementSpec => []BooksBalance
<1>1. SettlementInv => BooksBalance
  BY DEF SettlementInv
<1>2. QED
  BY <1>1, SettlementInvariant, PTL

(* Recovering forced ETH never reaches the money the pool accounts for. *)
THEOREM CustodyAlwaysCovered == SettlementSpec => []CustodyCovered
<1>1. SettlementInv => CustodyCovered
  BY DEF SettlementInv
<1>2. QED
  BY <1>1, SettlementInvariant, PTL

(* A board that refunded a sponsor never pays a solver or rolls over, and the
   reverse. *)
THEOREM ModesAlwaysExclusive == SettlementSpec => []ModesExclusive
<1>1. SettlementInv => ModesExclusive
  BY DEF SettlementInv, ModeOfPayments, ModesExclusive, SettlementTypeOK, PoolTypeOK, LedgerTypeOK,
     sponsorRefundsEnabled, positiveCreditClose
<1>2. QED
  BY <1>1, SettlementInvariant, PTL

(* No credit and no principal exists on a board that was never armed. *)
THEOREM PaidOnlyAfterArming == SettlementSpec => []PaidOnlyWhenArmed
<1>1. SettlementInv => PaidOnlyWhenArmed
  BY DEF SettlementInv
<1>2. QED
  BY <1>1, SettlementInvariant, PTL

-----------------------------------------------------------------------------
(* No transaction reopens a closed ledger or changes what a close fixed. *)
THEOREM CloseAlwaysFinal == SettlementSpec => CloseIsFinal
<1> DEFINE Fixed == closed => /\ closed'
                              /\ UNCHANGED <<totalCreditAtoms, creditAtomsOf, closedAt,
                                             closedPoolBalance, totalFunded>>
<1> USE DEF ledgerVars, creditVars, closeVars, poolVars, poolFundVars
<1>1. SettlementNext => Fixed
  <2>1. ASSUME UNCHANGED <<ledgerVars, poolVars>> PROVE Fixed
    BY <2>1
  <2>2. PoolStep /\ UNCHANGED <<now, ledgerVars, gateVars>> => Fixed
    BY DEF PoolStep, freeze, setAcceptingFunds, fund, forceEth, sponsorRefundTo, claimFees, recoverForcedEth
  <2>3. ClaimStep => Fixed
    BY DEF ClaimStep, claimTo, donateClaimToPool, settleClaim, consumeClaim, sweepRollover,
       markRolloverSwept
  <2>4. RecorderStep => Fixed
    BY DEF RecorderStep, recordCredit, voidCredit, close
  <2>5. ASSUME NEW paused \in BOOLEAN, ledgerSetPausedNewActions(paused), UNCHANGED poolVars
        PROVE  Fixed
    BY <2>5 DEF ledgerSetPausedNewActions
  <2>6. QED
    BY <2>1, <2>2, <2>3, <2>4, <2>5 DEF SettlementNext
<1>2. [SettlementNext]_settlementVars => [Fixed]_settlementVars
  BY <1>1
<1>3. QED
  BY <1>2, PTL DEF SettlementSpec, CloseIsFinal

-----------------------------------------------------------------------------
(* On-chain, the gate changes only by an authorization, a cancel or the arming. *)
LEMMA GateMoves ==
    ASSUME [SettlementNext]_settlementVars
    PROVE  \/ UNCHANGED gateVars
           \/ \E message \in Messages : sign(message)
           \/ \E digest \in Digests, expiresAt \in AuthorizationExpiries, nonce \in 0..MaxNonce :
                authorizeFunding(digest, expiresAt, nonce)
           \/ \E digest \in Digests : cancelFundingAuthorization(digest)
           \/ \E digest \in Digests : armFunding(digest)
  BY DEF SettlementNext, settlementVars, GateStep, gateVars

(* The digest that stands, and the one that armed funding, was signed by every
   authority, for any number of authorities, digests and nonces. *)
THEOREM AlwaysArmedBySignatures == SettlementSpec => []ArmedBySignatures
<1> USE DEF ArmedBySignatures
<1>1. SettlementInit => ArmedBySignatures
  <2> SUFFICES ASSUME SettlementInit PROVE ArmedBySignatures
    OBVIOUS
  <2>1. CASE authorizedFundingDigest = NoDigest /\ ~fundingArmed
    BY <2>1
  <2>2. ASSUME NEW digest \in Digests, NEW expiresAt \in AuthorizationExpiries,
               authorizedFundingDigest = digest, fundingAuthorizationExpiresAt = expiresAt,
               fundingAuthorizationNonce = 1, signed = signatures(digest, expiresAt, 0),
               fundingArmed => fundingAuthorizationDigest = digest
        PROVE  ArmedBySignatures
    <3>1. fundingAuthorizationNonce - 1 = 0
      BY <2>2
    <3>2. \A authority \in Authorities :
            [role |-> authority, digest |-> digest, expiresAt |-> expiresAt, nonce |-> 0] \in signed
      BY <2>2 DEF signatures
    <3>3. QED
      BY <2>2, <3>1, <3>2, GateAssumption
  <2>3. QED
    BY <2>1, <2>2, Zenon DEF SettlementInit, GateInit
<1>2. SettlementInv /\ ArmedBySignatures /\ [SettlementNext]_settlementVars => ArmedBySignatures'
  <2> SUFFICES ASSUME SettlementInv, ArmedBySignatures, [SettlementNext]_settlementVars
               PROVE  ArmedBySignatures'
    OBVIOUS
  <2>1. CASE UNCHANGED gateVars
    BY <2>1 DEF gateVars
  <2>2. ASSUME NEW message \in Messages, sign(message) PROVE ArmedBySignatures'
    BY <2>2 DEF sign
  <2>3. ASSUME NEW digest \in Digests, NEW expiresAt \in AuthorizationExpiries,
               NEW nonce \in 0..MaxNonce, authorizeFunding(digest, expiresAt, nonce)
        PROVE  ArmedBySignatures'
    <3>1. nonce \in Nat
      BY GateAssumption
    <3>2. \A authority \in Authorities :
            [role |-> authority, digest |-> digest, expiresAt |-> expiresAt, nonce |-> nonce] \in signed
      BY <2>3 DEF authorizeFunding, signatures
    <3>3. fundingAuthorizationNonce' - 1 = nonce
      BY <2>3, <3>1 DEF authorizeFunding
    <3>4. QED
      BY <2>3, <3>2, <3>3 DEF authorizeFunding
  <2>4. ASSUME NEW digest \in Digests, cancelFundingAuthorization(digest) PROVE ArmedBySignatures'
    BY <2>4 DEF cancelFundingAuthorization
  <2>5. ASSUME NEW digest \in Digests, armFunding(digest) PROVE ArmedBySignatures'
    BY <2>5 DEF armFunding
  <2>6. QED
    BY <2>1, <2>2, <2>3, <2>4, <2>5, GateMoves
<1>3. QED
  BY <1>1, <1>2, SettlementInvariant, PTL DEF SettlementSpec

(* An armed gate never moves again. *)
THEOREM AlwaysArmedForGood == SettlementSpec => ArmedForGood
<1> DEFINE Frozen == fundingArmed => UNCHANGED <<authorizedFundingDigest,
                       fundingAuthorizationExpiresAt, fundingAuthorizationNonce,
                       fundingArmed, fundingAuthorizationDigest>>
<1>1. [SettlementNext]_settlementVars => [Frozen]_gateVars
  BY GateMoves DEF sign, authorizeFunding, cancelFundingAuthorization, armFunding
<1>2. QED
  BY <1>1, PTL DEF SettlementSpec, ArmedForGood

(* No set of signatures authorizes twice: nonces only grow, and each
   authorization uses the one nobody has spent. *)
THEOREM AlwaysSpentOnce == SettlementSpec => SignaturesSpentOnce
<1> DEFINE Spends ==
      /\ fundingAuthorizationNonce' >= fundingAuthorizationNonce
      /\ UNCHANGED fundingAuthorizationNonce
           => UNCHANGED <<authorizedFundingDigest, fundingAuthorizationExpiresAt>>
      /\ authorizedFundingDigest' # NoDigest /\ fundingAuthorizationNonce' # fundingAuthorizationNonce
           => \A authority \in Authorities :
                \E m \in signed : m.role = authority /\ m.nonce = fundingAuthorizationNonce
<1>1. SettlementInv /\ [SettlementNext]_settlementVars => [Spends]_gateVars
  <2> SUFFICES ASSUME SettlementInv, [SettlementNext]_settlementVars
               PROVE  Spends \/ UNCHANGED gateVars
    BY Zenon
  <2>0. fundingAuthorizationNonce \in Nat
    BY DEF SettlementInv, SettlementTypeOK, GateTypeOK
  <2>1. ASSUME NEW message \in Messages, sign(message) PROVE Spends
    BY <2>0, <2>1 DEF sign
  <2>2. ASSUME NEW digest \in Digests, NEW expiresAt \in AuthorizationExpiries,
               NEW nonce \in 0..MaxNonce, authorizeFunding(digest, expiresAt, nonce)
        PROVE  Spends
    <3>1. nonce = fundingAuthorizationNonce /\ fundingAuthorizationNonce' = nonce + 1
      BY <2>2 DEF authorizeFunding, freshNonce
    <3>2. \A authority \in Authorities :
            [role |-> authority, digest |-> digest, expiresAt |-> expiresAt, nonce |-> nonce] \in signed
      BY <2>2 DEF authorizeFunding, signatures
    <3>3. \A authority \in Authorities : \E m \in signed : m.role = authority /\ m.nonce = nonce
      BY <3>2
    <3>4. QED
      BY <2>0, <3>1, <3>3
  <2>3. ASSUME NEW digest \in Digests, cancelFundingAuthorization(digest) PROVE Spends
    BY <2>0, <2>3 DEF cancelFundingAuthorization
  <2>4. ASSUME NEW digest \in Digests, armFunding(digest) PROVE Spends
    BY <2>0, <2>4 DEF armFunding
  <2>5. QED
    BY <2>1, <2>2, <2>3, <2>4, GateMoves
<1>2. QED
  BY <1>1, SettlementInvariant, PTL DEF SettlementSpec, SignaturesSpentOnce

-----------------------------------------------------------------------------
(* The board. *)

(* The types the proof needs of the submission manager.  Its ETH balance and
   its counters are not among them: they are differences, and stay natural
   only because of the sums and cardinalities they stand for. *)
CommitShape ==
    /\ submissionCount \in 0..MaxSubmissions
    /\ solverOf \in [Ids -> Actors \cup {NoOne}]
    /\ paidAtCommit \in [Ids -> BOOLEAN]
    /\ status \in [Ids -> Statuses]

FrontierShape ==
    /\ claimedScoreAtoms \in [Ids -> Int]
    /\ bestScoreAtoms \in Int
    /\ creditRecoveryEndsAt \in Nat
    /\ finalizeInfo \in [Ids -> [prevBestScoreAtoms : Int, creditAtoms : Nat,
                                 prevCreditRecoveryEndsAt : Nat]]

(* What ties a submission to the gate and to the ledger: an id beyond the
   counter is unused, a used one has a solver, a paid one was committed on an
   armed board, and the ledger's denominator is within its bound. *)
Linked ==
    /\ \A i \in Ids : IF i <= submissionCount THEN solverOf[i] \in Actors
                                              ELSE status[i] = "None"
    /\ \A i \in Ids : paidAtCommit[i] => fundingArmed
    /\ totalCreditAtoms <= MAX_TOTAL_CREDIT_ATOMS

LinkInv == CommitShape /\ FrontierShape /\ Linked

BoardInv == SettlementInv /\ LinkInv

(* A new board satisfies the invariant. *)
LEMMA BoardInvInit == BoardInit => BoardInv
<1> SUFFICES ASSUME BoardInit PROVE BoardInv
  OBVIOUS
<1>1. SettlementInv
  BY SettlementInvInit DEF BoardInit
<1>2. LinkInv
  BY ManagerAssumption, LedgerAssumption
     DEF BoardInit, SettlementInit, LedgerInit, ManagerInit, LinkInv, CommitShape, FrontierShape,
         Linked, NoFinalize, Statuses, Ids
<1>3. QED
  BY <1>1, <1>2 DEF BoardInv

-----------------------------------------------------------------------------
(* The credit of a finalize is one the abstract recorder may record: a
   positive number within the ledger's bound, for a real solver, on an armed
   board (finalize, recordCredit). *)
LEMMA FinalizeImplements ==
    ASSUME BoardInv, NEW i \in Ids, finalize(i), UNCHANGED <<now, gateVars, poolVars>>
    PROVE  [SettlementNext]_settlementVars
<1> USE DEF BoardInv, LinkInv, CommitShape, FrontierShape, Linked
<1>1. CASE UNCHANGED ledgerVars
  BY <1>1 DEF settlementVars
<1>2. CASE creditOf(i) # 0 /\ recordCredit(solverOf[i], creditOf(i))
  <2>1. solverOf[i] \in Actors
    BY DEF finalize
  <2>2. fundingArmed
    BY <1>2 DEF creditOf
  <2>3. creditOf(i) \in Nat \ {0}
    <3>1. claimedScoreAtoms[i] \in Int
      OBVIOUS
    <3>2. QED
      BY <1>2, <3>1, ManagerAssumption DEF creditOf, pendingCreditAtoms, marginalOf
  <2>4. creditOf(i) \in 1..MAX_TOTAL_CREDIT_ATOMS
    BY <1>2, <2>3, LedgerAssumption
       DEF recordCredit, withinCreditBound, SettlementInv, SettlementTypeOK, LedgerTypeOK
  <2>5. creditOf(i) \in CreditAmounts
    BY <2>4, BoardAssumption
  <2>6. RecorderStep
    BY <1>2, <2>1, <2>2, <2>5, Zenon DEF RecorderStep
  <2>7. QED
    BY <2>6 DEF SettlementNext
<1>3. QED
  BY <1>1, <1>2 DEF finalize, advanceFrontier

(* A void takes back a credit the abstract recorder may take back. *)
LEMMA VoidImplements ==
    ASSUME BoardInv, NEW i \in Ids, voidFinalize(i), UNCHANGED <<now, gateVars, poolVars>>
    PROVE  [SettlementNext]_settlementVars
<1> USE DEF BoardInv, LinkInv, CommitShape, FrontierShape, Linked
<1>1. CASE UNCHANGED ledgerVars
  BY <1>1 DEF settlementVars
<1>2. CASE finalizeInfo[i].creditAtoms > 0 /\ voidCredit(solverOf[i], finalizeInfo[i].creditAtoms)
  <2>1. solverOf[i] \in Actors
    BY DEF voidFinalize
  <2>2. finalizeInfo[i].creditAtoms \in 1..MAX_TOTAL_CREDIT_ATOMS
    BY <1>2, LedgerAssumption DEF voidCredit, SettlementInv, SettlementTypeOK, LedgerTypeOK
  <2>3. finalizeInfo[i].creditAtoms \in CreditAmounts
    BY <2>2, BoardAssumption
  <2>4. RecorderStep
    BY <1>2, <2>1, <2>3, Zenon DEF RecorderStep
  <2>5. QED
    BY <2>4 DEF SettlementNext
<1>3. QED
  BY <1>1, <1>2 DEF voidFinalize

(* Every step of the board is a step of Settlement or leaves it alone.  The
   guard the real recorder answers to close() implies the abstract one. *)
LEMMA StepImplements == BoardInv /\ [BoardNext]_boardVars => [SettlementNext]_settlementVars
<1> SUFFICES ASSUME BoardInv, [BoardNext]_boardVars PROVE [SettlementNext]_settlementVars
  OBVIOUS
<1>1. CASE UNCHANGED boardVars
  BY <1>1 DEF boardVars, settlementVars
<1>2. CASE Tick /\ UNCHANGED <<ledgerVars, gateVars, poolVars, managerVars, disputeVars, finalizedAt>>
  BY <1>2 DEF SettlementNext
<1>3. CASE GateStep /\ UNCHANGED <<now, ledgerVars, poolVars, managerVars, disputeVars, finalizedAt>>
  BY <1>3 DEF SettlementNext
<1>4. CASE PoolStep /\ UNCHANGED <<now, ledgerVars, gateVars, managerVars, disputeVars, finalizedAt>>
  BY <1>4 DEF SettlementNext
<1>5. CASE ClaimStep /\ UNCHANGED <<now, gateVars, managerVars, disputeVars, finalizedAt>>
  BY <1>5 DEF SettlementNext
<1>6. CASE LedgerStep /\ UNCHANGED <<now, gateVars, poolVars, managerVars, disputeVars, finalizedAt>>
  <2>1. CASE closeBoard
    <3>1. close(0, FALSE, 0, funded)
      BY <2>1 DEF closeBoard, close, BoardInv, SettlementInv, SettlementTypeOK, LedgerTypeOK
    <3>2. QED
      BY <1>6, <3>1 DEF SettlementNext, RecorderStep
  <2>2. CASE \E paused \in BOOLEAN : ledgerSetPausedNewActions(paused)
    BY <1>6, <2>2 DEF SettlementNext
  <2>3. QED
    BY <1>6, <2>1, <2>2 DEF LedgerStep
<1>7. CASE UNCHANGED settlementVars
  BY <1>7
<1>8. CASE FrontierStep /\ UNCHANGED <<now, gateVars, poolVars, disputeVars>>
  BY <1>8, FinalizeImplements, VoidImplements DEF FrontierStep, Voidable
<1>9. QED
  BY <1>1, <1>2, <1>3, <1>4, <1>5, <1>6, <1>7, <1>8 DEF BoardNext

-----------------------------------------------------------------------------
(* Funding stays armed, and the ledger's denominator within its bound, in any
   step of the settlement side. *)
LEMMA LedgerSideKeeps ==
    ASSUME SettlementInv, totalCreditAtoms <= MAX_TOTAL_CREDIT_ATOMS,
           [SettlementNext]_settlementVars
    PROVE  /\ fundingArmed => fundingArmed'
           /\ totalCreditAtoms' <= MAX_TOTAL_CREDIT_ATOMS
<1>1. fundingArmed => fundingArmed'
  BY GateMoves DEF gateVars, sign, authorizeFunding, cancelFundingAuthorization, armFunding
<1>2. totalCreditAtoms' <= MAX_TOTAL_CREDIT_ATOMS
  <2> USE LedgerAssumption DEF SettlementInv, SettlementTypeOK, LedgerTypeOK
  <2>1. CASE UNCHANGED creditVars
    BY <2>1 DEF creditVars
  <2>2. ASSUME NEW solver \in Actors, NEW atoms \in CreditAmounts, recordCredit(solver, atoms)
        PROVE  totalCreditAtoms' <= MAX_TOTAL_CREDIT_ATOMS
    BY <2>2, CreditAssumption DEF recordCredit, withinCreditBound
  <2>3. ASSUME NEW solver \in Actors, NEW atoms \in CreditAmounts, voidCredit(solver, atoms)
        PROVE  totalCreditAtoms' <= MAX_TOTAL_CREDIT_ATOMS
    BY <2>3, CreditAssumption DEF voidCredit
  <2>4. CASE ClaimStep
    BY <2>1, <2>4 DEF ClaimStep, claimTo, donateClaimToPool, settleClaim, consumeClaim,
       sweepRollover, markRolloverSwept
  <2>5. CASE RecorderStep
    BY <2>1, <2>2, <2>3, <2>5 DEF RecorderStep, close
  <2>6. QED
    BY <2>1, <2>4, <2>5 DEF SettlementNext, settlementVars, ledgerVars, ledgerSetPausedNewActions
<1>3. QED
  BY <1>1, <1>2

(* The part of the invariant that the submission manager's own steps can
   disturb, one action at a time. *)
LEMMA ManagerKeepsLinks ==
    ASSUME BoardInv, [BoardNext]_boardVars
    PROVE  LinkInv'
<1>0. /\ fundingArmed => fundingArmed'
      /\ totalCreditAtoms' <= MAX_TOTAL_CREDIT_ATOMS
  BY StepImplements, LedgerSideKeeps DEF BoardInv, LinkInv, Linked
<1> USE <1>0 DEF BoardInv, LinkInv, CommitShape, FrontierShape, Linked, Statuses,
        commitVars, revealVars, windowVars, statusVars, frontierVars, bondVars, pauseVars
<1> DEFINE Quiet == UNCHANGED <<commitVars, status, claimedScoreAtoms, frontierVars>>
<1>1. CASE Quiet
  BY <1>1
<1>2. ASSUME NEW solver \in Actors, NEW cid \in Cids, NEW value \in BondValues,
             commit(solver, cid, value), UNCHANGED settlementVars
      PROVE  LinkInv'
  <2>1. submissionCount + 1 \in Ids
    BY <1>2, ManagerAssumption DEF commit, Ids
  <2>2. CommitShape'
    BY <1>2, <2>1 DEF commit, SettlementInv, SettlementTypeOK, GateTypeOK, Ids
  <2>3. FrontierShape'
    BY <1>2 DEF commit
  <2>4. Linked'
    BY <1>2, <2>1 DEF commit, Ids
  <2>5. QED
    BY <2>2, <2>3, <2>4
<1>3. ASSUME NEW i \in Ids, NEW score \in Scores, reveal(i, score)
      PROVE  LinkInv'
  <2>1. i <= submissionCount
    BY <1>3 DEF reveal
  <2>2. \A holder : superseded(holder) => status[holder] # "None" /\ holder # 0
    BY DEF superseded
  <2>3. QED
    BY <1>3, <2>1, <2>2, ManagerAssumption DEF reveal, assignDuplicatePriority, reject
<1>4. ASSUME NEW i \in Ids, expireCommitted(i) \/ expireRevealed(i)
      PROVE  LinkInv'
  BY <1>4 DEF expireCommitted, expireRevealed, commitForfeitable, revealForfeitable, reject
<1>5. ASSUME NEW i \in Ids, finalize(i)
      PROVE  LinkInv'
  <2>1. creditOf(i) \in Nat /\ frontierAfter(i) \in Int
    BY ManagerAssumption DEF creditOf, frontierAfter, pendingCreditAtoms, marginalOf
  <2>2. CommitShape' /\ Linked'
    BY <1>5 DEF finalize, reject
  <2>3. FrontierShape'
    BY <1>5, <2>1, ManagerAssumption
       DEF finalize, advanceFrontier, SettlementInv, SettlementTypeOK, LedgerTypeOK
  <2>4. QED
    BY <2>2, <2>3
<1>6. ASSUME NEW i \in Ids, voidFinalize(i)
      PROVE  LinkInv'
  BY <1>6 DEF voidFinalize
<1>7. ASSUME NEW i \in Ids, markChallenged(i)
      PROVE  LinkInv'
  BY <1>7 DEF markChallenged
<1>8. ASSUME NEW i \in Ids, leaveChallenged(i),
             status' = [status EXCEPT ![i] = "Rejected"] \/ status' = [status EXCEPT ![i] = "Revealed"]
      PROVE  LinkInv'
  BY <1>8 DEF leaveChallenged
<1>9. CASE SubmissionStep /\ UNCHANGED <<settlementVars, disputeVars, finalizedAt>>
  <2>1. ASSUME NEW i \in Ids, NEW value \in BondValues, topUpBond(i, value) PROVE Quiet
    BY <2>1 DEF topUpBond
  <2>2. ASSUME NEW i \in Ids, releaseFinalizedBond(i) PROVE Quiet
    BY <2>2 DEF releaseFinalizedBond
  <2>3. ASSUME NEW account \in Claimants, claimBond(account) PROVE Quiet
    BY <2>3 DEF claimBond
  <2>4. ASSUME recoverPausedAll PROVE Quiet
    BY <2>4 DEF recoverPausedAll, clearPausedAll
  <2>5. QED
    BY <1>1, <1>2, <1>3, <1>4, <1>9, <2>1, <2>2, <2>3, <2>4 DEF SubmissionStep
<1>10. CASE OwnerStep
  <2>1. Quiet
    BY <1>10 DEF OwnerStep, setPausedNewActions, startPausedAll, endPausedAll, clearPausedAll
  <2>2. QED
    BY <1>1, <2>1
<1>11. CASE FrontierStep
  BY <1>5, <1>6, <1>11 DEF FrontierStep, Voidable
<1>12. CASE DisputeStep
  <2>1. ASSUME NEW i \in Ids, NEW sender \in Actors, NEW value \in CounterBonds,
               challenge(i, sender, value)
        PROVE  LinkInv'
    BY <1>7, <2>1 DEF challenge
  <2>2. ASSUME NEW i \in Ids, NEW wins \in BOOLEAN, NEW value \in ResolverBonds,
               resolve(i, wins, Resolver, value)
        PROVE  LinkInv'
    BY <1>1, <2>2 DEF resolve, managerVars
  <2>3. ASSUME NEW i \in Ids, finalizeResolution(i) PROVE LinkInv'
    BY <1>8, <2>3 DEF finalizeResolution, resolveChallenge, rejectForChallenger, reject,
       returnToRevealed
  <2>4. ASSUME NEW i \in Ids, expireChallenge(i) PROVE LinkInv'
    BY <1>8, <2>4 DEF expireChallenge, resolveChallenge, reject, returnToRevealed
  <2>5. ASSUME NEW i \in Ids, slashResolverBond(i) PROVE LinkInv'
    BY <1>8, <2>5 DEF slashResolverBond, cancelChallenge, reject, returnToRevealed
  <2>6. ASSUME NEW i \in Ids, NEW wins \in BOOLEAN, NEW account \in Actors,
               applyObjectiveResolution(i, wins, account)
        PROVE  LinkInv'
    BY <1>8, <2>6 DEF applyObjectiveResolution, resolveObjectiveChallenge, rejectForChallenger,
       reject, returnToRevealed
  <2>7. ASSUME NEW account \in Claimants, claimCounterBond(account) PROVE LinkInv'
    BY <1>1, <2>7 DEF claimCounterBond, managerVars
  <2>8. ASSUME NEW paused \in BOOLEAN, challengeSetPausedNewActions(paused) PROVE LinkInv'
    BY <1>1, <2>8 DEF challengeSetPausedNewActions, managerVars
  <2>9. QED
    BY <1>12, <2>1, <2>2, <2>3, <2>4, <2>5, <2>6, <2>7, <2>8 DEF DisputeStep
<1>13. CASE UNCHANGED managerVars
  BY <1>1, <1>13 DEF managerVars
<1>14. QED
  BY <1>9, <1>10, <1>11, <1>12, <1>13 DEF BoardNext, boardVars

(* BoardInv holds in every state of the board. *)
THEOREM BoardInvariant == BoardSpec => []BoardInv
<1>1. BoardInit => BoardInv
  BY BoardInvInit
<1>2. BoardInv /\ [BoardNext]_boardVars => BoardInv'
  BY StepImplements, SettlementInvStep, ManagerKeepsLinks DEF BoardInv
<1>3. QED
  BY <1>1, <1>2, PTL DEF BoardSpec

(* The board implements Settlement: the concrete submission and challenge
   managers are a correct credit recorder for the pool and the ledger, for any
   number of submissions, actors, solutions and scores (finalize, voidFinalize,
   close and the close guard). *)
THEOREM BoardImplementsSettlement == BoardSpec => SettlementSpec
<1>1. BoardInit => SettlementInit
  BY DEF BoardInit
<1>2. BoardInv /\ [BoardNext]_boardVars => [SettlementNext]_settlementVars
  BY StepImplements
<1>3. QED
  BY <1>1, <1>2, BoardInvariant, PTL DEF BoardSpec, SettlementSpec

(* On the whole board credit, and ETH in the pool, exist only after arming. *)
THEOREM BoardPaidOnlyWhenArmed == BoardSpec => []PaidOnlyWhenArmed
  BY BoardImplementsSettlement, PaidOnlyAfterArming, PTL

(* On the whole board, whatever the managers do, the books balance, the custody is covered, the
   closing modes exclude each other, and no paid board exists without the signed arming. *)
THEOREM BoardMoneySafe == BoardSpec => []MoneySafe
<1>1. BooksBalance /\ CustodyCovered /\ ModesExclusive /\ PaidOnlyWhenArmed => MoneySafe
  BY DEF MoneySafe
<1>2. QED
  BY <1>1, BoardImplementsSettlement, BooksAlwaysBalance, CustodyAlwaysCovered, ModesAlwaysExclusive,
     PaidOnlyAfterArming, PTL

-----------------------------------------------------------------------------
(* Disputes. *)

WindowShape ==
    /\ challengeEndsAt \in [Ids -> Nat]
    /\ maxDisputeEndsAt \in [Ids -> Nat]
    /\ objectiveCleared \in [Ids -> BOOLEAN]

SlotShape ==
    /\ slot \in [Ids -> SlotStates]
    /\ challenger \in [Ids -> Actors \cup {NoOne}]
    /\ disputeEndsAt \in [Ids -> Nat]
    /\ challengerWins \in [Ids -> BOOLEAN]
    /\ resolverBondWei \in [Ids -> Nat]
    /\ resolverBondReleaseAt \in [Ids -> Nat]
    /\ resolverBondBeneficiary \in [Ids -> Accounts \cup {NoOne}]

CidShape ==
    /\ solutionCid \in [Ids -> Cids \cup {NoCid}]
    /\ prioritySubmissionOf \in [Cids -> Ids \cup {0}]
    /\ \A i \in Ids : i <= submissionCount => solutionCid[i] \in Cids

(* ClearedStaysClear, and that only a submission that was once disputed is
   ever cleared: without the second part a fresh commit could inherit it. *)
ClearedInv ==
    \A i \in Ids : objectiveCleared[i] => /\ status[i] \notin {"None", "Committed", "Challenged"}
                                          /\ slot[i] = "empty"
                                          /\ challengeEndsAt[i] <= now

DisputeInv ==
    /\ WindowShape
    /\ SlotShape
    /\ CidShape
    /\ DisputeAgrees
    /\ WithinHorizon
    /\ ClearedInv
    /\ PriorityHeld

(* One challenge window is at most the whole dispute horizon. *)
LEMMA HorizonCoversWindow ==
    /\ challengeWindowSeconds \in Nat \ {0}
    /\ challengeWindowSeconds * MAX_CUMULATIVE_DISPUTE_WINDOWS \in Nat
    /\ challengeWindowSeconds <= challengeWindowSeconds * MAX_CUMULATIVE_DISPUTE_WINDOWS
<1>1. \A w, m \in Nat \ {0} : w * m \in Nat /\ w <= w * m
  BY SMT
<1>2. QED
  BY <1>1, ManagerAssumption

(* A new board has no dispute. *)
LEMMA DisputeInvInit == BoardInit => DisputeInv
  BY ManagerAssumption
     DEF BoardInit, ManagerInit, ChallengeInit, DisputeInv, WindowShape, SlotShape, CidShape,
         DisputeAgrees, WithinHorizon, ClearedInv, PriorityHeld, SlotStates, Ids

-----------------------------------------------------------------------------
(* A commit takes an id nobody has used, so no dispute is attached to it. *)
LEMMA CommitKeepsDisputes ==
    ASSUME BoardInv, DisputeInv, NEW solver \in Actors, NEW cid \in Cids, NEW value \in BondValues,
           commit(solver, cid, value), UNCHANGED <<settlementVars, disputeVars>>
    PROVE  DisputeInv'
<1> USE DEF DisputeInv, commit, revealVars, windowVars, disputeVars, slotVars, resolverBondVars,
        settlementVars
<1> DEFINE n == submissionCount + 1
<1>1. n \in Ids /\ status[n] = "None" /\ slot[n] = "empty" /\ ~objectiveCleared[n]
  <2>1. n \in Ids
    BY ManagerAssumption DEF BoardInv, LinkInv, CommitShape, Ids
  <2>2. status[n] = "None"
    BY <2>1 DEF BoardInv, LinkInv, CommitShape, Linked, Ids
  <2>3. QED
    BY <2>1, <2>2 DEF DisputeAgrees, ClearedInv, SlotShape, SlotStates, WindowShape
<1>2. status \in [Ids -> Statuses] /\ solverOf \in [Ids -> Actors \cup {NoOne}]
  BY DEF BoardInv, LinkInv, CommitShape
<1>3. WindowShape' /\ SlotShape' /\ WithinHorizon'
  BY DEF WindowShape, SlotShape, WithinHorizon
<1>4. CidShape'
  BY <1>1, ManagerAssumption DEF CidShape, Ids, BoardInv, LinkInv, CommitShape
<1>5. DisputeAgrees'
  BY <1>1, <1>2 DEF DisputeAgrees
<1>6. ClearedInv'
  BY <1>1, <1>2 DEF ClearedInv
<1>7. PriorityHeld'
  BY <1>1, <1>2 DEF PriorityHeld, CidShape
<1>8. QED
  BY <1>3, <1>4, <1>5, <1>6, <1>7

(* A reveal starts the horizon of a submission nobody has disputed, and a copy
   displaced by it is one that was never under dispute. *)
LEMMA RevealKeepsDisputes ==
    ASSUME BoardInv, DisputeInv, NEW i \in Ids, NEW score \in Scores,
           reveal(i, score), UNCHANGED <<settlementVars, disputeVars>>
    PROVE  DisputeInv'
<1> USE DEF DisputeInv, reveal, commitVars, disputeVars, slotVars, resolverBondVars, settlementVars
<1> DEFINE holder == prioritySubmissionOf[solutionCid[i]]
<1>0. now \in Nat
  BY DEF BoardInv, SettlementInv, SettlementTypeOK, LedgerTypeOK
<1>1. status \in [Ids -> Statuses] /\ solverOf \in [Ids -> Actors \cup {NoOne}]
  BY DEF BoardInv, LinkInv, CommitShape
<1>2. solutionCid[i] \in Cids /\ holder \in Ids \cup {0} /\ 0 \notin Ids
  BY DEF BoardInv, LinkInv, CommitShape, Linked, CidShape, Ids
<1>3. \/ /\ status' = [status EXCEPT ![i] = "Revealed"]
         /\ holder = 0 \/ i < holder
         /\ holder = 0 \/ status[holder] # "Revealed"
         /\ prioritySubmissionOf' = [prioritySubmissionOf EXCEPT ![solutionCid[i]] = i]
      \/ /\ status' = [status EXCEPT ![i] = "Revealed", ![holder] = "Rejected"]
         /\ holder \in Ids /\ i < holder /\ status[holder] = "Revealed"
         /\ prioritySubmissionOf' = [prioritySubmissionOf EXCEPT ![solutionCid[i]] = i]
      \/ /\ status' = [status EXCEPT ![i] = "Rejected"]
         /\ holder # 0 /\ i >= holder
         /\ UNCHANGED prioritySubmissionOf
  BY <1>2 DEF assignDuplicatePriority, superseded, reject
<1>4. WindowShape' /\ SlotShape'
  BY <1>0, HorizonCoversWindow DEF WindowShape, SlotShape
<1>5. CidShape'
  BY <1>2, <1>3 DEF CidShape
<1>6. DisputeAgrees'
  BY <1>1, <1>2, <1>3 DEF DisputeAgrees
<1>7. WithinHorizon'
  <2>1. slot[i] = "empty"
    BY DEF DisputeAgrees, SlotShape, SlotStates
  <2>2. now + challengeWindowSeconds
          <= now + challengeWindowSeconds * MAX_CUMULATIVE_DISPUTE_WINDOWS
    BY <1>0, HorizonCoversWindow
  <2>3. QED
    BY <2>1, <2>2 DEF WithinHorizon, WindowShape
<1>8. ClearedInv'
  BY <1>1, <1>2, <1>3 DEF ClearedInv, WindowShape
<1>9. PriorityHeld'
  <2> SUFFICES ASSUME NEW j \in Ids
               PROVE  /\ status'[j] = "Revealed" => prioritySubmissionOf'[solutionCid[j]] = j
                      /\ status'[j] \in {"Challenged", "Finalized"}
                           => prioritySubmissionOf'[solutionCid[j]] \in 1..j
    BY DEF PriorityHeld
  <2>1. status'[j] \in {"Revealed", "Challenged", "Finalized"} => solutionCid[j] \in Cids
    BY <1>1, <1>2, <1>3 DEF BoardInv, LinkInv, CommitShape, Linked, CidShape, Ids
  <2>2. CASE j = i
    BY <1>1, <1>2, <1>3, <2>2 DEF CidShape, PriorityHeld
  <2>3. CASE j # i /\ solutionCid[j] # solutionCid[i]
    BY <1>1, <1>2, <1>3, <2>1, <2>3 DEF CidShape, PriorityHeld
  <2>4. CASE j # i /\ solutionCid[j] = solutionCid[i]
    <3>1. /\ status[j] = "Revealed" => holder = j
          /\ status[j] \in {"Challenged", "Finalized"} => holder \in 1..j
      BY <2>4 DEF PriorityHeld
    <3>2. prioritySubmissionOf'[solutionCid[j]] \in {i, holder}
      BY <1>2, <1>3, <2>4 DEF CidShape
    <3>3. i \in Int /\ j \in Int /\ i >= 1 /\ holder \in Int
      BY <1>2 DEF Ids
    <3>4. CASE UNCHANGED prioritySubmissionOf
      BY <1>1, <1>2, <1>3, <2>4, <3>1, <3>4
    <3>5. CASE prioritySubmissionOf' = [prioritySubmissionOf EXCEPT ![solutionCid[i]] = i]
               /\ (holder = 0 \/ i < holder)
      <4>1. prioritySubmissionOf'[solutionCid[j]] = i
        BY <1>2, <2>4, <3>5 DEF CidShape
      <4>2. status'[j] # "Revealed"
        BY <1>1, <1>2, <1>3, <2>4, <3>1, <3>3, <3>5
      <4>3. status'[j] \in {"Challenged", "Finalized"} => status[j] = status'[j]
        BY <1>1, <1>2, <1>3, <2>4
      <4>4. QED
        BY <1>2, <3>1, <3>3, <3>5, <4>1, <4>2, <4>3
    <3>6. QED
      BY <1>2, <1>3, <3>4, <3>5
  <2>5. QED
    BY <2>2, <2>3, <2>4
<1>10. QED
  BY <1>4, <1>5, <1>6, <1>7, <1>8, <1>9

(* A submission that leaves a state other than Challenged for good takes no
   dispute with it (expireCommitted, expireRevealed, finalize, voidFinalize). *)
LEMMA LeavingKeepsDisputes ==
    ASSUME BoardInv, DisputeInv, NEW i \in Ids, NEW next \in {"Rejected", "Finalized", "Voided"},
           status[i] \in {"Committed", "Revealed", "Finalized"},
           next = "Finalized" => status[i] = "Revealed",
           status' = [status EXCEPT ![i] = next],
           UNCHANGED <<now, commitVars, revealVars, windowVars, disputeVars>>
    PROVE  DisputeInv'
<1> USE DEF DisputeInv, commitVars, revealVars, windowVars, disputeVars, slotVars, resolverBondVars
<1>1. status \in [Ids -> Statuses]
  BY DEF BoardInv, LinkInv, CommitShape
<1>2. WindowShape' /\ SlotShape' /\ CidShape' /\ WithinHorizon'
  BY DEF WindowShape, SlotShape, CidShape, WithinHorizon
<1>3. DisputeAgrees'
  BY <1>1 DEF DisputeAgrees, SlotShape, SlotStates
<1>4. ClearedInv'
  BY <1>1 DEF ClearedInv
<1>5. PriorityHeld'
  BY <1>1 DEF PriorityHeld, Ids
<1>6. QED
  BY <1>2, <1>3, <1>4, <1>5

(* The deadline of a returned or disputed submission never passes the horizon. *)
LEMMA RearmWithinHorizon ==
    ASSUME BoardInv, DisputeInv, NEW i \in Ids
    PROVE  boundedRearmDeadline(i) \in Nat /\ boundedRearmDeadline(i) <= maxDisputeEndsAt[i]
  BY ManagerAssumption DEF boundedRearmDeadline, DisputeInv, WindowShape, BoardInv, SettlementInv,
     SettlementTypeOK, LedgerTypeOK

(* A challenge opens the slot of a submission that had none. *)
LEMMA ChallengeKeepsDisputes ==
    ASSUME BoardInv, DisputeInv, NEW i \in Ids, NEW sender \in Actors, NEW value \in CounterBonds,
           challenge(i, sender, value), UNCHANGED <<settlementVars, finalizedAt>>
    PROVE  DisputeInv'
<1> USE DEF DisputeInv, challenge, markChallenged, commitVars, revealVars, windowVars,
        resolverBondVars, settlementVars
<1>1. /\ status \in [Ids -> Statuses] /\ solverOf \in [Ids -> Actors \cup {NoOne}]
      /\ sender # NoOne
  BY ManagerAssumption DEF BoardInv, LinkInv, CommitShape
<1>2. slot[i] = "empty"
  BY DEF DisputeAgrees
<1>3. WindowShape' /\ SlotShape' /\ CidShape'
  BY RearmWithinHorizon DEF WindowShape, SlotShape, CidShape, SlotStates
<1>4. DisputeAgrees'
  BY <1>1, <1>2 DEF DisputeAgrees, SlotShape
<1>5. WithinHorizon'
  BY RearmWithinHorizon DEF WithinHorizon, SlotShape
<1>6. ClearedInv'
  BY <1>1 DEF ClearedInv, SlotShape
<1>7. PriorityHeld'
  BY <1>1 DEF PriorityHeld, CidShape, Ids
<1>8. QED
  BY <1>3, <1>4, <1>5, <1>6, <1>7

(* A decision is pending only with a live bond and a fraud window that ends
   within the horizon. *)
LEMMA ResolveKeepsDisputes ==
    ASSUME BoardInv, DisputeInv, NEW i \in Ids, NEW wins \in BOOLEAN, NEW value \in ResolverBonds,
           resolve(i, wins, Resolver, value), UNCHANGED <<settlementVars, finalizedAt>>
    PROVE  DisputeInv'
<1> USE DEF DisputeInv, resolve, commitVars, revealVars, windowVars, statusVars, managerVars,
        settlementVars
<1>0. now \in Nat
  BY DEF BoardInv, SettlementInv, SettlementTypeOK, LedgerTypeOK
<1>1. value \in Nat \ {0} /\ Resolver # NoOne /\ resolverFraudWindowSeconds \in Nat
  BY ChallengeAssumption, ManagerAssumption
<1>2. WindowShape' /\ SlotShape' /\ CidShape'
  BY <1>0, <1>1 DEF WindowShape, SlotShape, CidShape, SlotStates, Accounts
<1>3. DisputeAgrees'
  BY <1>1 DEF DisputeAgrees, SlotShape
<1>4. WithinHorizon'
  BY <1>0, <1>1 DEF WithinHorizon, SlotShape, fraudWindowFits
<1>5. ClearedInv'
  BY DEF ClearedInv, SlotShape
<1>6. PriorityHeld'
  BY DEF PriorityHeld
<1>7. QED
  BY <1>2, <1>3, <1>4, <1>5, <1>6

(* However a dispute ends, both managers see it end: the challenger won, the
   submission is rejected and the slot kept or deleted, or the submission is
   Revealed or rejected as a copy and the slot deleted. *)
LEMMA EndingKeepsDisputes ==
    ASSUME BoardInv, DisputeInv, NEW i \in Ids, status[i] = "Challenged",
           NEW deadline \in Nat, deadline <= maxDisputeEndsAt[i],
           NEW cleared \in BOOLEAN, cleared => deadline <= now,
           \/ /\ settleSlot(i, TRUE)
              /\ status' = [status EXCEPT ![i] = "Rejected"]
              /\ UNCHANGED windowVars
           \/ /\ deleteChallenge(i)
              /\ returnToRevealed(i, deadline, cleared),
           resolverBondWei' = [resolverBondWei EXCEPT ![i] = 0],
           resolverBondBeneficiary' = [resolverBondBeneficiary EXCEPT ![i] = NoOne],
           UNCHANGED <<now, commitVars, revealVars, resolverBondReleaseAt>>
    PROVE  DisputeInv'
<1> USE DEF DisputeInv, commitVars, revealVars, windowVars, settleSlot, deleteChallenge,
        returnToRevealed, reject
<1>1. /\ status \in [Ids -> Statuses] /\ solverOf \in [Ids -> Actors \cup {NoOne}]
      /\ ~objectiveCleared[i] /\ slot[i] \in {"open", "pending"} /\ challenger[i] # NoOne
  BY DEF BoardInv, LinkInv, CommitShape, ClearedInv, DisputeAgrees
<1> DEFINE Deleted ==
      /\ slot' = [slot EXCEPT ![i] = "empty"]
      /\ challenger' = [challenger EXCEPT ![i] = NoOne]
      /\ disputeEndsAt' = [disputeEndsAt EXCEPT ![i] = 0]
      /\ challengerWins' = [challengerWins EXCEPT ![i] = FALSE]
<1>2. \/ /\ slot' = [slot EXCEPT ![i] = "resolved"]
         /\ challengerWins' = [challengerWins EXCEPT ![i] = TRUE]
         /\ UNCHANGED <<challenger, disputeEndsAt>>
      \/ Deleted
  OBVIOUS
<1> DEFINE Returned ==
      /\ status' = [status EXCEPT ![i] = "Revealed"]
      /\ prioritySubmissionOf[solutionCid[i]] = i
      /\ Deleted
      /\ challengeEndsAt' = [challengeEndsAt EXCEPT ![i] = deadline]
      /\ objectiveCleared' = [objectiveCleared EXCEPT ![i] = @ \/ cleared]
<1>3. \/ /\ status' = [status EXCEPT ![i] = "Rejected"]
         /\ UNCHANGED windowVars
      \/ Returned
  BY DEF hasPriority
<1> HIDE DEF settleSlot, deleteChallenge, returnToRevealed
<1>4. CidShape' /\ WindowShape'
  BY <1>3 DEF CidShape, WindowShape
<1>5. SlotShape'
  <2>1. slot' \in [Ids -> SlotStates]
    BY <1>2 DEF SlotShape, SlotStates
  <2>2. challenger' \in [Ids -> Actors \cup {NoOne}]
    BY <1>2 DEF SlotShape
  <2>3. disputeEndsAt' \in [Ids -> Nat]
    BY <1>2 DEF SlotShape
  <2>4. challengerWins' \in [Ids -> BOOLEAN]
    BY <1>2 DEF SlotShape
  <2>5. /\ resolverBondWei' \in [Ids -> Nat]
        /\ resolverBondReleaseAt' \in [Ids -> Nat]
    BY DEF SlotShape
  <2>6. resolverBondBeneficiary' \in [Ids -> Accounts \cup {NoOne}]
    BY DEF SlotShape
  <2>7. QED
    BY <2>1, <2>2, <2>3, <2>4, <2>5, <2>6 DEF SlotShape
<1>6. DisputeAgrees'
  <2>1. \A j \in Ids \ {i} :
          /\ status'[j] = status[j] /\ slot'[j] = slot[j] /\ challenger'[j] = challenger[j]
          /\ challengerWins'[j] = challengerWins[j] /\ resolverBondWei'[j] = resolverBondWei[j]
          /\ resolverBondBeneficiary'[j] = resolverBondBeneficiary[j]
    BY <1>1, <1>2, <1>3 DEF SlotShape
  <2>2. /\ status'[i] \in {"Rejected", "Revealed"}
        /\ \/ slot'[i] = "resolved" /\ challengerWins'[i] /\ challenger'[i] = challenger[i]
              /\ status'[i] = "Rejected"
           \/ slot'[i] = "empty" /\ challenger'[i] = NoOne
        /\ resolverBondWei'[i] = 0 /\ resolverBondBeneficiary'[i] = NoOne
    BY <1>1, <1>2, <1>3 DEF SlotShape
  <2>3. QED
    BY <1>1, <2>1, <2>2 DEF DisputeAgrees
<1>7. WithinHorizon'
  BY <1>1, <1>2, <1>3 DEF WithinHorizon, SlotShape, WindowShape
<1>8. ClearedInv'
  <2>1. \A j \in Ids \ {i} :
          /\ status'[j] = status[j] /\ slot'[j] = slot[j]
          /\ challengeEndsAt'[j] = challengeEndsAt[j] /\ objectiveCleared'[j] = objectiveCleared[j]
    BY <1>1, <1>2, <1>3 DEF SlotShape, WindowShape
  <2>2. objectiveCleared'[i] =>
          /\ cleared /\ challengeEndsAt'[i] = deadline
          /\ status'[i] = "Revealed" /\ slot'[i] = "empty"
    <3>1. CASE UNCHANGED windowVars
      BY <1>1, <3>1
    <3>2. CASE Returned
      <4>1. objectiveCleared'[i] = (objectiveCleared[i] \/ cleared)
        BY <3>2, Zenon DEF WindowShape
      <4>2. objectiveCleared'[i] => cleared
        BY <1>1, <4>1, Zenon
      <4>3. challengeEndsAt'[i] = deadline /\ status'[i] = "Revealed" /\ slot'[i] = "empty"
        BY <1>1, <3>2, Zenon DEF SlotShape, WindowShape
      <4>4. QED
        BY <4>2, <4>3
    <3>3. QED
      BY <1>3, <3>1, <3>2, Zenon
  <2>3. QED
    BY <2>1, <2>2 DEF ClearedInv
<1>9. PriorityHeld'
  BY <1>1, <1>3 DEF PriorityHeld
<1>10. QED
  BY <1>4, <1>5, <1>6, <1>7, <1>8, <1>9

(* Steps that touch neither a submission's state nor a dispute; time may pass. *)
LEMMA QuietKeepsDisputes ==
    ASSUME BoardInv, DisputeInv, now' \in Nat, now <= now',
           UNCHANGED <<commitVars, revealVars, windowVars, status, slotVars, resolverBondVars>>
    PROVE  DisputeInv'
<1> USE DEF DisputeInv, commitVars, revealVars, windowVars, slotVars, resolverBondVars
<1>1. WindowShape' /\ SlotShape' /\ CidShape'
  BY DEF WindowShape, SlotShape, CidShape
<1>2. DisputeAgrees' /\ WithinHorizon' /\ PriorityHeld'
  BY DEF DisputeAgrees, WithinHorizon, PriorityHeld
<1>3. ClearedInv'
  BY DEF ClearedInv, WindowShape, BoardInv, SettlementInv, SettlementTypeOK, LedgerTypeOK
<1>4. QED
  BY <1>1, <1>2, <1>3

(* Every step of the submission manager alone keeps the dispute invariant. *)
LEMMA SubmissionKeepsDisputes ==
    ASSUME BoardInv, DisputeInv, SubmissionStep \/ OwnerStep,
           UNCHANGED <<settlementVars, disputeVars>>
    PROVE  DisputeInv'
<1> USE DEF settlementVars, disputeVars
<1>0. now \in Nat /\ now' = now
  BY DEF BoardInv, SettlementInv, SettlementTypeOK, LedgerTypeOK
<1> DEFINE Quiet == UNCHANGED <<commitVars, revealVars, windowVars, status>>
<1>1. CASE Quiet
  BY <1>0, <1>1, QuietKeepsDisputes
<1>2. ASSUME NEW i \in Ids, NEW value \in BondValues, topUpBond(i, value) PROVE Quiet
  BY <1>2 DEF topUpBond, statusVars
<1>3. ASSUME NEW i \in Ids, releaseFinalizedBond(i) PROVE Quiet
  BY <1>3 DEF releaseFinalizedBond, statusVars
<1>4. ASSUME NEW account \in Claimants, claimBond(account) PROVE Quiet
  BY <1>4 DEF claimBond, statusVars
<1>5. ASSUME recoverPausedAll PROVE Quiet
  BY <1>5 DEF recoverPausedAll, clearPausedAll, statusVars
<1>6. ASSUME OwnerStep PROVE Quiet
  BY <1>6 DEF OwnerStep, setPausedNewActions, startPausedAll, endPausedAll, clearPausedAll, statusVars
<1>7. ASSUME NEW i \in Ids, expireCommitted(i) \/ expireRevealed(i) PROVE DisputeInv'
  BY <1>7, LeavingKeepsDisputes
     DEF expireCommitted, expireRevealed, commitForfeitable, revealForfeitable, reject
<1>8. QED
  BY <1>1, <1>2, <1>3, <1>4, <1>5, <1>6, <1>7, CommitKeepsDisputes, RevealKeepsDisputes
     DEF SubmissionStep

(* A finalize and a void concern submissions that are not under dispute. *)
LEMMA FrontierKeepsDisputes ==
    ASSUME BoardInv, DisputeInv, FrontierStep, UNCHANGED <<now, disputeVars>>
    PROVE  DisputeInv'
<1>1. ASSUME NEW i \in Ids, finalize(i) PROVE DisputeInv'
  BY <1>1, LeavingKeepsDisputes DEF finalize, reject
<1>2. ASSUME NEW i \in Ids, voidFinalize(i) PROVE DisputeInv'
  BY <1>2, LeavingKeepsDisputes DEF voidFinalize
<1>3. QED
  BY <1>1, <1>2 DEF FrontierStep, Voidable

(* The two managers change a dispute together. *)
LEMMA DisputeStepKeepsDisputes ==
    ASSUME BoardInv, DisputeInv, DisputeStep, UNCHANGED <<settlementVars, finalizedAt>>
    PROVE  DisputeInv'
<1>0. now \in Nat /\ now' = now
  BY DEF settlementVars, BoardInv, SettlementInv, SettlementTypeOK, LedgerTypeOK
<1>1. ASSUME NEW i \in Ids, finalizeResolution(i) PROVE DisputeInv'
  <2>1. /\ status[i] = "Challenged"
        /\ resolverBondWei' = [resolverBondWei EXCEPT ![i] = 0]
        /\ resolverBondBeneficiary' = [resolverBondBeneficiary EXCEPT ![i] = NoOne]
        /\ UNCHANGED <<now, commitVars, revealVars, resolverBondReleaseAt>>
    BY <1>0, <1>1 DEF finalizeResolution, releaseBonds, resolveChallenge, leaveChallenged
  <2>2. \/ /\ settleSlot(i, TRUE)
           /\ status' = [status EXCEPT ![i] = "Rejected"]
           /\ UNCHANGED windowVars
        \/ /\ deleteChallenge(i)
           /\ returnToRevealed(i, boundedRearmDeadline(i), FALSE)
    <3>1. challengerWins[i] \in BOOLEAN
      BY DEF DisputeInv, SlotShape
    <3>2. QED
      BY <1>1, <3>1 DEF finalizeResolution, resolveChallenge, settleSlot, rejectForChallenger, reject
  <2>3. QED
    BY <2>1, <2>2, EndingKeepsDisputes, RearmWithinHorizon
<1>2. ASSUME NEW i \in Ids, expireChallenge(i) PROVE DisputeInv'
  <2>1. /\ status[i] = "Challenged" /\ slot[i] = "open"
        /\ deleteChallenge(i)
        /\ returnToRevealed(i, boundedRearmDeadline(i), FALSE)
        /\ UNCHANGED <<now, commitVars, revealVars, resolverBondVars>>
    BY <1>0, <1>2 DEF expireChallenge, challengeOverdue, resolveChallenge, leaveChallenged
  <2>2. /\ resolverBondWei[i] = 0 /\ resolverBondBeneficiary[i] = NoOne
        /\ resolverBondWei \in [Ids -> Nat]
        /\ resolverBondBeneficiary \in [Ids -> Accounts \cup {NoOne}]
    BY <2>1 DEF DisputeInv, DisputeAgrees, SlotShape
  <2>3. /\ resolverBondWei' = [resolverBondWei EXCEPT ![i] = 0]
        /\ resolverBondBeneficiary' = [resolverBondBeneficiary EXCEPT ![i] = NoOne]
    BY <2>1, <2>2 DEF resolverBondVars
  <2>4. QED
    BY <2>1, <2>3, EndingKeepsDisputes, RearmWithinHorizon DEF resolverBondVars
<1>3. ASSUME NEW i \in Ids, slashResolverBond(i) PROVE DisputeInv'
  <2>1. /\ status[i] = "Challenged"
        /\ deleteChallenge(i)
        /\ returnToRevealed(i, boundedRearmDeadline(i), FALSE)
        /\ resolverBondWei' = [resolverBondWei EXCEPT ![i] = 0]
        /\ resolverBondBeneficiary' = [resolverBondBeneficiary EXCEPT ![i] = NoOne]
        /\ UNCHANGED <<now, commitVars, revealVars, resolverBondReleaseAt>>
    BY <1>0, <1>3 DEF slashResolverBond, releaseBonds, cancelChallenge, leaveChallenged
  <2>2. QED
    BY <2>1, EndingKeepsDisputes, RearmWithinHorizon
<1>4. ASSUME NEW i \in Ids, NEW wins \in BOOLEAN, NEW account \in Actors,
             applyObjectiveResolution(i, wins, account)
      PROVE  DisputeInv'
  <2>1. /\ status[i] = "Challenged"
        /\ resolverBondWei' = [resolverBondWei EXCEPT ![i] = 0]
        /\ resolverBondBeneficiary' = [resolverBondBeneficiary EXCEPT ![i] = NoOne]
        /\ UNCHANGED <<now, commitVars, revealVars, resolverBondReleaseAt>>
    BY <1>0, <1>4 DEF applyObjectiveResolution, releaseBonds, resolveObjectiveChallenge,
       leaveChallenged
  <2>2. \/ /\ settleSlot(i, TRUE)
           /\ status' = [status EXCEPT ![i] = "Rejected"]
           /\ UNCHANGED windowVars
        \/ /\ deleteChallenge(i)
           /\ returnToRevealed(i, now, TRUE)
    <3>1. CASE wins
      BY <1>4, <3>1 DEF applyObjectiveResolution, resolveObjectiveChallenge, settleSlot,
         rejectForChallenger, reject
    <3>2. CASE ~wins
      BY <1>4, <3>2 DEF applyObjectiveResolution, resolveObjectiveChallenge, settleSlot
    <3>3. QED
      BY <3>1, <3>2
  <2>3. now <= maxDisputeEndsAt[i]
    BY <1>0, <1>4 DEF applyObjectiveResolution, DisputeInv, WithinHorizon, SlotShape, WindowShape
  <2>4. PICK cleared \in BOOLEAN : cleared = TRUE
    OBVIOUS
  <2>5. now <= now
    BY <1>0
  <2>6. returnToRevealed(i, now, TRUE) => returnToRevealed(i, now, cleared)
    BY <2>4
  <2>7. QED
    BY <1>0, <2>1, <2>2, <2>3, <2>5, <2>6, EndingKeepsDisputes
<1>5. ASSUME UNCHANGED <<managerVars, slotVars, resolverBondVars>> PROVE DisputeInv'
  BY <1>0, <1>5, QuietKeepsDisputes DEF managerVars, statusVars
<1>6. QED
  BY <1>1, <1>2, <1>3, <1>4, <1>5, ChallengeKeepsDisputes, ResolveKeepsDisputes
     DEF DisputeStep, claimCounterBond, challengeSetPausedNewActions

(* Every step of the board keeps the dispute invariant. *)
LEMMA DisputeInvStep == BoardInv /\ DisputeInv /\ [BoardNext]_boardVars => DisputeInv'
<1> SUFFICES ASSUME BoardInv, DisputeInv, [BoardNext]_boardVars PROVE DisputeInv'
  OBVIOUS
<1>0. now \in Nat
  BY DEF BoardInv, SettlementInv, SettlementTypeOK, LedgerTypeOK
<1>1. ASSUME UNCHANGED <<managerVars, disputeVars>>, now' \in Nat, now <= now' PROVE DisputeInv'
  BY <1>1, QuietKeepsDisputes DEF managerVars, statusVars, disputeVars
<1>2. CASE Tick /\ UNCHANGED <<ledgerVars, gateVars, poolVars, managerVars, disputeVars, finalizedAt>>
  BY <1>0, <1>1, <1>2 DEF Tick
<1>3. CASE UNCHANGED boardVars
  BY <1>0, <1>1, <1>3 DEF boardVars, settlementVars
<1>4. CASE GateStep /\ UNCHANGED <<now, ledgerVars, poolVars, managerVars, disputeVars, finalizedAt>>
  BY <1>0, <1>1, <1>4
<1>5. CASE PoolStep /\ UNCHANGED <<now, ledgerVars, gateVars, managerVars, disputeVars, finalizedAt>>
  BY <1>0, <1>1, <1>5
<1>6. CASE ClaimStep /\ UNCHANGED <<now, gateVars, managerVars, disputeVars, finalizedAt>>
  BY <1>0, <1>1, <1>6
<1>7. CASE LedgerStep /\ UNCHANGED <<now, gateVars, poolVars, managerVars, disputeVars, finalizedAt>>
  BY <1>0, <1>1, <1>7
<1>8. CASE (SubmissionStep \/ OwnerStep) /\ UNCHANGED <<settlementVars, disputeVars, finalizedAt>>
  BY <1>8, SubmissionKeepsDisputes
<1>9. CASE FrontierStep /\ UNCHANGED <<now, gateVars, poolVars, disputeVars>>
  BY <1>9, FrontierKeepsDisputes
<1>10. CASE DisputeStep /\ UNCHANGED <<settlementVars, finalizedAt>>
  BY <1>10, DisputeStepKeepsDisputes
<1>11. QED
  BY <1>2, <1>3, <1>4, <1>5, <1>6, <1>7, <1>8, <1>9, <1>10 DEF BoardNext

-----------------------------------------------------------------------------
(* DisputeInv holds in every state of the board. *)
THEOREM DisputeInvariant == BoardSpec => []DisputeInv
<1>1. BoardInit => DisputeInv
  BY DisputeInvInit
<1>2. BoardInv /\ DisputeInv /\ [BoardNext]_boardVars => DisputeInv'
  BY DisputeInvStep
<1>3. QED
  BY <1>1, <1>2, BoardInvariant, PTL DEF BoardSpec

(* The submission manager's status and the challenge manager's slot never
   disagree, whatever the order of challenges, decisions, slashes, timeouts
   and reveals of copies. *)
THEOREM ManagersAlwaysAgree == BoardSpec => []DisputeAgrees
<1>1. DisputeInv => DisputeAgrees
  BY DEF DisputeInv
<1>2. QED
  BY <1>1, DisputeInvariant, PTL

(* No rearmed window, dispute window or fraud window ends after the horizon. *)
THEOREM AlwaysWithinHorizon == BoardSpec => []WithinHorizon
<1>1. DisputeInv => WithinHorizon
  BY DEF DisputeInv
<1>2. QED
  BY <1>1, DisputeInvariant, PTL

(* After its horizon every live dispute can be ended by anyone, by
   expireChallenge or by finalizeResolution. *)
THEOREM NeverStuck == BoardSpec => []NoStuckDispute
<1>1. BoardInv /\ DisputeInv => NoStuckDispute
  BY DEF BoardInv, SettlementInv, SettlementTypeOK, LedgerTypeOK, DisputeInv, WindowShape, SlotShape,
     DisputeAgrees, WithinHorizon, NoStuckDispute, challengeOverdue, decisionRipe
<1>2. QED
  BY <1>1, BoardInvariant, DisputeInvariant, PTL

(* The earliest revealed commit of a solution keeps its priority, and no copy
   is Revealed beside it. *)
THEOREM PriorityAlwaysHeld == BoardSpec => []PriorityHeld
<1>1. DisputeInv => PriorityHeld
  BY DEF DisputeInv
<1>2. QED
  BY <1>1, DisputeInvariant, PTL

(* A claim cleared by an objective proof is never disputed again. *)
THEOREM ClearedForGood == BoardSpec => []ClearedStaysClear
<1>1. DisputeInv => ClearedStaysClear
  BY DEF DisputeInv, ClearedInv, ClearedStaysClear
<1>2. QED
  BY <1>1, DisputeInvariant, PTL

-----------------------------------------------------------------------------
(* How many submissions a status assignment f puts in the states T. *)
CountOf(f, T) == Cardinality({j \in Ids : f[j] \in T})

Indicator(s, T) == IF s \in T THEN 1 ELSE 0

(* Moving one submission to another state changes each count by at most one,
   as the old and the new state say. *)
LEMMA CountMoves ==
    ASSUME NEW f \in [Ids -> Statuses], NEW i \in Ids,
           NEW g \in [Ids -> Statuses], \A j \in Ids \ {i} : g[j] = f[j], NEW T
    PROVE  /\ CountOf(f, T) \in Nat
           /\ f[i] \in T => CountOf(f, T) > 0
           /\ CountOf(g, T) = CountOf(f, T) + Indicator(g[i], T) - Indicator(f[i], T)
<1> DEFINE A == {j \in Ids : f[j] \in T}
           B == {j \in Ids : g[j] \in T}
<1>1. IsFiniteSet(Ids)
  BY FS_Interval, ManagerAssumption DEF Ids
<1>2. IsFiniteSet(A)
  BY <1>1, FS_Subset
<1>3. Cardinality(A) \in Nat /\ (A # {} => Cardinality(A) # 0)
  BY <1>2, FS_CardinalityType, FS_EmptySet
<1>4. CASE g[i] \in T
  <2>1. B = A \cup {i}
    BY <1>4
  <2>2. Cardinality(B) = IF i \in A THEN Cardinality(A) ELSE Cardinality(A) + 1
    BY <1>2, <2>1, FS_AddElement
  <2>3. QED
    BY <1>3, <1>4, <2>2 DEF CountOf, Indicator
<1>5. CASE g[i] \notin T
  <2>1. B = A \ {i}
    BY <1>5
  <2>2. Cardinality(B) = IF i \in A THEN Cardinality(A) - 1 ELSE Cardinality(A)
    BY <1>2, <2>1, FS_RemoveElement
  <2>3. QED
    BY <1>3, <1>5, <2>2 DEF CountOf, Indicator
<1>6. QED
  BY <1>4, <1>5

(* The same for two submissions moved at once. *)
LEMMA CountMovesTwice ==
    ASSUME NEW f \in [Ids -> Statuses], NEW i \in Ids, NEW h \in Ids, i # h,
           NEW F \in [Ids -> Statuses], \A j \in Ids \ {i, h} : F[j] = f[j], NEW T
    PROVE  CountOf(F, T) = CountOf(f, T) + Indicator(F[i], T) - Indicator(f[i], T)
                             + Indicator(F[h], T) - Indicator(f[h], T)
<1>1. PICK g \in [Ids -> Statuses] : g = [f EXCEPT ![i] = F[i]]
  OBVIOUS
<1>2. g[i] = F[i] /\ g[h] = f[h]
  BY <1>1
<1>3. CountOf(g, T) = CountOf(f, T) + Indicator(g[i], T) - Indicator(f[i], T)
  <2>1. \A j \in Ids \ {i} : g[j] = f[j]
    BY <1>1
  <2>2. QED
    BY <2>1, CountMoves
<1>4. CountOf(F, T) = CountOf(g, T) + Indicator(F[h], T) - Indicator(g[h], T)
  <2>1. \A j \in Ids \ {h} : F[j] = g[j]
    BY <1>1
  <2>2. QED
    BY <2>1, CountMoves
<1>5. CountOf(f, T) \in Nat /\ \A x : Indicator(x, T) \in Int
  BY CountMoves DEF Indicator
<1>6. QED
  BY <1>2, <1>3, <1>4, <1>5

(* CountersAgree in terms of CountOf. *)
LEMMA CountersUnfold ==
    CountersAgree <=> /\ openSubmissionCount = CountOf(status, OpenStatuses)
                      /\ revealedSubmissionCount = CountOf(status, {"Revealed"})
                      /\ challengedSubmissionCount = CountOf(status, {"Challenged"})
  BY DEF CountersAgree, CountOf, InStatus

(* Submission i moves to state s and every counter follows. *)
Move(i, s) ==
    /\ status' = [status EXCEPT ![i] = s]
    /\ openSubmissionCount' =
         openSubmissionCount + Indicator(s, OpenStatuses) - Indicator(status[i], OpenStatuses)
    /\ revealedSubmissionCount' =
         revealedSubmissionCount + Indicator(s, {"Revealed"}) - Indicator(status[i], {"Revealed"})
    /\ challengedSubmissionCount' =
         challengedSubmissionCount + Indicator(s, {"Challenged"})
           - Indicator(status[i], {"Challenged"})

(* Such a move keeps the counters right. *)
LEMMA OneMove ==
    ASSUME BoardInv, CountersAgree, NEW i \in Ids, NEW s \in Statuses, Move(i, s)
    PROVE  CountersAgree'
<1>1. status \in [Ids -> Statuses]
  BY DEF BoardInv, LinkInv, CommitShape
<1>2. \A T : CountOf(status', T) = CountOf(status, T) + Indicator(s, T) - Indicator(status[i], T)
  <2>1. status' \in [Ids -> Statuses] /\ status'[i] = s /\ \A j \in Ids \ {i} : status'[j] = status[j]
    BY <1>1 DEF Move
  <2>2. \A T : CountOf(status', T)
                 = CountOf(status, T) + Indicator(status'[i], T) - Indicator(status[i], T)
    BY <1>1, <2>1, CountMoves
  <2>3. QED
    BY <2>1, <2>2
<1>3. /\ openSubmissionCount' = CountOf(status', OpenStatuses)
      /\ revealedSubmissionCount' = CountOf(status', {"Revealed"})
      /\ challengedSubmissionCount' = CountOf(status', {"Challenged"})
  BY <1>2, CountersUnfold DEF Move
<1>4. QED
  BY <1>3 DEF CountersAgree, CountOf, InStatus, OpenStatuses

(* The counters are natural numbers, and positive while a submission they
   count exists: the decrements of the code never underflow. *)
LEMMA CountersNat ==
    ASSUME BoardInv, CountersAgree, NEW i \in Ids
    PROVE  /\ openSubmissionCount \in Nat
           /\ revealedSubmissionCount \in Nat
           /\ challengedSubmissionCount \in Nat
           /\ status[i] \in OpenStatuses => openSubmissionCount > 0
<1>1. status \in [Ids -> Statuses] /\ status[i] \in Statuses
  BY DEF BoardInv, LinkInv, CommitShape
<1>2. \A T : CountOf(status, T) \in Nat /\ (status[i] \in T => CountOf(status, T) > 0)
  BY <1>1, CountMoves
<1>3. QED
  BY <1>2, CountersUnfold

-----------------------------------------------------------------------------
(* Steps of one submission: commit, expiry, finalize, void, challenge and the
   end of a dispute. *)
LEMMA SingleMovesCount ==
    ASSUME BoardInv, CountersAgree, NEW i \in Ids,
           \/ \E solver \in Actors, cid \in Cids, value \in BondValues :
                commit(solver, cid, value) /\ i = submissionCount + 1
           \/ expireCommitted(i) \/ expireRevealed(i)
           \/ finalize(i) \/ voidFinalize(i)
           \/ markChallenged(i)
           \/ \E wins \in BOOLEAN, account \in Actors \cup {NoOne} : resolveChallenge(i, wins, account)
           \/ cancelChallenge(i)
           \/ \E wins \in BOOLEAN, account \in Actors : resolveObjectiveChallenge(i, wins, account)
    PROVE  \E s \in Statuses : Move(i, s)
<1> USE DEF Move, OpenStatuses, Indicator
<1>0. {"Committed", "Revealed", "Challenged", "Finalized", "Rejected", "Voided"} \subseteq Statuses
  BY DEF Statuses
<1>1. /\ openSubmissionCount \in Nat /\ revealedSubmissionCount \in Nat
      /\ challengedSubmissionCount \in Nat
      /\ status[i] \in OpenStatuses => openSubmissionCount > 0
  BY CountersNat
<1>2. CASE \E solver \in Actors, cid \in Cids, value \in BondValues :
             commit(solver, cid, value) /\ i = submissionCount + 1
  <2>1. status[i] = "None"
    BY <1>2 DEF BoardInv, LinkInv, CommitShape, Linked, Ids
  <2>2. Move(i, "Committed")
    BY <1>1, <1>2, <2>1 DEF commit
  <2>3. QED
    BY <1>0, <2>2
<1>3. CASE expireCommitted(i) \/ expireRevealed(i)
  <2>1. Move(i, "Rejected")
    BY <1>1, <1>3 DEF expireCommitted, commitForfeitable, expireRevealed, revealForfeitable, reject,
       decrementOpenSubmission
  <2>2. QED
    BY <1>0, <2>1
<1>4. CASE finalize(i)
  <2>1. /\ openSubmissionCount' = openSubmissionCount - 1
        /\ status' = [status EXCEPT ![i] = "Rejected"] \/ status' = [status EXCEPT ![i] = "Finalized"]
        /\ revealedSubmissionCount' = revealedSubmissionCount - 1
        /\ UNCHANGED challengedSubmissionCount
        /\ status[i] = "Revealed"
    BY <1>1, <1>4 DEF finalize, reject, decrementOpenSubmission
  <2>2. Move(i, "Rejected") \/ Move(i, "Finalized")
    BY <1>1, <2>1
  <2>3. QED
    BY <1>0, <2>2
<1>5. CASE voidFinalize(i)
  <2>1. Move(i, "Voided")
    BY <1>1, <1>5 DEF voidFinalize
  <2>2. QED
    BY <1>0, <2>1
<1>6. CASE markChallenged(i)
  <2>1. Move(i, "Challenged")
    BY <1>1, <1>6 DEF markChallenged
  <2>2. QED
    BY <1>0, <2>1
<1>7. ASSUME leaveChallenged(i),
             \/ /\ status' = [status EXCEPT ![i] = "Rejected"]
                /\ decrementOpenSubmission /\ UNCHANGED revealedSubmissionCount
             \/ /\ status' = [status EXCEPT ![i] = "Revealed"]
                /\ revealedSubmissionCount' = revealedSubmissionCount + 1
                /\ UNCHANGED openSubmissionCount
      PROVE  \E s \in Statuses : Move(i, s)
  <2>1. Move(i, "Rejected") \/ Move(i, "Revealed")
    BY <1>1, <1>7 DEF leaveChallenged, decrementOpenSubmission
  <2>2. QED
    BY <1>0, <2>1
<1> HIDE DEF Move, OpenStatuses, Indicator
<1>8. CASE \E wins \in BOOLEAN, account \in Actors \cup {NoOne} : resolveChallenge(i, wins, account)
  BY <1>7, <1>8 DEF resolveChallenge, rejectForChallenger, returnToRevealed, reject
<1>9. CASE cancelChallenge(i)
  BY <1>7, <1>9 DEF cancelChallenge, returnToRevealed, reject
<1>10. CASE \E wins \in BOOLEAN, account \in Actors : resolveObjectiveChallenge(i, wins, account)
  BY <1>7, <1>10 DEF resolveObjectiveChallenge, rejectForChallenger, returnToRevealed, reject
<1>11. QED
  BY <1>2, <1>3, <1>4, <1>5, <1>6, <1>8, <1>9, <1>10

(* A reveal moves its own submission and may reject the copy it displaces. *)
LEMMA RevealCounts ==
    ASSUME BoardInv, DisputeInv, CountersAgree, NEW i \in Ids, NEW score \in Scores, reveal(i, score)
    PROVE  CountersAgree'
<1> DEFINE holder == prioritySubmissionOf[solutionCid[i]]
<1>1. /\ openSubmissionCount \in Nat /\ revealedSubmissionCount \in Nat
      /\ challengedSubmissionCount \in Nat /\ openSubmissionCount > 0
      /\ status[i] = "Committed" /\ UNCHANGED challengedSubmissionCount
  BY CountersNat DEF reveal, OpenStatuses
<1>2. status \in [Ids -> Statuses] /\ "Revealed" \in Statuses /\ "Rejected" \in Statuses
  BY DEF BoardInv, LinkInv, CommitShape, Statuses
<1>3. CASE /\ status' = [status EXCEPT ![i] = "Revealed"]
           /\ revealedSubmissionCount' = revealedSubmissionCount + 1
           /\ UNCHANGED openSubmissionCount
  <2>1. Move(i, "Revealed")
    BY <1>1, <1>3 DEF Move, Indicator, OpenStatuses
  <2>2. QED
    BY <1>2, <2>1, OneMove
<1>4. CASE reject(i, solverOf[i]) /\ UNCHANGED revealedSubmissionCount
  <2>1. Move(i, "Rejected")
    BY <1>1, <1>4 DEF reject, decrementOpenSubmission, Move, Indicator, OpenStatuses
  <2>2. QED
    BY <1>2, <2>1, OneMove
<1>5. CASE /\ superseded(holder)
           /\ status' = [status EXCEPT ![i] = "Revealed", ![holder] = "Rejected"]
           /\ decrementOpenSubmission
           /\ UNCHANGED revealedSubmissionCount
  <2>1. solutionCid[i] \in Cids
    BY <1>1 DEF DisputeInv, CidShape, BoardInv, LinkInv, CommitShape, Linked, Ids
  <2>2. PICK h \in Ids : h = holder /\ i # h /\ status[h] = "Revealed"
    BY <1>1, <1>5, <2>1 DEF superseded, DisputeInv, CidShape
  <2>3. PICK F \in [Ids -> Statuses] :
          F = status' /\ F[i] = "Revealed" /\ F[h] = "Rejected" /\ \A j \in Ids \ {i, h} : F[j] = status[j]
    BY <1>2, <1>5, <2>2
  <2>4. \A T : CountOf(F, T) = CountOf(status, T) + Indicator(F[i], T) - Indicator(status[i], T)
                                 + Indicator(F[h], T) - Indicator(status[h], T)
    BY <1>2, <2>2, <2>3, CountMovesTwice
  <2>5. \A T : CountOf(F, T) = CountOf(status', T)
    BY <2>3, Zenon
  <2>6. \A T : CountOf(status', T) = CountOf(status, T) + Indicator(F[i], T) - Indicator(status[i], T)
                                 + Indicator(F[h], T) - Indicator(status[h], T)
    BY <2>4, <2>5, Zenon
  <2>7. openSubmissionCount' = openSubmissionCount - 1
    BY <1>1, <1>5 DEF decrementOpenSubmission
  <2>8. /\ openSubmissionCount = CountOf(status, OpenStatuses)
        /\ revealedSubmissionCount = CountOf(status, {"Revealed"})
        /\ challengedSubmissionCount = CountOf(status, {"Challenged"})
    BY CountersUnfold
  <2>9. openSubmissionCount' = CountOf(status', OpenStatuses)
    BY <1>1, <2>2, <2>3, <2>6, <2>7, <2>8 DEF Indicator, OpenStatuses
  <2>10. revealedSubmissionCount' = CountOf(status', {"Revealed"})
    <3>1. /\ Indicator(F[i], {"Revealed"}) = 1 /\ Indicator(status[i], {"Revealed"}) = 0
          /\ Indicator(F[h], {"Revealed"}) = 0 /\ Indicator(status[h], {"Revealed"}) = 1
      BY <1>1, <2>2, <2>3 DEF Indicator
    <3>2. CountOf(status', {"Revealed"}) = CountOf(status, {"Revealed"}) + 1 - 0 + 0 - 1
      BY <2>6, <3>1, Zenon
    <3>3. QED
      BY <1>1, <1>5, <2>8, <3>2
  <2>11. challengedSubmissionCount' = CountOf(status', {"Challenged"})
    <3>1. /\ Indicator(F[i], {"Challenged"}) = 0 /\ Indicator(status[i], {"Challenged"}) = 0
          /\ Indicator(F[h], {"Challenged"}) = 0 /\ Indicator(status[h], {"Challenged"}) = 0
      BY <1>1, <2>2, <2>3 DEF Indicator
    <3>2. CountOf(status', {"Challenged"}) = CountOf(status, {"Challenged"}) + 0 - 0 + 0 - 0
      BY <2>6, <3>1, Zenon
    <3>3. QED
      BY <1>1, <2>8, <3>2
  <2>12. QED
    BY <2>9, <2>10, <2>11 DEF CountersAgree, CountOf, InStatus, OpenStatuses
<1>6. QED
  BY <1>3, <1>4, <1>5 DEF reveal, assignDuplicatePriority

(* Every step of the board keeps the counters right. *)
LEMMA CountersStep ==
    BoardInv /\ DisputeInv /\ CountersAgree /\ [BoardNext]_boardVars => CountersAgree'
<1> SUFFICES ASSUME BoardInv, DisputeInv, CountersAgree, [BoardNext]_boardVars PROVE CountersAgree'
  OBVIOUS
<1>1. CASE UNCHANGED statusVars
  BY <1>1 DEF statusVars, CountersAgree, InStatus
<1>2. ASSUME NEW i \in Ids, NEW s \in Statuses, Move(i, s) PROVE CountersAgree'
  BY <1>2, OneMove
<1>3. CASE SubmissionStep
  <2>1. ASSUME NEW solver \in Actors, NEW cid \in Cids, NEW value \in BondValues,
               commit(solver, cid, value)
        PROVE  CountersAgree'
    <3>1. submissionCount + 1 \in Ids
      BY <2>1, ManagerAssumption DEF commit, Ids, BoardInv, LinkInv, CommitShape
    <3>2. PICK i \in Ids : i = submissionCount + 1
      BY <3>1
    <3>3. QED
      BY <1>2, <2>1, <3>2, SingleMovesCount
  <2>2. ASSUME NEW i \in Ids, expireCommitted(i) \/ expireRevealed(i) PROVE CountersAgree'
    BY <1>2, <2>2, SingleMovesCount
  <2>3. ASSUME NEW i \in Ids, NEW value \in BondValues, topUpBond(i, value) PROVE UNCHANGED statusVars
    BY <2>3 DEF topUpBond
  <2>4. ASSUME NEW i \in Ids, releaseFinalizedBond(i) PROVE UNCHANGED statusVars
    BY <2>4 DEF releaseFinalizedBond
  <2>5. ASSUME NEW account \in Claimants, claimBond(account) PROVE UNCHANGED statusVars
    BY <2>5 DEF claimBond
  <2>6. ASSUME recoverPausedAll PROVE UNCHANGED statusVars
    BY <2>6 DEF recoverPausedAll, clearPausedAll
  <2>7. QED
    BY <1>1, <1>3, <2>1, <2>2, <2>3, <2>4, <2>5, <2>6, RevealCounts DEF SubmissionStep
<1>4. CASE OwnerStep
  BY <1>1, <1>4 DEF OwnerStep, setPausedNewActions, startPausedAll, endPausedAll, clearPausedAll
<1>5. CASE FrontierStep
  BY <1>2, <1>5, SingleMovesCount DEF FrontierStep, Voidable
<1>6. CASE DisputeStep
  <2>1. ASSUME NEW i \in Ids, NEW sender \in Actors, NEW value \in CounterBonds,
               challenge(i, sender, value)
        PROVE  CountersAgree'
    BY <1>2, <2>1, SingleMovesCount DEF challenge
  <2>2. ASSUME NEW i \in Ids, finalizeResolution(i) PROVE CountersAgree'
    <3>1. challenger[i] \in Actors \cup {NoOne} /\ challengerWins[i] \in BOOLEAN
      BY DEF DisputeInv, SlotShape
    <3>2. resolveChallenge(i, challengerWins[i], challenger[i])
      BY <2>2 DEF finalizeResolution
    <3>3. \E s \in Statuses : Move(i, s)
      BY <3>1, <3>2, SingleMovesCount
    <3>4. QED
      BY <1>2, <3>3
  <2>3. ASSUME NEW i \in Ids, expireChallenge(i) PROVE CountersAgree'
    <3>1. \E wins \in BOOLEAN, account \in Actors \cup {NoOne} : resolveChallenge(i, wins, account)
      BY <2>3 DEF expireChallenge
    <3>2. QED
      BY <1>2, <3>1, SingleMovesCount
  <2>4. ASSUME NEW i \in Ids, slashResolverBond(i) PROVE CountersAgree'
    BY <1>2, <2>4, SingleMovesCount DEF slashResolverBond
  <2>5. ASSUME NEW i \in Ids, NEW wins \in BOOLEAN, NEW account \in Actors,
               applyObjectiveResolution(i, wins, account)
        PROVE  CountersAgree'
    <3>1. challenger[i] \in Actors
      BY <2>5 DEF applyObjectiveResolution, DisputeInv, DisputeAgrees, SlotShape
    <3>2. resolveObjectiveChallenge(i, wins, challenger[i])
      BY <2>5 DEF applyObjectiveResolution
    <3>3. \E s \in Statuses : Move(i, s)
      BY <3>1, <3>2, SingleMovesCount
    <3>4. QED
      BY <1>2, <3>3
  <2>6. ASSUME UNCHANGED managerVars PROVE CountersAgree'
    BY <1>1, <2>6 DEF managerVars
  <2>7. QED
    BY <1>6, <2>1, <2>2, <2>3, <2>4, <2>5, <2>6
       DEF DisputeStep, resolve, claimCounterBond, challengeSetPausedNewActions
<1>7. CASE UNCHANGED managerVars
  BY <1>1, <1>7 DEF managerVars
<1>8. QED
  BY <1>3, <1>4, <1>5, <1>6, <1>7 DEF BoardNext, boardVars

(* The counters that gate close() and voidFinalize() are exact: no submission
   is counted twice, none is forgotten, and no decrement underflows, for any
   number of submissions. *)
THEOREM CountersAlwaysAgree == BoardSpec => []CountersAgree
<1>1. BoardInit => CountersAgree
  <2> SUFFICES ASSUME BoardInit PROVE CountersAgree
    OBVIOUS
  <2>1. \A T : "None" \notin T => InStatus(T) = {}
    BY DEF BoardInit, ManagerInit, InStatus
  <2>2. InStatus(OpenStatuses) = {} /\ InStatus({"Revealed"}) = {} /\ InStatus({"Challenged"}) = {}
    BY <2>1 DEF OpenStatuses
  <2>3. QED
    BY <2>2, FS_EmptySet DEF CountersAgree, BoardInit, ManagerInit
<1>2. BoardInv /\ DisputeInv /\ CountersAgree /\ [BoardNext]_boardVars => CountersAgree'
  BY CountersStep
<1>3. QED
  BY <1>1, <1>2, BoardInvariant, DisputeInvariant, PTL DEF BoardSpec

-----------------------------------------------------------------------------
(* What one step may do to the state of one submission. *)
Settles(i) ==
    /\ status[i] \in {"Rejected", "Voided"} => status'[i] = status[i]
    /\ status[i] = "Finalized" =>
         \/ status'[i] = "Finalized"
         \/ /\ status'[i] = "Voided" /\ pausedAll
            /\ finalizeInfo[i].creditAtoms > 0 => ~closed

(* A step that moves only open submissions settles nothing again. *)
LEMMA OpenMovesSettle ==
    ASSUME BoardInv, NEW M \in SUBSET Ids, \A i \in M : status[i] \in OpenStatuses \cup {"None"},
           \A j \in Ids \ M : status'[j] = status[j]
    PROVE  \A i \in Ids : Settles(i)
<1> SUFFICES ASSUME NEW i \in Ids PROVE Settles(i)
  OBVIOUS
<1>1. CASE i \in M
  BY <1>1 DEF OpenStatuses, Settles
<1>2. CASE i \notin M
  BY <1>2 DEF Settles
<1>3. QED
  BY <1>1, <1>2

(* Outcomes are final for every submission and every order of calls: only the
   governance void, under a full pause, undoes a finalize, and never one whose
   credit already shares a closed pool. *)
THEOREM OutcomesAlwaysFinal == BoardSpec => OutcomesFinal
<1>1. BoardInv /\ DisputeInv /\ [BoardNext]_boardVars => [\A i \in Ids : Settles(i)]_boardVars
  <2> SUFFICES ASSUME BoardInv, DisputeInv, BoardNext PROVE \A i \in Ids : Settles(i)
    BY Zenon
  <2> USE DEF OpenStatuses
  <2>0. status \in [Ids -> Statuses]
    BY DEF BoardInv, LinkInv, CommitShape
  <2>1. CASE UNCHANGED status
    BY <2>1 DEF Settles
  <2>2. ASSUME NEW i \in Ids, status[i] \in OpenStatuses \cup {"None"},
               \A j \in Ids \ {i} : status'[j] = status[j]
        PROVE  \A k \in Ids : Settles(k)
    BY <2>2 DEF Settles
  <2>3. CASE SubmissionStep
    <3>1. ASSUME NEW solver \in Actors, NEW cid \in Cids, NEW value \in BondValues,
                 commit(solver, cid, value)
          PROVE  \A k \in Ids : Settles(k)
      <4>1. PICK i \in Ids : i = submissionCount + 1
        BY <3>1, ManagerAssumption DEF commit, Ids, BoardInv, LinkInv, CommitShape
      <4>2. status[i] = "None"
        BY <4>1 DEF BoardInv, LinkInv, CommitShape, Linked, Ids
      <4>3. \A j \in Ids \ {i} : status'[j] = status[j]
        BY <2>0, <3>1, <4>1 DEF commit
      <4>4. QED
        BY <2>2, <4>2, <4>3
    <3>2. ASSUME NEW i \in Ids, expireCommitted(i) \/ expireRevealed(i) PROVE \A k \in Ids : Settles(k)
      BY <2>0, <2>2, <3>2
         DEF expireCommitted, commitForfeitable, expireRevealed, revealForfeitable, reject
    <3>3. ASSUME NEW i \in Ids, NEW score \in Scores, reveal(i, score) PROVE \A k \in Ids : Settles(k)
      <4> DEFINE M == {i} \cup {j \in Ids : status[j] = "Revealed"}
      <4>1. \A j \in Ids \ M : status'[j] = status[j]
        BY <2>0, <3>3 DEF reveal, assignDuplicatePriority, superseded, reject
      <4>2. \A j \in M : status[j] \in OpenStatuses \cup {"None"}
        BY <3>3 DEF reveal
      <4>3. M \in SUBSET Ids
        OBVIOUS
      <4> HIDE DEF M
      <4>4. QED
        BY <4>1, <4>2, <4>3, OpenMovesSettle
    <3>4. ASSUME NEW i \in Ids, NEW value \in BondValues, topUpBond(i, value) PROVE UNCHANGED status
      BY <3>4 DEF topUpBond, statusVars
    <3>5. ASSUME NEW i \in Ids, releaseFinalizedBond(i) PROVE UNCHANGED status
      BY <3>5 DEF releaseFinalizedBond, statusVars
    <3>6. ASSUME NEW account \in Claimants, claimBond(account) PROVE UNCHANGED status
      BY <3>6 DEF claimBond, statusVars
    <3>7. ASSUME recoverPausedAll PROVE UNCHANGED status
      BY <3>7 DEF recoverPausedAll, clearPausedAll, statusVars
    <3>8. QED
      BY <2>1, <2>3, <3>1, <3>2, <3>3, <3>4, <3>5, <3>6, <3>7 DEF SubmissionStep
  <2>4. CASE OwnerStep
    BY <2>1, <2>4
       DEF OwnerStep, setPausedNewActions, startPausedAll, endPausedAll, clearPausedAll, statusVars
  <2>5. CASE FrontierStep
    <3>1. ASSUME NEW i \in Ids, finalize(i) PROVE \A k \in Ids : Settles(k)
      BY <2>0, <2>2, <3>1 DEF finalize, reject
    <3>2. ASSUME NEW i \in Ids, voidFinalize(i) PROVE \A k \in Ids : Settles(k)
      BY <2>0, <3>2 DEF voidFinalize, voidCredit, Settles
    <3>3. QED
      BY <2>5, <3>1, <3>2 DEF FrontierStep, Voidable
  <2>6. CASE DisputeStep
    <3>1. ASSUME NEW i \in Ids, markChallenged(i) PROVE \A k \in Ids : Settles(k)
      BY <2>0, <2>2, <3>1 DEF markChallenged
    <3>2. ASSUME NEW i \in Ids, leaveChallenged(i), \A j \in Ids \ {i} : status'[j] = status[j]
          PROVE  \A k \in Ids : Settles(k)
      BY <2>2, <3>2 DEF leaveChallenged
    <3>3. ASSUME NEW i \in Ids, finalizeResolution(i) PROVE \A k \in Ids : Settles(k)
      BY <2>0, <3>2, <3>3 DEF finalizeResolution, resolveChallenge, rejectForChallenger,
         returnToRevealed, reject
    <3>4. ASSUME NEW i \in Ids, expireChallenge(i) PROVE \A k \in Ids : Settles(k)
      BY <2>0, <3>2, <3>4 DEF expireChallenge, resolveChallenge, returnToRevealed, reject
    <3>5. ASSUME NEW i \in Ids, slashResolverBond(i) PROVE \A k \in Ids : Settles(k)
      BY <2>0, <3>2, <3>5 DEF slashResolverBond, cancelChallenge, returnToRevealed, reject
    <3>6. ASSUME NEW i \in Ids, NEW wins \in BOOLEAN, NEW account \in Actors,
                 applyObjectiveResolution(i, wins, account)
          PROVE  \A k \in Ids : Settles(k)
      BY <2>0, <3>2, <3>6 DEF applyObjectiveResolution, resolveObjectiveChallenge,
         rejectForChallenger, returnToRevealed, reject
    <3>7. ASSUME UNCHANGED managerVars PROVE \A k \in Ids : Settles(k)
      BY <2>1, <3>7 DEF managerVars, statusVars
    <3>8. QED
      BY <2>6, <3>1, <3>3, <3>4, <3>5, <3>6, <3>7
         DEF DisputeStep, challenge, resolve, claimCounterBond, challengeSetPausedNewActions
  <2>7. CASE UNCHANGED managerVars
    BY <2>1, <2>7 DEF managerVars, statusVars
  <2>8. QED
    BY <2>3, <2>4, <2>5, <2>6, <2>7 DEF BoardNext
<1>2. QED
  BY <1>1, BoardInvariant, DisputeInvariant, PTL DEF BoardSpec, OutcomesFinal, Settles

-----------------------------------------------------------------------------
(* The bond a paid submission owes is one number for the whole board. *)
LEMMA RequiredBondNat ==
    ASSUME NEW p \in Nat
    PROVE  requiredPostingBondForPool(p) \in Nat
<1>1. p * alphaBps \in Nat
  <2>1. \A x, y \in Nat : x * y \in Nat
    BY SMT
  <2>2. QED
    BY <2>1, ManagerAssumption
<1>2. \A x \in Nat : x \div 10000 \in Nat
  BY SMT
<1>3. QED
  BY <1>1, <1>2, ManagerAssumption DEF requiredPostingBondForPool, mulDiv

(* Nothing reopens a closed ledger. *)
LEMMA ClosedStays == closed /\ [BoardNext]_boardVars => closed'
<1> SUFFICES ASSUME closed, [BoardNext]_boardVars PROVE closed'
  OBVIOUS
<1> USE DEF ledgerVars, closeVars
<1>1. CASE UNCHANGED ledgerVars
  BY <1>1
<1>2. CASE ClaimStep
  BY <1>2 DEF ClaimStep, claimTo, donateClaimToPool, settleClaim, consumeClaim, sweepRollover,
     markRolloverSwept
<1>3. CASE LedgerStep
  BY <1>3 DEF LedgerStep, closeBoard, close, ledgerSetPausedNewActions
<1>4. CASE FrontierStep
  BY <1>1, <1>4 DEF FrontierStep, Voidable, finalize, advanceFrontier, recordCredit, voidFinalize,
     voidCredit
<1>5. QED
  BY <1>1, <1>2, <1>3, <1>4 DEF BoardNext, boardVars, settlementVars

(* The invariant: bonds are natural numbers, and paid submissions are bonded. *)
BondInv == bondWei \in [Ids -> Nat] /\ PaidStaysBonded

(* Every step keeps paid submissions bonded.  A bond leaves a submission only
   together with its open state, its credit, or after the close. *)
LEMMA BondStep ==
    BoardInv /\ DisputeInv /\ BondInv /\ [BoardNext]_boardVars => BondInv'
<1> SUFFICES ASSUME BoardInv, DisputeInv, BondInv, [BoardNext]_boardVars PROVE BondInv'
  OBVIOUS
<1> DEFINE R == requiredPostingBondForPool(fundingCap)
<1>0. R \in Nat /\ R' = R
  BY RequiredBondNat, PoolAssumption DEF requiredPostingBondForPool, mulDiv
<1>00. /\ status \in [Ids -> Statuses] /\ paidAtCommit \in [Ids -> BOOLEAN]
       /\ \A i \in Ids : finalizeInfo[i].creditAtoms \in Nat
  BY DEF BoardInv, LinkInv, CommitShape, FrontierShape
<1> DEFINE Bonded(i) ==
      \/ status[i] \in OpenStatuses /\ paidAtCommit[i]
      \/ status[i] = "Finalized" /\ finalizeInfo[i].creditAtoms > 0 /\ ~closed
      => bondWei[i] >= R
<1>01. \A i \in Ids : bondWei[i] \in Nat /\ Bonded(i)
  BY DEF BondInv, PaidStaysBonded
<1>02. ASSUME bondWei' \in [Ids -> Nat], \A i \in Ids : Bonded(i)' PROVE BondInv'
  BY <1>0, <1>02 DEF BondInv, PaidStaysBonded
<1> HIDE DEF R
<1>1. CASE UNCHANGED <<status, paidAtCommit, finalizeInfo, bondWei>>
  BY <1>0, <1>1, <1>01, <1>02, ClosedStays DEF BondInv
<1>2. ASSUME NEW i \in Ids, NEW s \in {"Rejected", "Voided"},
             status' = [status EXCEPT ![i] = s],
             bondWei' = [bondWei EXCEPT ![i] = 0],
             UNCHANGED <<paidAtCommit, finalizeInfo>>
      PROVE  BondInv'
  BY <1>0, <1>2, <1>00, <1>01, <1>02, ClosedStays DEF BondInv, OpenStatuses
<1>3. ASSUME NEW i \in Ids, status[i] \in OpenStatuses,
             NEW s \in OpenStatuses, status' = [status EXCEPT ![i] = s],
             UNCHANGED <<paidAtCommit, finalizeInfo, bondWei>>
      PROVE  BondInv'
  BY <1>0, <1>3, <1>00, <1>01, <1>02, ClosedStays DEF BondInv, OpenStatuses
<1>4. ASSUME NEW solver \in Actors, NEW cid \in Cids, NEW value \in BondValues,
             commit(solver, cid, value)
      PROVE  BondInv'
  <2>1. PICK i \in Ids : i = submissionCount + 1
    BY <1>4, ManagerAssumption DEF commit, Ids, BoardInv, LinkInv, CommitShape
  <2>2. fundingArmed => value >= R
    BY <1>4 DEF commit, commitBond, R
  <2>3. value \in Nat
    BY ManagerAssumption
  <2>4. /\ status' = [status EXCEPT ![i] = "Committed"]
        /\ paidAtCommit' = [paidAtCommit EXCEPT ![i] = fundingArmed]
        /\ bondWei' = [bondWei EXCEPT ![i] = value]
        /\ UNCHANGED finalizeInfo
    BY <1>4, <2>1 DEF commit, frontierVars
  <2>5. bondWei' \in [Ids -> Nat]
    BY <2>3, <2>4 DEF BondInv
  <2>6. Bonded(i)'
    <3>1. paidAtCommit'[i] = fundingArmed /\ bondWei'[i] = value /\ status'[i] = "Committed"
      BY <1>00, <2>4 DEF BondInv
    <3>2. QED
      BY <1>0, <2>2, <3>1
  <2>7. ASSUME NEW j \in Ids, j # i PROVE Bonded(j)'
    <3>1. /\ status'[j] = status[j] /\ paidAtCommit'[j] = paidAtCommit[j]
          /\ bondWei'[j] = bondWei[j] /\ finalizeInfo' = finalizeInfo
      BY <1>00, <2>4, <2>7 DEF BondInv
    <3>2. QED
      BY <1>0, <1>01, <3>1, ClosedStays
  <2>8. QED
    BY <1>02, <2>5, <2>6, <2>7
<1>5. ASSUME NEW i \in Ids, NEW value \in BondValues, topUpBond(i, value)
      PROVE  BondInv'
  <2>1. value \in Nat
    BY ManagerAssumption
  <2>2. QED
    BY <1>0, <1>5, <1>01, <1>02, <2>1, ClosedStays
       DEF topUpBond, statusVars, commitVars, frontierVars, BondInv
<1>6. ASSUME NEW i \in Ids, NEW score \in Scores, reveal(i, score)
      PROVE  BondInv'
  <2> DEFINE holder == prioritySubmissionOf[solutionCid[i]]
  <2>1. UNCHANGED <<paidAtCommit, finalizeInfo>> /\ status[i] = "Committed"
    BY <1>6 DEF reveal, commitVars, frontierVars
  <2>2. CASE status' = [status EXCEPT ![i] = "Revealed"] /\ UNCHANGED bondVars
    BY <1>3, <2>1, <2>2 DEF bondVars, OpenStatuses
  <2>3. CASE reject(i, solverOf[i])
    BY <1>2, <2>1, <2>3 DEF reject, makeBondClaimable
  <2>4. CASE /\ status' = [status EXCEPT ![i] = "Revealed", ![holder] = "Rejected"]
             /\ makeBondClaimable(holder, solverOf[holder]) /\ superseded(holder)
    <3>1. solutionCid[i] \in Cids
      BY <2>1 DEF DisputeInv, CidShape, BoardInv, LinkInv, CommitShape, Linked, Ids
    <3>2. PICK h \in Ids : h = holder
      BY <2>4, <3>1 DEF superseded, DisputeInv, CidShape
    <3>3. /\ status' = [status EXCEPT ![i] = "Revealed", ![h] = "Rejected"]
          /\ bondWei' = [bondWei EXCEPT ![h] = 0]
      BY <2>4, <3>2 DEF makeBondClaimable
    <3>4. QED
      BY <1>0, <1>00, <1>01, <1>02, <2>1, <3>3, ClosedStays DEF BondInv, OpenStatuses
  <2>5. QED
    BY <1>6, <2>2, <2>3, <2>4 DEF reveal, assignDuplicatePriority
<1>7. ASSUME NEW i \in Ids, finalize(i)
      PROVE  BondInv'
  <2>1. UNCHANGED paidAtCommit /\ status[i] = "Revealed"
    BY <1>7 DEF finalize, commitVars
  <2>2. CASE reject(i, solverOf[i]) /\ UNCHANGED finalizeInfo
    BY <1>2, <2>1, <2>2 DEF reject, makeBondClaimable
  <2>3. CASE /\ creditOf(i) # 0 => bondWei[i] >= R
             /\ status' = [status EXCEPT ![i] = "Finalized"]
             /\ IF creditOf(i) = 0 THEN makeBondClaimable(i, solverOf[i]) ELSE UNCHANGED bondVars
             /\ advanceFrontier(i)
    <3>1. bondWei' \in [Ids -> Nat] /\ \A j \in Ids \ {i} : bondWei'[j] = bondWei[j]
      BY <2>3 DEF makeBondClaimable, bondVars, BondInv
    <3>2. /\ status'[i] = "Finalized" /\ \A j \in Ids \ {i} : status'[j] = status[j]
      BY <1>00, <2>3
    <3>3. /\ finalizeInfo'[i].creditAtoms = creditOf(i)
          /\ \A j \in Ids \ {i} : finalizeInfo'[j] = finalizeInfo[j]
      BY <2>3 DEF advanceFrontier, BoardInv, LinkInv, FrontierShape
    <3>4. Bonded(i)'
      <4>1. CASE creditOf(i) = 0
        BY <3>2, <3>3, <4>1 DEF OpenStatuses
      <4>2. CASE creditOf(i) # 0
        BY <1>0, <2>3, <3>2, <3>3, <4>2 DEF bondVars
      <4>3. QED
        BY <4>1, <4>2
    <3>5. ASSUME NEW j \in Ids, j # i PROVE Bonded(j)'
      BY <1>0, <1>01, <2>1, <3>1, <3>2, <3>3, <3>5, ClosedStays
    <3>6. QED
      BY <1>02, <3>1, <3>4, <3>5
  <2>4. QED
    BY <1>7, <2>2, <2>3 DEF finalize, frontierVars, R
<1>8. ASSUME NEW i \in Ids, releaseFinalizedBond(i), UNCHANGED settlementVars
      PROVE  BondInv'
  <2>1. /\ closed /\ closed' /\ status[i] = "Finalized"
        /\ UNCHANGED <<status, paidAtCommit, finalizeInfo>>
        /\ bondWei' = [bondWei EXCEPT ![i] = 0]
    BY <1>8, ClosedStays
       DEF releaseFinalizedBond, makeBondClaimable, statusVars, commitVars, frontierVars
  <2>2. QED
    BY <1>0, <1>01, <1>02, <2>1 DEF BondInv, OpenStatuses
<1>9. CASE SubmissionStep /\ UNCHANGED <<settlementVars, disputeVars, finalizedAt>>
  <2>1. ASSUME NEW i \in Ids, expireCommitted(i) \/ expireRevealed(i) PROVE BondInv'
    BY <1>2, <2>1
       DEF expireCommitted, expireRevealed, reject, makeBondClaimable, commitVars, frontierVars
  <2>2. ASSUME NEW account \in Claimants, claimBond(account)
        PROVE  UNCHANGED <<status, paidAtCommit, finalizeInfo, bondWei>>
    BY <2>2 DEF claimBond, statusVars, commitVars, frontierVars
  <2>3. ASSUME recoverPausedAll
        PROVE  UNCHANGED <<status, paidAtCommit, finalizeInfo, bondWei>>
    BY <2>3 DEF recoverPausedAll, clearPausedAll, statusVars, commitVars, frontierVars, bondVars
  <2>4. QED
    BY <1>1, <1>4, <1>5, <1>6, <1>8, <1>9, <2>1, <2>2, <2>3 DEF SubmissionStep
<1>10. CASE OwnerStep
  BY <1>1, <1>10 DEF OwnerStep, setPausedNewActions, startPausedAll, endPausedAll, clearPausedAll,
     statusVars, commitVars, frontierVars, bondVars
<1>11. CASE FrontierStep
  <2>1. ASSUME NEW i \in Ids, voidFinalize(i) PROVE BondInv'
    BY <1>2, <2>1 DEF voidFinalize, makeBondClaimable, commitVars
  <2>2. QED
    BY <1>7, <1>11, <2>1 DEF FrontierStep, Voidable
<1>12. CASE DisputeStep
  <2>1. ASSUME NEW i \in Ids, markChallenged(i) PROVE BondInv'
    BY <1>3, <2>1 DEF markChallenged, commitVars, frontierVars, bondVars, OpenStatuses
  <2>2. ASSUME NEW i \in Ids, leaveChallenged(i),
               \/ \E account : reject(i, account)
               \/ \E deadline, cleared : returnToRevealed(i, deadline, cleared)
        PROVE  BondInv'
    <3>1. status[i] = "Challenged" /\ UNCHANGED <<paidAtCommit, finalizeInfo>>
      BY <2>2 DEF leaveChallenged, commitVars, frontierVars
    <3>2. \/ status' = [status EXCEPT ![i] = "Rejected"] /\ bondWei' = [bondWei EXCEPT ![i] = 0]
          \/ status' = [status EXCEPT ![i] = "Revealed"] /\ UNCHANGED bondWei
      BY <2>2 DEF returnToRevealed, reject, makeBondClaimable, bondVars
    <3>3. QED
      BY <1>2, <1>3, <3>1, <3>2 DEF OpenStatuses
  <2>3. ASSUME NEW i \in Ids, finalizeResolution(i) \/ expireChallenge(i) PROVE BondInv'
    BY <2>2, <2>3 DEF finalizeResolution, expireChallenge, resolveChallenge, rejectForChallenger
  <2>4. ASSUME NEW i \in Ids, slashResolverBond(i) PROVE BondInv'
    BY <2>2, <2>4 DEF slashResolverBond, cancelChallenge
  <2>5. ASSUME NEW i \in Ids, NEW wins \in BOOLEAN, NEW account \in Actors,
               applyObjectiveResolution(i, wins, account)
        PROVE  BondInv'
    BY <2>2, <2>5 DEF applyObjectiveResolution, resolveObjectiveChallenge, rejectForChallenger
  <2>6. ASSUME UNCHANGED managerVars PROVE BondInv'
    BY <1>1, <2>6 DEF managerVars, statusVars, commitVars, frontierVars, bondVars
  <2>7. QED
    BY <1>12, <2>1, <2>3, <2>4, <2>5, <2>6
       DEF DisputeStep, challenge, resolve, claimCounterBond, challengeSetPausedNewActions
<1>13. CASE UNCHANGED managerVars
  BY <1>1, <1>13 DEF managerVars, statusVars, commitVars, frontierVars, bondVars
<1>14. QED
  BY <1>9, <1>10, <1>11, <1>12, <1>13 DEF BoardNext, boardVars

(* From its commit until it is rejected, voided or the ledger closes, a paid
   submission carries the bond of the whole funding cap: credit is never on
   the ledger without collateral before the close. *)
THEOREM PaidAlwaysBonded == BoardSpec => []PaidStaysBonded
<1>1. BoardInit => BondInv
  BY DEF BoardInit, ManagerInit, BondInv, PaidStaysBonded, OpenStatuses
<1>2. BoardInv /\ DisputeInv /\ BondInv /\ [BoardNext]_boardVars => BondInv'
  BY BondStep
<1>3. BondInv => PaidStaysBonded
  BY DEF BondInv
<1>4. QED
  BY <1>1, <1>2, <1>3, BoardInvariant, DisputeInvariant, PTL DEF BoardSpec

(* A dispute stays consistent in every interleaving of challenges, decisions, slashes, pauses,
   timeouts, objective proofs and reveals of copies: the counters count, the two managers agree,
   no clock passes the horizon and nobody is stuck there, paid submissions stay bonded, priority
   holds and a cleared claim is never disputed again. *)
THEOREM DisputesAlwaysSafe == BoardSpec => []DisputeSafe
<1>1. /\ CountersAgree /\ DisputeAgrees /\ WithinHorizon /\ NoStuckDispute
      /\ PaidStaysBonded /\ PriorityHeld /\ ClearedStaysClear
      => DisputeSafe
  BY DEF DisputeSafe
<1>2. QED
  BY <1>1, CountersAlwaysAgree, ManagersAlwaysAgree, AlwaysWithinHorizon, NeverStuck,
     PaidAlwaysBonded, PriorityAlwaysHeld, ClearedForGood, PTL

-----------------------------------------------------------------------------
(* Sums over finite sets.  The sums of the model are SumFunction and
   SumFunctionOnSet of the community modules, a recursive function chosen with
   CHOOSE.  The lemmas below say that it exists, is unique and does what a sum
   does; each is proved by its smallest counterexample, from the fact that the
   subsets of a finite set are well founded.  They hold of any f and S. *)

(* An element of T, the one the folds of the community modules start with. *)
pick(T) == CHOOSE x \in T : TRUE

(* g is the table of the sums of f over the subsets of S: what the
   recursive function inside SumFunctionOnSet is, if it exists. *)
IsSum(g, f, S) ==
  g = [T \in SUBSET S |-> IF T = {} THEN 0 ELSE f[pick(T)] + g[T \ {pick(T)}]]

(* A sum is an entry of the table chosen for its set. *)
LEMMA SumUnfold ==
  ASSUME NEW f, NEW S
  PROVE SumFunctionOnSet(f, S) = (CHOOSE g : IsSum(g, f, S))[S]
  BY DEF SumFunctionOnSet, FoldFunctionOnSet, MapThenFoldSet, IsSum, pick

(* What fails for some subset of a finite set fails for one whose proper
   subsets all satisfy it. This takes the place of induction in every lemma
   below. *)
LEMMA SmallestFailing ==
  ASSUME NEW S, IsFiniteSet(S), NEW F \in SUBSET SUBSET S, F # {}
  PROVE  \E T \in F : \A U \in SUBSET T : U # T => U \notin F
<1>1. IsWellFoundedOn(StrictSubsetOrdering(S), SUBSET S)
  BY FS_StrictSubsetOrderingWellFounded, FS_FiniteSubsetsOfFinite
<1>2. PICK T \in F : \A U \in F : ~ (<<U, T>> \in StrictSubsetOrdering(S))
  BY <1>1, WFMin, Zenon
<1>3. ASSUME NEW U \in SUBSET T, U # T, U \in F PROVE FALSE
  <2>1. <<U, T>> \in StrictSubsetOrdering(S)
    BY <1>3 DEF StrictSubsetOrdering
  <2>2. QED
    BY <1>2, <1>3, <2>1
<1>4. QED
  BY <1>3

(* The choice from a nonempty set is in the set. *)
LEMMA PickIn == ASSUME NEW T, T # {} PROVE pick(T) \in T
  BY DEF pick

(* The table of S holds the table of each of its subsets. *)
LEMMA SumRestrict ==
  ASSUME NEW f, NEW S, NEW V \in SUBSET S, NEW g, IsSum(g, f, S)
  PROVE  IsSum([U \in SUBSET V |-> g[U]], f, V)
<1> DEFINE h == [U \in SUBSET V |-> g[U]]
<1>1. ASSUME NEW U \in SUBSET V
      PROVE  h[U] = IF U = {} THEN 0 ELSE f[pick(U)] + h[U \ {pick(U)}]
  <2>1. U \in SUBSET S /\ U \ {pick(U)} \in SUBSET V
    OBVIOUS
  <2>2. g[U] = IF U = {} THEN 0 ELSE f[pick(U)] + g[U \ {pick(U)}]
    BY <2>1 DEF IsSum
  <2>3. h[U] = g[U] /\ h[U \ {pick(U)}] = g[U \ {pick(U)}]
    BY <2>1
  <2>4. QED
    BY <2>2, <2>3
<1>2. h = [U \in SUBSET V |-> h[U]]
  OBVIOUS
<1> HIDE DEF h
<1>3. h = [U \in SUBSET V |-> IF U = {} THEN 0 ELSE f[pick(U)] + h[U \ {pick(U)}]]
  BY <1>1, <1>2, Zenon
<1>4. QED
  BY <1>3 DEF IsSum, h

(* There is at most one table. *)
LEMMA SumUnique ==
  ASSUME NEW f, NEW S, IsFiniteSet(S), NEW g, NEW h, IsSum(g, f, S), IsSum(h, f, S)
  PROVE  \A T \in SUBSET S : g[T] = h[T]
<1> DEFINE F == {T \in SUBSET S : g[T] # h[T]}
<1>1. SUFFICES ASSUME F # {} PROVE FALSE
  OBVIOUS
<1>2. PICK T \in F : \A U \in SUBSET T : U # T => U \notin F
  <2>1. F \in SUBSET SUBSET S
    OBVIOUS
  <2> HIDE DEF F
  <2>2. QED
    BY <1>1, <2>1, SmallestFailing
<1>3. /\ g[T] = IF T = {} THEN 0 ELSE f[pick(T)] + g[T \ {pick(T)}]
      /\ h[T] = IF T = {} THEN 0 ELSE f[pick(T)] + h[T \ {pick(T)}]
  BY DEF IsSum
<1>4. CASE T = {}
  BY <1>3, <1>4
<1>5. CASE T # {}
  <2>1. T \ {pick(T)} # T /\ T \ {pick(T)} \in SUBSET T
    BY <1>5, PickIn
  <2>2. g[T \ {pick(T)}] = h[T \ {pick(T)}]
    BY <1>2, <2>1
  <2>3. QED
    BY <1>3, <2>2
<1>6. QED
  BY <1>4, <1>5

(* There is a table for every finite set, so that the CHOOSE of the fold
   means what it says. *)
LEMMA SumExists ==
  ASSUME NEW f, NEW S, IsFiniteSet(S)
  PROVE  \E g : IsSum(g, f, S)
<1> DEFINE F == {T \in SUBSET S : ~ \E g : IsSum(g, f, T)}
<1>1. SUFFICES ASSUME F # {} PROVE FALSE
  OBVIOUS
<1>2. PICK T \in F : \A U \in SUBSET T : U # T => U \notin F
  <2>1. F \in SUBSET SUBSET S
    OBVIOUS
  <2> HIDE DEF F
  <2>2. QED
    BY <1>1, <2>1, SmallestFailing
<1>3. IsFiniteSet(T)
  BY FS_Subset
<1> DEFINE H(U) == CHOOSE g : IsSum(g, f, U)
           rest(U) == U \ {pick(U)}
           G == [U \in SUBSET T |-> IF U = {} THEN 0 ELSE f[pick(U)] + H(rest(U))[rest(U)]]
<1>4. ASSUME NEW U \in SUBSET T, U # T
      PROVE  IsSum(H(U), f, U) /\ IsFiniteSet(U)
  <2>1. U \notin F /\ U \in SUBSET S
    BY <1>2, <1>4
  <2>2. \E g : IsSum(g, f, U)
    BY <2>1
  <2>3. QED
    BY <2>2, <1>3, FS_Subset
<1>5. ASSUME NEW U \in SUBSET T, U # T
      PROVE  G[U] = H(U)[U]
  <2>1. IsSum(H(U), f, U)
    BY <1>4, <1>5
  <2> HIDE DEF H
  <2>2. H(U)[U] = IF U = {} THEN 0 ELSE f[pick(U)] + H(U)[rest(U)]
    BY <2>1 DEF IsSum
  <2>3. CASE U = {}
    BY <2>2, <2>3
  <2>4. CASE U # {}
    <3>1. rest(U) \in SUBSET U /\ rest(U) # T /\ rest(U) \in SUBSET T
      BY <2>4, <1>5, PickIn
    <3>2. IsSum([V \in SUBSET rest(U) |-> H(U)[V]], f, rest(U))
      BY <2>1, <3>1, SumRestrict
    <3>3. IsSum(H(rest(U)), f, rest(U)) /\ IsFiniteSet(rest(U))
      BY <1>4, <3>1
    <3>4. rest(U) \in SUBSET rest(U)
      OBVIOUS
    <3> DEFINE restricted == [V \in SUBSET rest(U) |-> H(U)[V]]
    <3>9. restricted[rest(U)] = H(U)[rest(U)]
      BY <3>4
    <3> HIDE DEF rest, restricted
    <3>5. restricted[rest(U)] = H(rest(U))[rest(U)]
      <4>1. IsSum(restricted, f, rest(U))
        BY <3>2 DEF restricted
      <4>2. QED
        BY <4>1, <3>3, <3>4, SumUnique
    <3>6. H(U)[rest(U)] = H(rest(U))[rest(U)]
      BY <3>9, <3>5
    <3>7. G[U] = f[pick(U)] + H(rest(U))[rest(U)]
      BY <2>4
    <3>8. QED
      BY <2>2, <2>4, <3>6, <3>7
  <2>5. QED
    BY <2>3, <2>4
<1>6. ASSUME NEW U \in SUBSET T
      PROVE  G[U] = IF U = {} THEN 0 ELSE f[pick(U)] + G[rest(U)]
  <2>1. CASE U = {}
    BY <2>1
  <2>2. CASE U # {}
    <3>1. rest(U) \in SUBSET T /\ rest(U) # T
      BY <2>2, PickIn
    <3>2. G[rest(U)] = H(rest(U))[rest(U)]
      BY <1>5, <3>1
    <3>3. G[U] = f[pick(U)] + H(rest(U))[rest(U)]
      BY <2>2
    <3>4. QED
      BY <2>2, <3>2, <3>3
  <2>3. QED
    BY <2>1, <2>2
<1>7. G = [U \in SUBSET T |-> G[U]]
  OBVIOUS
<1> HIDE DEF G
<1>8. G = [U \in SUBSET T |-> IF U = {} THEN 0 ELSE f[pick(U)] + G[U \ {pick(U)}]]
  BY <1>6, <1>7, Zenon
<1>9. IsSum(G, f, T)
  BY <1>8 DEF IsSum
<1>10. QED
  BY <1>9

(* The recursion that a sum obeys. *)
LEMMA SumStep ==
  ASSUME NEW f, NEW S, IsFiniteSet(S)
  PROVE  SumFunctionOnSet(f, S) =
           IF S = {} THEN 0 ELSE f[pick(S)] + SumFunctionOnSet(f, S \ {pick(S)})
<1> DEFINE g == CHOOSE h : IsSum(h, f, S)
<1>1. IsSum(g, f, S)
  BY SumExists
<1>2. SumFunctionOnSet(f, S) = g[S]
  BY SumUnfold
<1> HIDE DEF g
<1>3. g[S] = IF S = {} THEN 0 ELSE f[pick(S)] + g[S \ {pick(S)}]
  BY <1>1 DEF IsSum
<1>4. CASE S # {}
  <2> DEFINE R == S \ {pick(S)}
  <2>1. R \in SUBSET S /\ IsFiniteSet(R) /\ R \in SUBSET R
    BY FS_Subset
  <2>2. IsSum([U \in SUBSET R |-> g[U]], f, R)
    BY <1>1, <2>1, SumRestrict
  <2>3. IsSum(CHOOSE h : IsSum(h, f, R), f, R)
    BY <2>1, SumExists
  <2> DEFINE k == [U \in SUBSET R |-> g[U]]
             l == CHOOSE h : IsSum(h, f, R)
  <2>4. k[R] = g[R]
    BY <2>1
  <2> HIDE DEF R, k, l
  <2>5. k[R] = l[R]
    <3>1. IsSum(k, f, R) /\ IsSum(l, f, R)
      BY <2>2, <2>3 DEF k, l
    <3>2. QED
      BY <2>1, <3>1, SumUnique
  <2>7. g[R] = SumFunctionOnSet(f, R)
    BY <2>4, <2>5, SumUnfold DEF l
  <2>6. QED
    BY <1>2, <1>3, <1>4, <2>7 DEF R
<1>5. QED
  BY <1>2, <1>3, <1>4

(* The sum over nothing is zero. *)
LEMMA SumEmpty == ASSUME NEW f PROVE SumFunctionOnSet(f, {}) = 0
  BY SumStep, FS_EmptySet

(* A sum of integers is an integer. *)
LEMMA SumInt ==
  ASSUME NEW f, NEW S, IsFiniteSet(S), \A x \in S : f[x] \in Int
  PROVE  SumFunctionOnSet(f, S) \in Int
<1> DEFINE F == {T \in SUBSET S : SumFunctionOnSet(f, T) \notin Int}
<1>1. SUFFICES ASSUME F # {} PROVE FALSE
  OBVIOUS
<1>2. PICK T \in F : \A U \in SUBSET T : U # T => U \notin F
  <2>1. F \in SUBSET SUBSET S
    OBVIOUS
  <2> HIDE DEF F
  <2>2. QED
    BY <1>1, <2>1, SmallestFailing
<1>3. T \in SUBSET S /\ IsFiniteSet(T)
  BY FS_Subset
<1>4. SumFunctionOnSet(f, T) =
        IF T = {} THEN 0 ELSE f[pick(T)] + SumFunctionOnSet(f, T \ {pick(T)})
  BY <1>3, SumStep
<1>5. CASE T # {}
  <2>1. pick(T) \in S /\ T \ {pick(T)} \in SUBSET T /\ T \ {pick(T)} # T
    BY <1>3, <1>5, PickIn
  <2>2. T \ {pick(T)} \notin F
    BY <1>2, <2>1
  <2>3. SumFunctionOnSet(f, T \ {pick(T)}) \in Int
    BY <1>3, <2>1, <2>2
  <2>4. QED
    BY <1>4, <1>5, <2>1, <2>3
<1>6. QED
  BY <1>4, <1>5

(* Any element can be taken out of a sum, not only the one the fold picks. *)
LEMMA SumSplit ==
  ASSUME NEW f, NEW S, IsFiniteSet(S), \A z \in S : f[z] \in Int
  PROVE  \A x \in S : SumFunctionOnSet(f, S) = f[x] + SumFunctionOnSet(f, S \ {x})
<1> DEFINE Splits(T) == \A x \in T : SumFunctionOnSet(f, T) = f[x] + SumFunctionOnSet(f, T \ {x})
           F == {T \in SUBSET S : ~ Splits(T)}
<1>1. SUFFICES ASSUME F # {} PROVE FALSE
  OBVIOUS
<1>2. PICK T \in F : \A U \in SUBSET T : U # T => U \notin F
  <2>1. F \in SUBSET SUBSET S
    OBVIOUS
  <2> HIDE DEF F
  <2>2. QED
    BY <1>1, <2>1, SmallestFailing
<1>3. T \in SUBSET S /\ IsFiniteSet(T) /\ ~ Splits(T)
  BY FS_Subset
<1>4. PICK x \in T : SumFunctionOnSet(f, T) # f[x] + SumFunctionOnSet(f, T \ {x})
  BY <1>3
<1> DEFINE y == pick(T)
           Tx == T \ {x}
           Ty == T \ {y}
           Txy == T \ {x, y}
<1>5. y \in T /\ SumFunctionOnSet(f, T) = f[y] + SumFunctionOnSet(f, Ty)
  BY <1>3, PickIn, SumStep
<1>6. x # y
  BY <1>4, <1>5
<1>7. Splits(Tx) /\ Splits(Ty)
  <2>1. Tx \in SUBSET T /\ Tx # T /\ Ty \in SUBSET T /\ Ty # T
    BY <1>5
  <2>2. Tx \notin F /\ Ty \notin F
    BY <1>2, <2>1
  <2> HIDE DEF Splits, Tx, Ty
  <2>3. QED
    BY <1>3, <2>1, <2>2
<1>8. /\ SumFunctionOnSet(f, Tx) = f[y] + SumFunctionOnSet(f, Txy)
      /\ SumFunctionOnSet(f, Ty) = f[x] + SumFunctionOnSet(f, Txy)
  <2>1. y \in Tx /\ x \in Ty /\ Tx \ {y} = Txy /\ Ty \ {x} = Txy
    BY <1>5, <1>6
  <2> HIDE DEF Tx, Ty, Txy, y
  <2>2. QED
    BY <1>7, <2>1
<1>9. SumFunctionOnSet(f, Txy) \in Int /\ f[x] \in Int /\ f[y] \in Int
  <2>1. IsFiniteSet(Txy) /\ \A z \in Txy : f[z] \in Int
    BY <1>3, FS_Subset
  <2>2. QED
    BY <1>3, <1>5, <2>1, SumInt
<1> HIDE DEF y, Txy, Ty
<1>10. SumFunctionOnSet(f, T) = f[x] + SumFunctionOnSet(f, Tx)
  <2> HIDE DEF Tx
  <2>1. QED
    BY <1>5, <1>8, <1>9
<1>11. QED
  BY <1>4, <1>10

(* A sum depends on the values of its function over its set only. *)
LEMMA SumSame ==
  ASSUME NEW f, NEW g, NEW S, IsFiniteSet(S), \A z \in S : f[z] = g[z]
  PROVE  SumFunctionOnSet(f, S) = SumFunctionOnSet(g, S)
<1> DEFINE F == {T \in SUBSET S : SumFunctionOnSet(f, T) # SumFunctionOnSet(g, T)}
<1>1. SUFFICES ASSUME F # {} PROVE FALSE
  OBVIOUS
<1>2. PICK T \in F : \A U \in SUBSET T : U # T => U \notin F
  <2>1. F \in SUBSET SUBSET S
    OBVIOUS
  <2> HIDE DEF F
  <2>2. QED
    BY <1>1, <2>1, SmallestFailing
<1>3. T \in SUBSET S /\ IsFiniteSet(T)
  BY FS_Subset
<1> DEFINE R == T \ {pick(T)}
<1>4. /\ SumFunctionOnSet(f, T) = IF T = {} THEN 0 ELSE f[pick(T)] + SumFunctionOnSet(f, R)
      /\ SumFunctionOnSet(g, T) = IF T = {} THEN 0 ELSE g[pick(T)] + SumFunctionOnSet(g, R)
  BY <1>3, SumStep
<1>5. CASE T # {}
  <2>1. pick(T) \in S /\ R \in SUBSET T /\ R # T
    BY <1>3, <1>5, PickIn
  <2>2. SumFunctionOnSet(f, R) = SumFunctionOnSet(g, R)
    BY <1>2, <1>3, <2>1
  <2>3. QED
    BY <1>4, <1>5, <2>1, <2>2
<1>6. QED
  BY <1>4, <1>5

(* One value changes: the sum changes by the difference. *)
LEMMA SumUpdate ==
  ASSUME NEW f, NEW g, NEW S, IsFiniteSet(S), NEW x \in S,
         \A z \in S : f[z] \in Int, g[x] \in Int, \A z \in S \ {x} : g[z] = f[z]
  PROVE  SumFunctionOnSet(g, S) = SumFunctionOnSet(f, S) - f[x] + g[x]
<1> DEFINE R == S \ {x}
<1>1. IsFiniteSet(R) /\ R \subseteq S
  BY FS_Subset
<1>2. SumFunctionOnSet(f, S) = f[x] + SumFunctionOnSet(f, R)
  BY SumSplit
<1>3. \A z \in S : g[z] \in Int
  OBVIOUS
<1>4. SumFunctionOnSet(g, S) = g[x] + SumFunctionOnSet(g, R)
  BY <1>3, SumSplit
<1>5. SumFunctionOnSet(g, R) = SumFunctionOnSet(f, R)
  <2>1. \A z \in R : g[z] = f[z]
    OBVIOUS
  <2> HIDE DEF R
  <2>2. QED
    BY <1>1, <2>1, SumSame
<1>6. SumFunctionOnSet(f, R) \in Int
  BY <1>1, SumInt
<1> HIDE DEF R
<1>7. QED
  BY <1>2, <1>4, <1>5, <1>6

(* A sum of natural numbers is one, and none of its terms exceeds it. *)
LEMMA SumNat ==
  ASSUME NEW f, NEW S, IsFiniteSet(S), \A x \in S : f[x] \in Nat
  PROVE  SumFunctionOnSet(f, S) \in Nat /\ \A x \in S : f[x] <= SumFunctionOnSet(f, S)
<1>0. \A x \in S : f[x] \in Int
  OBVIOUS
<1> DEFINE F == {T \in SUBSET S : SumFunctionOnSet(f, T) \notin Nat}
<1>1. F = {}
  <2>1. SUFFICES ASSUME F # {} PROVE FALSE
    OBVIOUS
  <2>2. PICK T \in F : \A U \in SUBSET T : U # T => U \notin F
    <3>1. F \in SUBSET SUBSET S
      OBVIOUS
    <3> HIDE DEF F
    <3>2. QED
      BY <2>1, <3>1, SmallestFailing
  <2>3. T \in SUBSET S /\ IsFiniteSet(T)
    BY FS_Subset
  <2>4. SumFunctionOnSet(f, T) =
          IF T = {} THEN 0 ELSE f[pick(T)] + SumFunctionOnSet(f, T \ {pick(T)})
    BY <2>3, SumStep
  <2>5. CASE T # {}
    <3>1. pick(T) \in S /\ T \ {pick(T)} \in SUBSET T /\ T \ {pick(T)} # T
      BY <2>3, <2>5, PickIn
    <3>2. SumFunctionOnSet(f, T \ {pick(T)}) \in Nat
      BY <2>2, <2>3, <3>1
    <3>3. QED
      BY <2>4, <2>5, <3>1, <3>2
  <2>6. QED
    BY <2>4, <2>5
<1>2. ASSUME NEW x \in S
      PROVE  f[x] <= SumFunctionOnSet(f, S)
  <2>1. SumFunctionOnSet(f, S) = f[x] + SumFunctionOnSet(f, S \ {x})
    BY <1>0, SumSplit
  <2>2. SumFunctionOnSet(f, S \ {x}) \in Nat
    BY <1>1
  <2>3. QED
    BY <2>1, <2>2
<1>3. QED
  BY <1>1, <1>2

(* Bounded share by share, bounded in total. *)
LEMMA SumScaled ==
  ASSUME NEW f, NEW g, NEW S, IsFiniteSet(S), NEW p \in Nat, NEW d \in Nat,
         \A x \in S : f[x] \in Nat /\ g[x] \in Nat /\ d * g[x] <= p * f[x]
  PROVE  d * SumFunctionOnSet(g, S) <= p * SumFunctionOnSet(f, S)
<1> DEFINE F == {T \in SUBSET S : ~ (d * SumFunctionOnSet(g, T) <= p * SumFunctionOnSet(f, T))}
<1>1. SUFFICES ASSUME F # {} PROVE FALSE
  OBVIOUS
<1>2. PICK T \in F : \A U \in SUBSET T : U # T => U \notin F
  <2>1. F \in SUBSET SUBSET S
    OBVIOUS
  <2> HIDE DEF F
  <2>2. QED
    BY <1>1, <2>1, SmallestFailing
<1>3. T \in SUBSET S /\ IsFiniteSet(T)
  BY FS_Subset
<1> DEFINE R == T \ {pick(T)}
<1>4. /\ SumFunctionOnSet(f, T) = IF T = {} THEN 0 ELSE f[pick(T)] + SumFunctionOnSet(f, R)
      /\ SumFunctionOnSet(g, T) = IF T = {} THEN 0 ELSE g[pick(T)] + SumFunctionOnSet(g, R)
  BY <1>3, SumStep
<1>5. CASE T = {}
  BY <1>4, <1>5
<1>6. CASE T # {}
  <2>1. pick(T) \in S /\ R \in SUBSET T /\ R # T /\ R \in SUBSET S /\ IsFiniteSet(R)
    BY <1>3, <1>6, PickIn, FS_Subset
  <2>2. d * SumFunctionOnSet(g, R) <= p * SumFunctionOnSet(f, R)
    BY <1>2, <2>1
  <2>3. SumFunctionOnSet(f, R) \in Nat /\ SumFunctionOnSet(g, R) \in Nat
    <3>1. \A x \in R : f[x] \in Nat /\ g[x] \in Nat
      BY <2>1
    <3> HIDE DEF R
    <3>2. QED
      BY <2>1, <3>1, SumNat
  <2>4. \A a, b, u, v \in Nat : d * a <= p * u /\ d * b <= p * v => d * (a + b) <= p * (u + v)
    <3>1. \A a, b \in Nat : d * (a + b) = d * a + d * b /\ p * (a + b) = p * a + p * b
      BY SMT
    <3>2. \A a, b \in Nat : d * a \in Nat /\ p * a \in Nat
      BY SMT
    <3>3. QED
      BY <3>1, <3>2
  <2> HIDE DEF R
  <2>5. QED
    BY <1>4, <1>6, <2>1, <2>2, <2>3, <2>4
<1>7. QED
  BY <1>5, <1>6

-----------------------------------------------------------------------------
(* The money side again: what the sums of the awards and of the principals
   have to do with the balance of the pool. *)

(* Value by value no larger, no larger in total. *)
LEMMA SumMonotone ==
    ASSUME NEW f, NEW g, NEW S, IsFiniteSet(S),
           \A x \in S : f[x] \in Nat /\ g[x] \in Nat /\ g[x] <= f[x]
    PROVE  SumFunctionOnSet(g, S) <= SumFunctionOnSet(f, S)
<1>1. 1 * SumFunctionOnSet(g, S) <= 1 * SumFunctionOnSet(f, S)
  <2>1. \A x \in S : f[x] \in Nat /\ g[x] \in Nat /\ 1 * g[x] <= 1 * f[x]
    OBVIOUS
  <2>2. 1 \in Nat
    OBVIOUS
  <2>3. QED
    BY <2>1, <2>2, SumScaled
<1>2. SumFunctionOnSet(g, S) \in Nat /\ SumFunctionOnSet(f, S) \in Nat
  BY SumNat
<1>3. QED
  BY <1>1, <1>2

(* Zeros add up to zero. *)
LEMMA SumZero ==
    ASSUME NEW f, NEW S, IsFiniteSet(S), \A x \in S : f[x] = 0
    PROVE  SumFunctionOnSet(f, S) = 0
<1>1. SumFunctionOnSet(f, S) \in Nat
  BY SumNat
<1>2. SumFunctionOnSet(f, S) <= 0
  <2>1. \A x \in S : f[x] \in Nat /\ 1 * f[x] <= 0 * f[x]
    OBVIOUS
  <2>2. 1 \in Nat /\ 0 \in Nat
    OBVIOUS
  <2>3. 1 * SumFunctionOnSet(f, S) <= 0 * SumFunctionOnSet(f, S)
    BY <2>1, <2>2, SumScaled
  <2>4. QED
    BY <1>1, <2>3
<1>3. QED
  BY <1>1, <1>2

-----------------------------------------------------------------------------
(* While credit shares the pool or not: every principal is accounted for. *)
LEMMA SponsorsStep ==
    SettlementInv /\ SponsorsCovered /\ [SettlementNext]_settlementVars => SponsorsCovered'
<1> SUFFICES ASSUME SettlementInv, SponsorsCovered, [SettlementNext]_settlementVars
             PROVE  SponsorsCovered'
  OBVIOUS
<1>0. /\ IsFiniteSet(Actors) /\ DOMAIN sponsorshipOf = Actors
      /\ sponsorshipOf \in [Actors -> Nat] /\ accountedBalance \in Nat
      /\ totalCreditAtoms \in Nat
  BY LedgerAssumption DEF SettlementInv, SettlementTypeOK, PoolTypeOK, LedgerTypeOK
<1>1. ASSUME UNCHANGED <<accountedBalance, sponsorshipOf>>, ~positiveCreditClose' => ~positiveCreditClose
      PROVE  SponsorsCovered'
  BY <1>1 DEF SponsorsCovered
<1>2. ASSUME UNCHANGED ledgerVars
      PROVE  positiveCreditClose' = positiveCreditClose
  BY <1>2 DEF positiveCreditClose, ledgerVars, creditVars, closeVars
<1>3. ASSUME PoolStep, UNCHANGED ledgerVars
      PROVE  SponsorsCovered'
  <2>1. CASE freeze
    BY <1>1, <1>2, <1>3, <2>1 DEF freeze, balanceVars, poolFundVars
  <2>2. ASSUME NEW accepting \in AcceptingChoices, setAcceptingFunds(accepting)
        PROVE  SponsorsCovered'
    BY <1>1, <1>2, <1>3, <2>2 DEF setAcceptingFunds, balanceVars, poolFundVars
  <2>3. ASSUME NEW sponsor \in Actors, NEW value \in FundingAmounts, fund(sponsor, value)
        PROVE  SponsorsCovered'
    <3>1. /\ ~positiveCreditClose /\ value \in Nat
          /\ accountedBalance' = accountedBalance + value
          /\ sponsorshipOf' = [sponsorshipOf EXCEPT ![sponsor] = @ + value]
      BY <2>3, PoolAssumption DEF fund, positiveCreditClose
    <3>2. SumFunctionOnSet(sponsorshipOf', Actors)
            = SumFunctionOnSet(sponsorshipOf, Actors) - sponsorshipOf[sponsor] + sponsorshipOf'[sponsor]
      <4>1. /\ \A a \in Actors : sponsorshipOf[a] \in Int
            /\ sponsorshipOf'[sponsor] \in Int
            /\ \A a \in Actors \ {sponsor} : sponsorshipOf'[a] = sponsorshipOf[a]
        BY <1>0, <3>1
      <4>2. QED
        BY <1>0, <4>1, SumUpdate
    <3>3. sponsorshipOf'[sponsor] = sponsorshipOf[sponsor] + value /\ DOMAIN sponsorshipOf' = Actors
      BY <1>0, <3>1
    <3>4. SumFunctionOnSet(sponsorshipOf, Actors) = accountedBalance
      BY <1>0, <3>1 DEF SponsorsCovered, SumFunction
    <3>5. SumFunctionOnSet(sponsorshipOf', Actors) = accountedBalance'
      BY <1>0, <3>1, <3>2, <3>3, <3>4
    <3>6. QED
      BY <3>3, <3>5 DEF SponsorsCovered, SumFunction
  <2>4. ASSUME NEW value \in ForcedAmounts, forceEth(value)
        PROVE  SponsorsCovered'
    BY <1>1, <1>2, <1>3, <2>4 DEF forceEth, poolFundVars
  <2>5. ASSUME NEW sponsor \in Actors, sponsorRefundTo(sponsor)
        PROVE  SponsorsCovered'
    <3>1. /\ ~positiveCreditClose
          /\ accountedBalance' = accountedBalance - sponsorshipOf[sponsor]
          /\ sponsorshipOf' = [sponsorshipOf EXCEPT ![sponsor] = 0]
      BY <2>5 DEF sponsorRefundTo, payOut, positiveCreditClose, sponsorRefundsEnabled
    <3>2. SumFunctionOnSet(sponsorshipOf', Actors)
            = SumFunctionOnSet(sponsorshipOf, Actors) - sponsorshipOf[sponsor] + sponsorshipOf'[sponsor]
      <4>1. /\ \A a \in Actors : sponsorshipOf[a] \in Int
            /\ sponsorshipOf'[sponsor] \in Int
            /\ \A a \in Actors \ {sponsor} : sponsorshipOf'[a] = sponsorshipOf[a]
        BY <1>0, <3>1
      <4>2. QED
        BY <1>0, <4>1, SumUpdate
    <3>3. sponsorshipOf'[sponsor] = 0 /\ DOMAIN sponsorshipOf' = Actors
      BY <1>0, <3>1
    <3>4. SumFunctionOnSet(sponsorshipOf, Actors) = accountedBalance
      BY <1>0, <3>1 DEF SponsorsCovered, SumFunction
    <3>5. SumFunctionOnSet(sponsorshipOf', Actors) = accountedBalance'
      BY <1>0, <3>1, <3>2, <3>3, <3>4
    <3>6. QED
      BY <3>3, <3>5 DEF SponsorsCovered, SumFunction
  <2>6. ASSUME claimFees
        PROVE  SponsorsCovered'
    <3>1. positiveCreditClose
      BY <2>6 DEF claimFees, SettlementInv, SettlementTypeOK, PoolTypeOK, BooksBalance,
         ModeOfPayments
    <3>2. QED
      BY <1>2, <1>3, <3>1 DEF SponsorsCovered
  <2>7. ASSUME NEW amount \in 1..forcedEthAvailable, recoverForcedEth(amount)
        PROVE  SponsorsCovered'
    BY <1>1, <1>2, <1>3, <2>7 DEF recoverForcedEth, poolFundVars
  <2>8. QED
    BY <1>3, <2>1, <2>2, <2>3, <2>4, <2>5, <2>6, <2>7 DEF PoolStep
<1>4. ASSUME ClaimStep
      PROVE  SponsorsCovered'
  <2>1. positiveCreditClose'
    BY <1>4 DEF ClaimStep, claimTo, donateClaimToPool, settleClaim, consumeClaim, sweepRollover,
       markRolloverSwept, positiveCreditClose, creditVars, closeVars
  <2>2. QED
    BY <2>1 DEF SponsorsCovered
<1>5. ASSUME RecorderStep, UNCHANGED poolVars
      PROVE  SponsorsCovered'
  <2>1. ~positiveCreditClose
    BY <1>5 DEF RecorderStep, recordCredit, voidCredit, close, positiveCreditClose
  <2>2. QED
    BY <1>1, <1>5, <2>1 DEF poolVars, balanceVars, poolFundVars
<1>6. ASSUME UNCHANGED <<creditVars, closeVars, poolVars>>
      PROVE  SponsorsCovered'
  BY <1>1, <1>6 DEF positiveCreditClose, creditVars, closeVars, poolVars, balanceVars, poolFundVars
<1>7. QED
  BY <1>3, <1>4, <1>5, <1>6 DEF SettlementNext, settlementVars, ledgerVars, ledgerSetPausedNewActions

(* The denominator of the shares is the sum of the credits: recordCredit and
   voidCredit move both by the same amount. *)
CreditsAddUp == totalCreditAtoms = SumFunction(creditAtomsOf)

(* The inductive invariant of the awards, beside that of Settlement. *)
AwardsInv == CreditsAddUp /\ AwardsCovered

(* Every step of the money side keeps the denominator of the shares. *)
LEMMA CreditsAddUpStep ==
    SettlementInv /\ CreditsAddUp /\ [SettlementNext]_settlementVars => CreditsAddUp'
<1> SUFFICES ASSUME SettlementInv, CreditsAddUp, [SettlementNext]_settlementVars
             PROVE  CreditsAddUp'
  OBVIOUS
<1>0. /\ IsFiniteSet(Actors)
      /\ creditAtomsOf \in [Actors -> Nat] /\ DOMAIN creditAtomsOf = Actors
      /\ \A a \in Actors : creditAtomsOf[a] \in Int
      /\ SumFunctionOnSet(creditAtomsOf, Actors) = totalCreditAtoms
      /\ totalCreditAtoms \in Nat
  BY LedgerAssumption DEF SettlementInv, SettlementTypeOK, LedgerTypeOK, CreditsAddUp, SumFunction
<1>1. ASSUME UNCHANGED creditVars
      PROVE  CreditsAddUp'
  BY <1>1 DEF CreditsAddUp, creditVars
<1>2. ASSUME NEW solver \in Actors, NEW d \in Int,
             /\ creditAtomsOf'[solver] = creditAtomsOf[solver] + d
             /\ DOMAIN creditAtomsOf' = Actors
             /\ \A a \in Actors \ {solver} : creditAtomsOf'[a] = creditAtomsOf[a]
             /\ totalCreditAtoms' = totalCreditAtoms + d
      PROVE  CreditsAddUp'
  <2>1. SumFunctionOnSet(creditAtomsOf', Actors)
          = SumFunctionOnSet(creditAtomsOf, Actors) - creditAtomsOf[solver] + creditAtomsOf'[solver]
    <3>1. creditAtomsOf'[solver] \in Int
      BY <1>0, <1>2
    <3>2. QED
      BY <1>0, <1>2, <3>1, SumUpdate
  <2>2. QED
    BY <1>0, <1>2, <2>1 DEF CreditsAddUp, SumFunction
<1>3. ASSUME NEW solver \in Actors, NEW atoms \in CreditAmounts,
             recordCredit(solver, atoms) \/ voidCredit(solver, atoms)
      PROVE  CreditsAddUp'
  <2>0. atoms \in Nat
    BY CreditAssumption
  <2>1. PICK d \in Int : /\ creditAtomsOf'[solver] = creditAtomsOf[solver] + d
                         /\ DOMAIN creditAtomsOf' = Actors
                         /\ \A a \in Actors \ {solver} : creditAtomsOf'[a] = creditAtomsOf[a]
                         /\ totalCreditAtoms' = totalCreditAtoms + d
    <3>1. CASE recordCredit(solver, atoms)
      <4> atoms \in Int
        BY <2>0
      <4>1. WITNESS atoms \in Int
      <4>2. QED
        BY <1>0, <2>0, <3>1 DEF recordCredit
    <3>2. CASE voidCredit(solver, atoms)
      <4> -atoms \in Int
        BY <2>0
      <4>1. WITNESS (-atoms) \in Int
      <4>2. QED
        BY <1>0, <2>0, <3>2 DEF voidCredit
    <3>3. QED
      BY <1>3, <3>1, <3>2
  <2>2. QED
    BY <1>2, <2>1
<1>4. QED
  BY <1>1, <1>3 DEF SettlementNext, settlementVars, ledgerVars, RecorderStep, close, ClaimStep,
     claimTo, donateClaimToPool, settleClaim, consumeClaim, sweepRollover, markRolloverSwept,
     ledgerSetPausedNewActions

-----------------------------------------------------------------------------
(* What is still to be claimed. *)
Awards == [s \in Actors |-> claimable(s)]

(* The sum of the unclaimed awards. *)
Outstanding == SumFunctionOnSet(Awards, Actors)

(* The property, said of that sum, before and after a step. *)
LEMMA AwardsUnfold ==
    /\ AwardsCovered <=> Outstanding + accruedFeeBalance <= accountedBalance
    /\ AwardsCovered' <=> Outstanding' + accruedFeeBalance' <= accountedBalance'
<1>1. DOMAIN Awards = Actors /\ DOMAIN Awards' = Actors
  BY DEF Awards
<1>2. SumFunction(Awards) = Outstanding /\ SumFunction(Awards)' = Outstanding'
  BY <1>1 DEF SumFunction, Outstanding
<1>3. QED
  BY <1>2 DEF AwardsCovered, Awards

(* The unclaimed awards and their sum are amounts. *)
AwardsAreNat ==
    /\ Outstanding \in Nat
    /\ \A s \in Actors : Awards[s] = claimable(s) /\ Awards[s] \in Nat

(* So they are in every well-typed state. *)
LEMMA AwardsNat == LedgerTypeOK => AwardsAreNat
<1> SUFFICES ASSUME LedgerTypeOK PROVE AwardsAreNat
  OBVIOUS
<1>1. \A s \in Actors : Awards[s] = claimable(s) /\ claimable(s) \in Nat
  BY ClaimableNat DEF Awards
<1>2. IsFiniteSet(Actors)
  BY LedgerAssumption
<1>3. Outstanding \in Nat
  BY <1>1, <1>2, SumNat DEF Outstanding
<1>4. QED
  BY <1>1, <1>3 DEF AwardsAreNat

(* Before a positive-credit close, and after the claim deadline, nothing can
   be claimed. *)
LEMMA NothingToClaim ==
    LedgerTypeOK /\ (positiveCreditClose => now > claimDeadline) => Outstanding = 0
<1> SUFFICES ASSUME LedgerTypeOK, positiveCreditClose => now > claimDeadline
             PROVE  Outstanding = 0
  OBVIOUS
<1>1. \A s \in Actors : Awards[s] = 0
  BY DEF Awards, claimable, finalEntitlement, LedgerTypeOK
<1>2. QED
  BY <1>1, SumZero, LedgerAssumption DEF Outstanding

(* The shares of a close are rounded down, so that they never add up to more
   than the balance they share (finalEntitlement). *)
LEMMA SharesFit ==
    LedgerTypeOK /\ CreditsAddUp /\ positiveCreditClose => Outstanding <= closedPoolBalance
<1> SUFFICES ASSUME LedgerTypeOK, CreditsAddUp, positiveCreditClose
             PROVE  Outstanding <= closedPoolBalance
  OBVIOUS
<1> DEFINE P == closedPoolBalance
           D == totalCreditAtoms
<1>1. P \in Nat /\ D \in Nat /\ D > 0 /\ IsFiniteSet(Actors)
  BY LedgerAssumption DEF LedgerTypeOK, positiveCreditClose
<1>2. \A s \in Actors : creditAtomsOf[s] \in Nat /\ Awards[s] = claimable(s) /\ Awards[s] \in Nat
  BY AwardsNat DEF AwardsAreNat, LedgerTypeOK
<1>3. ASSUME NEW s \in Actors
      PROVE  D * Awards[s] <= P * creditAtomsOf[s]
  <2> DEFINE z == P * creditAtomsOf[s]
             q == z \div D
  <2>1. z \in Nat
    <3>1. \A x, y \in Nat : x * y \in Nat
      BY SMT
    <3>2. QED
      BY <1>1, <1>2, <3>1
  <2>2. finalEntitlement(s) = q
    BY DEF finalEntitlement, mulDiv
  <2> HIDE DEF z
  <2>3. q \in Nat /\ D * q <= z
    <3>1. \A x \in Nat : \A y \in Nat \ {0} : x \div y \in Nat /\ y * (x \div y) <= x
      BY SMT
    <3>2. QED
      BY <1>1, <2>1, <3>1
  <2>4. Awards[s] <= q
    BY <1>2, <2>2, <2>3 DEF claimable, LedgerTypeOK
  <2> HIDE DEF q
  <2>5. D * Awards[s] <= D * q
    <3>1. \A x, y, d \in Nat : x <= y => d * x <= d * y
      BY SMT
    <3>2. QED
      BY <1>1, <1>2, <2>3, <2>4, <3>1
  <2>6. D * Awards[s] \in Int /\ D * q \in Int
    <3>1. \A x, y \in Nat : x * y \in Int
      BY SMT
    <3>2. QED
      BY <1>1, <1>2, <2>3, <3>1
  <2>7. QED
    BY <2>1, <2>3, <2>5, <2>6 DEF z
<1>4. D * Outstanding <= P * SumFunctionOnSet(creditAtomsOf, Actors)
  BY <1>1, <1>2, <1>3, SumScaled DEF Outstanding
<1>5. SumFunctionOnSet(creditAtomsOf, Actors) = D
  BY DEF CreditsAddUp, SumFunction, LedgerTypeOK
<1>6. Outstanding \in Nat
  BY AwardsNat DEF AwardsAreNat
<1> HIDE DEF P, D
<1>7. \A x, y \in Nat : \A d \in Nat \ {0} : d * x <= y * d => x <= y
  BY SMT
<1>8. Outstanding <= P
  BY <1>1, <1>4, <1>5, <1>6, <1>7
<1>9. QED
  BY <1>8 DEF P

(* A claim lowers the pool by no more than it lowers the sum; the close
   shares out no more than the pool holds; no other step takes money that
   is owed. *)
LEMMA AwardsStep ==
    /\ SettlementInv /\ SettlementInv' /\ AwardsInv /\ CreditsAddUp'
    /\ [SettlementNext]_settlementVars
    => AwardsCovered'
<1> SUFFICES ASSUME SettlementInv, SettlementInv', AwardsInv, CreditsAddUp',
                    [SettlementNext]_settlementVars
             PROVE  AwardsCovered'
  OBVIOUS
<1>0. /\ LedgerTypeOK /\ LedgerTypeOK' /\ IsFiniteSet(Actors)
      /\ accruedFeeBalance \in Nat /\ accountedBalance \in Nat
      /\ accruedFeeBalance' \in Nat /\ accountedBalance' \in Nat
  BY LedgerAssumption DEF SettlementInv, SettlementTypeOK, PoolTypeOK
<1>1. /\ Outstanding \in Nat /\ Outstanding' \in Nat
      /\ \A s \in Actors : Awards[s] = claimable(s) /\ Awards[s] \in Nat
      /\ \A s \in Actors : Awards'[s] = claimable(s)' /\ Awards'[s] \in Nat
  <2>1. LedgerTypeOK' => AwardsAreNat'
    BY AwardsNat, PTL
  <2>2. QED
    BY <1>0, <2>1, AwardsNat DEF AwardsAreNat
<1>16. PICK left \in Nat : left = Outstanding'
  BY <1>1
<1>2. Outstanding + accruedFeeBalance <= accountedBalance
  BY AwardsUnfold DEF AwardsInv
<1>3. (positiveCreditClose' => now' > claimDeadline') => left = 0
  <2>1. (LedgerTypeOK /\ (positiveCreditClose => now > claimDeadline) => Outstanding = 0)'
    BY NothingToClaim, PTL
  <2>2. QED
    BY <1>16, <1>0, <2>1
<1>4. accruedFeeBalance > 0 => positiveCreditClose
  BY DEF SettlementInv, SettlementTypeOK, PoolTypeOK, BooksBalance, ModeOfPayments
<1>5. SUFFICES left + accruedFeeBalance' <= accountedBalance'
  BY <1>16, AwardsUnfold
(* The ledger stands still: so do the awards. *)
<1>6. ASSUME UNCHANGED <<now, creditVars, closeVars, claimedWeiOf>>
      PROVE  Outstanding' = Outstanding
  <2>1. Awards' = Awards
    BY <1>6 DEF Awards, claimable, claimDeadline, finalEntitlement, positiveCreditClose,
       creditVars, closeVars
  <2>2. QED
    BY <2>1 DEF Outstanding
(* Time only ends awards. *)
<1>7. ASSUME now' \in Nat, now' >= now, UNCHANGED <<creditVars, closeVars, claimedWeiOf>>
      PROVE  left <= Outstanding
  <2>1. \A s \in Actors : Awards'[s] <= Awards[s]
    <3>1. claimDeadline' = claimDeadline /\ claimDeadline \in Int
      BY <1>0, <1>7, LedgerAssumption DEF claimDeadline, positiveCreditClose, creditVars, closeVars,
         LedgerTypeOK
    <3>2. now' > claimDeadline' \/ ~(now > claimDeadline)
      BY <1>0, <1>7, <3>1 DEF LedgerTypeOK
    <3>3. ASSUME NEW s \in Actors
          PROVE  claimable(s)' = claimable(s) \/ claimable(s)' = 0
      <4>1. finalEntitlement(s)' = finalEntitlement(s)
        BY <1>7 DEF finalEntitlement, positiveCreditClose, creditVars, closeVars
      <4>2. QED
        BY <1>7, <3>2, <4>1 DEF claimable
    <3>4. QED
      BY <1>1, <3>3
  <2>2. QED
    BY <1>16, <1>0, <1>1, <2>1, SumMonotone DEF Outstanding
<1>8. ASSUME PoolStep, UNCHANGED <<now, ledgerVars>>
      PROVE  left + accruedFeeBalance' <= accountedBalance'
  <2>0. left = Outstanding /\ positiveCreditClose' = positiveCreditClose
    BY <1>16, <1>6, <1>8 DEF ledgerVars, claimVars, creditVars, closeVars, positiveCreditClose
  <2>1. CASE freeze
    BY <1>2, <2>0, <2>1 DEF freeze, balanceVars, poolFeeVars
  <2>2. ASSUME NEW accepting \in AcceptingChoices, setAcceptingFunds(accepting)
        PROVE  left + accruedFeeBalance' <= accountedBalance'
    BY <1>2, <2>0, <2>2 DEF setAcceptingFunds, balanceVars, poolFeeVars
  <2>3. ASSUME NEW sponsor \in Actors, NEW value \in FundingAmounts, fund(sponsor, value)
        PROVE  left + accruedFeeBalance' <= accountedBalance'
    BY <1>0, <1>1, <1>2, <2>0, <2>3, PoolAssumption DEF fund, poolFeeVars
  <2>4. ASSUME NEW value \in ForcedAmounts, forceEth(value)
        PROVE  left + accruedFeeBalance' <= accountedBalance'
    BY <1>2, <2>0, <2>4 DEF forceEth, poolFeeVars
  <2>5. ASSUME NEW sponsor \in Actors, sponsorRefundTo(sponsor)
        PROVE  left + accruedFeeBalance' <= accountedBalance'
    <3>1. ~positiveCreditClose
      BY <2>5 DEF sponsorRefundTo, positiveCreditClose, sponsorRefundsEnabled
    <3>2. left = 0 /\ accruedFeeBalance' = 0
      BY <1>0, <1>3, <1>4, <2>0, <2>5, <3>1 DEF sponsorRefundTo, poolFeeVars
    <3>3. QED
      BY <1>0, <3>2
  <2>6. ASSUME claimFees
        PROVE  left + accruedFeeBalance' <= accountedBalance'
    BY <1>0, <1>1, <1>2, <2>0, <2>6 DEF claimFees, payOut
  <2>7. ASSUME NEW amount \in 1..forcedEthAvailable, recoverForcedEth(amount)
        PROVE  left + accruedFeeBalance' <= accountedBalance'
    BY <1>2, <2>0, <2>7 DEF recoverForcedEth, poolFeeVars
  <2>8. QED
    BY <1>8, <2>1, <2>2, <2>3, <2>4, <2>5, <2>6, <2>7 DEF PoolStep
(* A claim ends the award of its solver and no other. *)
<1>9. ASSUME NEW solver \in Actors, NEW donated \in BOOLEAN, settleClaim(solver, donated),
             UNCHANGED now
      PROVE  left + accruedFeeBalance' <= accountedBalance'
  <2> DEFINE gross == claimable(solver)
             fee == feeOf(gross)
  <2>1. gross \in Nat /\ Awards[solver] = gross
    BY <1>1
  <2>2. fee \in Nat /\ fee <= gross
    BY <2>1, FeeWithinGross
  <2>3. /\ claimedWeiOf' = [claimedWeiOf EXCEPT ![solver] = @ + gross]
        /\ UNCHANGED <<creditVars, closeVars>>
        /\ gross # 0
        /\ accountedBalance' = accountedBalance - (gross - fee)
        /\ accruedFeeBalance' = accruedFeeBalance + fee
    BY <1>9 DEF settleClaim, consumeClaim, payOut
  <2>4. /\ \A s \in Actors : finalEntitlement(s)' = finalEntitlement(s)
        /\ claimDeadline' = claimDeadline
    BY <2>3 DEF finalEntitlement, claimDeadline, positiveCreditClose, creditVars, closeVars
  <2>5. \A s \in Actors \ {solver} : Awards'[s] = Awards[s]
    BY <1>0, <1>1, <1>9, <2>3, <2>4 DEF claimable, LedgerTypeOK
  <2>6. Awards'[solver] = 0
    <3>1. claimedWeiOf[solver] + gross = finalEntitlement(solver)
      <4>1. finalEntitlement(solver) \in Int
        BY <1>0, <2>1, <2>3 DEF claimable, finalEntitlement, mulDiv, positiveCreditClose, LedgerTypeOK
      <4>2. QED
        BY <1>0, <2>3, <4>1 DEF claimable, LedgerTypeOK
    <3>2. claimedWeiOf'[solver] = finalEntitlement(solver)'
      BY <1>0, <2>3, <2>4, <3>1 DEF LedgerTypeOK
    <3>3. claimedWeiOf'[solver] \in Nat
      BY <1>0 DEF LedgerTypeOK
    <3>4. QED
      BY <1>1, <3>2, <3>3 DEF claimable
  <2>7. left = Outstanding - gross
    <3>1. /\ \A s \in Actors : Awards[s] \in Int
          /\ Awards'[solver] \in Int
      BY <1>1
    <3>2. SumFunctionOnSet(Awards', Actors)
            = SumFunctionOnSet(Awards, Actors) - Awards[solver] + Awards'[solver]
      BY <1>0, <2>5, <3>1, SumUpdate
    <3>3. QED
      BY <1>16, <1>1, <2>1, <2>6, <3>2 DEF Outstanding
  <2> HIDE DEF gross, fee
  <2>8. QED
    BY <1>0, <1>1, <1>2, <2>1, <2>2, <2>3, <2>7
<1>10. ASSUME sweepRollover, UNCHANGED now
       PROVE  left + accruedFeeBalance' <= accountedBalance'
  <2>1. /\ now > claimDeadline /\ accruedFeeBalance <= accountedBalance
        /\ UNCHANGED <<creditVars, closeVars, claimedWeiOf, accruedFeeBalance>>
        /\ accountedBalance' = accountedBalance - (accountedBalance - accruedFeeBalance)
    BY <1>10 DEF sweepRollover, markRolloverSwept, payOut, rolloverBalance, poolFeeVars
  <2>2. now' > claimDeadline'
    BY <1>10, <2>1 DEF claimDeadline, positiveCreditClose, creditVars, closeVars
  <2>3. left = 0
    BY <1>3, <2>2
  <2>4. QED
    BY <1>0, <2>1, <2>3
<1>11. ASSUME RecorderStep, UNCHANGED <<now, poolVars>>
       PROVE  left + accruedFeeBalance' <= accountedBalance'
  <2>0. accountedBalance' = accountedBalance /\ accruedFeeBalance' = accruedFeeBalance
    BY <1>11 DEF poolVars, balanceVars, poolFeeVars
  <2>1. CASE ~positiveCreditClose'
    <3>1. left = 0
      BY <1>3, <2>1
    <3>2. QED
      BY <1>0, <1>1, <1>2, <2>0, <3>1
  <2>2. CASE positiveCreditClose'
    <3>1. ~positiveCreditClose /\ closedPoolBalance' = accountedBalance
      BY <1>11, <2>2 DEF RecorderStep, recordCredit, voidCredit, close, positiveCreditClose,
         closeVars, funded
    <3>2. (LedgerTypeOK /\ CreditsAddUp /\ positiveCreditClose => Outstanding <= closedPoolBalance)'
      BY SharesFit, PTL
    <3>3. accruedFeeBalance' = 0
      BY <1>0, <1>4, <2>0, <3>1
    <3>4. left <= closedPoolBalance'
      BY <1>16, <1>0, <2>2, <3>2
    <3>5. QED
      BY <1>0, <2>0, <3>1, <3>3, <3>4
  <2>3. QED
    BY <2>1, <2>2
<1>12. ASSUME UNCHANGED <<creditVars, closeVars, claimedWeiOf, poolVars>>, now' \in Nat, now' >= now
       PROVE  left + accruedFeeBalance' <= accountedBalance'
  <2>1. accountedBalance' = accountedBalance /\ accruedFeeBalance' = accruedFeeBalance
    BY <1>12 DEF poolVars, balanceVars, poolFeeVars
  <2>2. left <= Outstanding
    BY <1>7, <1>12
  <2>3. QED
    BY <1>0, <1>1, <1>2, <2>1, <2>2
<1>13. now \in Nat /\ now' \in Nat
  BY <1>0 DEF LedgerTypeOK
<1>14. ASSUME ClaimStep, UNCHANGED now
       PROVE  left + accruedFeeBalance' <= accountedBalance'
  BY <1>9, <1>10, <1>14 DEF ClaimStep, claimTo, donateClaimToPool
<1>15. QED
  BY <1>8, <1>11, <1>12, <1>13, <1>14 DEF SettlementNext, Tick, settlementVars, ledgerVars,
     claimVars, ledgerSetPausedNewActions

(* The pool always holds every award still to be claimed and the fees: the
   order of the claims does not matter (consumeClaim, payEligible). *)
THEOREM AwardsAlwaysCovered == SettlementSpec => []AwardsCovered
<1>1. SettlementInit => AwardsInv
  <2> SUFFICES ASSUME SettlementInit PROVE AwardsInv
    OBVIOUS
  <2>1. IsFiniteSet(Actors) /\ LedgerTypeOK
    BY LedgerAssumption, SettlementInvInit DEF SettlementInv, SettlementTypeOK
  <2>2. CreditsAddUp
    <3>1. DOMAIN creditAtomsOf = Actors /\ \A a \in Actors : creditAtomsOf[a] = 0
      BY DEF SettlementInit, LedgerInit
    <3>2. QED
      BY <2>1, <3>1, SumZero DEF CreditsAddUp, SumFunction, SettlementInit, LedgerInit
  <2>3. Outstanding = 0
    BY <2>1, NothingToClaim DEF SettlementInit, LedgerInit, positiveCreditClose
  <2>4. AwardsCovered
    BY <2>3, AwardsUnfold DEF SettlementInit, PoolInit
  <2>5. QED
    BY <2>2, <2>4 DEF AwardsInv
<1>2. SettlementInv /\ SettlementInv' /\ AwardsInv /\ [SettlementNext]_settlementVars => AwardsInv'
  BY CreditsAddUpStep, AwardsStep DEF AwardsInv
<1>3. AwardsInv => AwardsCovered
  BY DEF AwardsInv
<1>4. QED
  BY <1>1, <1>2, <1>3, SettlementInvariant, PTL DEF SettlementSpec

(* A board that never pays out holds exactly the sum of what its sponsors
   may take back (sponsorRefund). *)
THEOREM SponsorsAlwaysCovered == SettlementSpec => []SponsorsCovered
<1>1. SettlementInit => SponsorsCovered
  <2> SUFFICES ASSUME SettlementInit PROVE SponsorsCovered
    OBVIOUS
  <2>1. DOMAIN sponsorshipOf = Actors /\ \A a \in Actors : sponsorshipOf[a] = 0
    BY DEF SettlementInit, PoolInit
  <2>2. SumFunctionOnSet(sponsorshipOf, Actors) = 0
    BY <2>1, SumZero, LedgerAssumption
  <2>3. QED
    BY <2>1, <2>2 DEF SponsorsCovered, SumFunction, SettlementInit, PoolInit
<1>2. QED
  BY <1>1, SponsorsStep, SettlementInvariant, PTL DEF SettlementSpec

(* The same of a whole board, whose credits come from the managers. *)
THEOREM BoardAwardsCovered == BoardSpec => []AwardsCovered
  BY BoardImplementsSettlement, AwardsAlwaysCovered, PTL

(* And so for the sponsors of a whole board. *)
THEOREM BoardSponsorsCovered == BoardSpec => []SponsorsCovered
  BY BoardImplementsSettlement, SponsorsAlwaysCovered, PTL

-----------------------------------------------------------------------------
(* The ETH of the two managers. *)

(* One value grows by d: so does the sum. *)
LEMMA SumAddAt ==
    ASSUME NEW f, NEW g, NEW S, IsFiniteSet(S), NEW x \in S, NEW d \in Int,
           \A z \in S : f[z] \in Int, g[x] = f[x] + d, \A z \in S \ {x} : g[z] = f[z]
    PROVE  SumFunctionOnSet(g, S) = SumFunctionOnSet(f, S) + d
<1>1. g[x] \in Int /\ f[x] \in Int /\ SumFunctionOnSet(f, S) \in Int
  BY SumInt
<1>2. SumFunctionOnSet(g, S) = SumFunctionOnSet(f, S) - f[x] + g[x]
  BY <1>1, SumUpdate
<1>3. QED
  BY <1>1, <1>2

(* The sums of bonds are over finite sets. *)
LEMMA IdsFinite == IsFiniteSet(Ids) /\ IsFiniteSet(Accounts)
<1>1. IsFiniteSet(Ids)
  BY FS_Interval, ManagerAssumption DEF Ids
<1>2. IsFiniteSet({Treasury, Resolver})
  <2>1. {Treasury, Resolver} = {Treasury} \cup {Resolver}
    OBVIOUS
  <2>2. IsFiniteSet({Treasury}) /\ IsFiniteSet({Resolver})
    BY FS_Singleton
  <2>3. QED
    BY <2>1, <2>2, FS_Union
<1>3. IsFiniteSet(Accounts)
  BY <1>2, FS_Union, LedgerAssumption DEF Accounts
<1>4. QED
  BY <1>1, <1>3

(* The submission manager's half, with what a commit needs: an id that was
   never used holds no bond. *)
ManagerHalf ==
    /\ bondWei \in [Ids -> Nat] /\ claimableBondWei \in [Accounts -> Nat]
    /\ \A i \in Ids : status[i] = "None" => bondWei[i] = 0
    /\ managerBalance = SumFunctionOnSet(bondWei, Ids) + SumFunctionOnSet(claimableBondWei, Accounts)

(* The summands of the submission manager and their sums are integers. *)
LEMMA ManagerSums ==
    ASSUME ManagerHalf
    PROVE  /\ IsFiniteSet(Ids) /\ IsFiniteSet(Accounts)
           /\ \A i \in Ids : bondWei[i] \in Nat /\ bondWei[i] \in Int
           /\ \A a \in Accounts : claimableBondWei[a] \in Nat /\ claimableBondWei[a] \in Int
           /\ SumFunctionOnSet(bondWei, Ids) \in Int
           /\ SumFunctionOnSet(claimableBondWei, Accounts) \in Int
<1>1. /\ IsFiniteSet(Ids) /\ IsFiniteSet(Accounts)
      /\ \A i \in Ids : bondWei[i] \in Nat /\ bondWei[i] \in Int
      /\ \A a \in Accounts : claimableBondWei[a] \in Nat /\ claimableBondWei[a] \in Int
  BY IdsFinite DEF ManagerHalf
<1>2. QED
  BY <1>1, SumInt

(* Bonds that do not move. *)
LEMMA BondsStay ==
    ASSUME ManagerHalf, UNCHANGED <<bondWei, claimableBondWei, managerBalance>>,
           \A i \in Ids : status'[i] = "None" => status[i] = "None"
    PROVE  ManagerHalf'
  BY DEF ManagerHalf

(* ETH that arrives with a commit or a top-up. *)
LEMMA BondPosted ==
    ASSUME ManagerHalf, NEW i \in Ids, NEW v \in Nat, status'[i] # "None",
           bondWei' \in [Ids -> Nat], bondWei'[i] = bondWei[i] + v,
           \A j \in Ids \ {i} : bondWei'[j] = bondWei[j],
           managerBalance' = managerBalance + v, UNCHANGED claimableBondWei,
           \A j \in Ids : status'[j] = "None" => status[j] = "None"
    PROVE  ManagerHalf'
<1>1. SumFunctionOnSet(bondWei', Ids) = SumFunctionOnSet(bondWei, Ids) + v
  <2>1. v \in Int
    OBVIOUS
  <2>2. QED
    BY <2>1, ManagerSums, SumAddAt
<1>2. \A j \in Ids : status'[j] = "None" => bondWei'[j] = 0
  BY DEF ManagerHalf
<1>3. managerBalance' = SumFunctionOnSet(bondWei', Ids) + SumFunctionOnSet(claimableBondWei', Accounts)
  BY <1>1, ManagerSums DEF ManagerHalf
<1>4. QED
  BY <1>2, <1>3 DEF ManagerHalf

(* A bond that becomes claimable (_makeBondClaimable). *)
LEMMA BondReleased ==
    ASSUME ManagerHalf, NEW i \in Ids, NEW c \in Accounts, makeBondClaimable(i, c),
           UNCHANGED managerBalance,
           \A j \in Ids : status'[j] = "None" => status[j] = "None"
    PROVE  ManagerHalf'
<1>1. /\ bondWei' \in [Ids -> Nat] /\ bondWei'[i] = bondWei[i] + (-bondWei[i])
      /\ \A j \in Ids \ {i} : bondWei'[j] = bondWei[j]
      /\ bondWei'[i] = 0 /\ bondWei[i] \in Int /\ -bondWei[i] \in Int
  BY DEF ManagerHalf, makeBondClaimable
<1>2. SumFunctionOnSet(bondWei', Ids) = SumFunctionOnSet(bondWei, Ids) + (-bondWei[i])
  BY <1>1, ManagerSums, SumAddAt
<1>3. /\ claimableBondWei' \in [Accounts -> Nat]
      /\ claimableBondWei'[c] = claimableBondWei[c] + bondWei[i]
      /\ \A a \in Accounts \ {c} : claimableBondWei'[a] = claimableBondWei[a]
  BY DEF ManagerHalf, makeBondClaimable
<1>4. SumFunctionOnSet(claimableBondWei', Accounts)
        = SumFunctionOnSet(claimableBondWei, Accounts) + bondWei[i]
  BY <1>1, <1>3, ManagerSums, SumAddAt
<1>5. \A j \in Ids : status'[j] = "None" => bondWei'[j] = 0
  BY <1>1 DEF ManagerHalf
<1>6. managerBalance' = SumFunctionOnSet(bondWei', Ids) + SumFunctionOnSet(claimableBondWei', Accounts)
  BY <1>1, <1>2, <1>4, ManagerSums DEF ManagerHalf
<1>7. QED
  BY <1>1, <1>3, <1>5, <1>6 DEF ManagerHalf

(* A bond that is pulled out (claimBond). *)
LEMMA BondClaimed ==
    ASSUME ManagerHalf, NEW account \in Accounts, claimBond(account)
    PROVE  ManagerHalf'
<1>1. /\ claimableBondWei' \in [Accounts -> Nat]
      /\ claimableBondWei'[account] = claimableBondWei[account] + (-claimableBondWei[account])
      /\ \A a \in Accounts \ {account} : claimableBondWei'[a] = claimableBondWei[a]
      /\ claimableBondWei[account] \in Int /\ -claimableBondWei[account] \in Int
      /\ managerBalance' = managerBalance - claimableBondWei[account]
      /\ UNCHANGED <<bondWei, status>>
  BY DEF ManagerHalf, claimBond, statusVars
<1>2. SumFunctionOnSet(claimableBondWei', Accounts)
        = SumFunctionOnSet(claimableBondWei, Accounts) + (-claimableBondWei[account])
  BY <1>1, ManagerSums, SumAddAt
<1>3. managerBalance' = SumFunctionOnSet(bondWei', Ids) + SumFunctionOnSet(claimableBondWei', Accounts)
  BY <1>1, <1>2, ManagerSums DEF ManagerHalf
<1>4. QED
  BY <1>1, <1>3 DEF ManagerHalf

(* Whoever may receive a bond has an account. *)
LEMMA BondOwners ==
    ASSUME BoardInv, NEW i \in Ids, status[i] # "None"
    PROVE  solverOf[i] \in Accounts
  BY DEF BoardInv, LinkInv, CommitShape, Linked, Accounts

(* A submission moves to a state other than "None", or none moves: the ids
   that were never used stay so. *)
LEMMA UnusedStays ==
    ASSUME BoardInv, NEW i \in Ids, NEW s \in Statuses \ {"None"},
           status' = [status EXCEPT ![i] = s]
    PROVE  status'[i] # "None" /\ \A j \in Ids : status'[j] = "None" => status[j] = "None"
  BY DEF BoardInv, LinkInv, CommitShape

(* Every step of the board keeps the ETH of the submission manager equal to
   its bonds and claims. *)
LEMMA ManagerHalfStep ==
    BoardInv /\ DisputeInv /\ ManagerHalf /\ [BoardNext]_boardVars => ManagerHalf'
<1> SUFFICES ASSUME BoardInv, DisputeInv, ManagerHalf, [BoardNext]_boardVars
             PROVE  ManagerHalf'
  OBVIOUS
<1>0. /\ status \in [Ids -> Statuses]
      /\ \A i \in Ids : status[i] # "None" => solverOf[i] \in Accounts
      /\ Treasury \in Accounts
  BY BondOwners DEF BoardInv, LinkInv, CommitShape, Accounts
<1>1. ASSUME UNCHANGED <<status, bondVars, managerBalance>>
      PROVE  ManagerHalf'
  BY <1>1, BondsStay DEF bondVars
<1>2. ASSUME NEW i \in Ids, NEW s \in Statuses \ {"None"}, status' = [status EXCEPT ![i] = s],
             UNCHANGED managerBalance,
             \/ \E c \in Accounts : makeBondClaimable(i, c)
             \/ UNCHANGED bondVars
      PROVE  ManagerHalf'
  <2>1. \A j \in Ids : status'[j] = "None" => status[j] = "None"
    BY <1>2, UnusedStays
  <2>2. ASSUME NEW c \in Accounts, makeBondClaimable(i, c)
        PROVE  ManagerHalf'
    BY <1>2, <2>1, <2>2, BondReleased
  <2>3. CASE UNCHANGED bondVars
    BY <1>2, <2>1, <2>3, BondsStay DEF bondVars
  <2>4. QED
    BY <1>2, <2>2, <2>3
<1>3. ASSUME NEW i \in Ids, NEW c \in Accounts, reject(i, c), UNCHANGED managerBalance
      PROVE  ManagerHalf'
  BY <1>2, <1>3 DEF reject, Statuses
<1>4. ASSUME NEW solver \in Actors, NEW cid \in Cids, NEW value \in BondValues,
             commit(solver, cid, value)
      PROVE  ManagerHalf'
  <2>1. PICK i \in Ids : i = submissionCount + 1
    BY <1>4, ManagerAssumption DEF commit, Ids, BoardInv, LinkInv, CommitShape
  <2>2. /\ status' = [status EXCEPT ![i] = "Committed"]
        /\ bondWei' = [bondWei EXCEPT ![i] = value]
        /\ managerBalance' = managerBalance + value
        /\ claimableBondWei' = claimableBondWei
    BY <1>4, <2>1 DEF commit
  <2>3. value \in Nat
    BY ManagerAssumption
  <2>4. bondWei[i] = 0
    BY <2>1 DEF ManagerHalf, BoardInv, LinkInv, CommitShape, Linked
  <2>5. status'[i] # "None" /\ \A j \in Ids : status'[j] = "None" => status[j] = "None"
    BY <2>2, UnusedStays DEF Statuses
  <2>6. /\ bondWei' \in [Ids -> Nat] /\ bondWei'[i] = bondWei[i] + value
        /\ \A j \in Ids \ {i} : bondWei'[j] = bondWei[j]
    BY <2>2, <2>3, <2>4 DEF ManagerHalf
  <2>7. managerBalance' = managerBalance + value /\ UNCHANGED claimableBondWei
    BY <2>2
  <2>8. QED
    BY <2>3, <2>5, <2>6, <2>7, BondPosted
<1>5. ASSUME NEW i \in Ids, NEW value \in BondValues, topUpBond(i, value)
      PROVE  ManagerHalf'
  <2>1. value \in Nat
    BY ManagerAssumption
  <2>2. /\ bondWei' \in [Ids -> Nat] /\ bondWei'[i] = bondWei[i] + value
        /\ \A j \in Ids \ {i} : bondWei'[j] = bondWei[j]
    BY <1>5, <2>1 DEF topUpBond, ManagerHalf
  <2>3. /\ managerBalance' = managerBalance + value /\ UNCHANGED claimableBondWei
        /\ status'[i] # "None" /\ \A j \in Ids : status'[j] = "None" => status[j] = "None"
    BY <1>5 DEF topUpBond, statusVars
  <2>4. QED
    BY <2>1, <2>2, <2>3, BondPosted
<1>6. ASSUME NEW i \in Ids, NEW score \in Scores, reveal(i, score)
      PROVE  ManagerHalf'
  <2> DEFINE holder == prioritySubmissionOf[solutionCid[i]]
  <2>1. UNCHANGED managerBalance /\ status[i] = "Committed"
    BY <1>6 DEF reveal
  <2>2. CASE status' = [status EXCEPT ![i] = "Revealed"] /\ UNCHANGED bondVars
    BY <1>2, <2>1, <2>2 DEF Statuses
  <2>3. CASE reject(i, solverOf[i])
    BY <1>0, <1>3, <2>1, <2>3
  <2>4. CASE /\ status' = [status EXCEPT ![i] = "Revealed", ![holder] = "Rejected"]
             /\ makeBondClaimable(holder, solverOf[holder]) /\ superseded(holder)
    <3>1. solutionCid[i] \in Cids
      BY <2>1 DEF DisputeInv, CidShape, BoardInv, LinkInv, CommitShape, Linked, Ids
    <3>2. PICK h \in Ids : h = holder
      BY <2>4, <3>1 DEF superseded, DisputeInv, CidShape
    <3>3. /\ status' = [status EXCEPT ![i] = "Revealed", ![h] = "Rejected"]
          /\ makeBondClaimable(h, solverOf[h]) /\ status[h] = "Revealed"
      BY <2>4, <3>2 DEF superseded
    <3>4. \A j \in Ids : status'[j] = "None" => status[j] = "None"
      BY <1>0, <3>3
    <3>5. QED
      BY <1>0, <2>1, <3>3, <3>4, BondReleased
  <2>5. QED
    BY <1>6, <2>2, <2>3, <2>4 DEF reveal, assignDuplicatePriority
<1>7. ASSUME NEW i \in Ids, finalize(i)
      PROVE  ManagerHalf'
  <2>1. status[i] = "Revealed" /\ UNCHANGED managerBalance
    BY <1>7 DEF finalize
  <2>2. \/ reject(i, solverOf[i])
        \/ /\ status' = [status EXCEPT ![i] = "Finalized"]
           /\ makeBondClaimable(i, solverOf[i]) \/ UNCHANGED bondVars
    BY <1>7 DEF finalize
  <2>3. QED
    BY <1>0, <1>2, <1>3, <2>1, <2>2 DEF Statuses
<1>8. ASSUME NEW i \in Ids, releaseFinalizedBond(i)
      PROVE  ManagerHalf'
  <2>1. /\ status[i] = "Finalized" /\ makeBondClaimable(i, solverOf[i])
        /\ status' = status /\ UNCHANGED managerBalance
    BY <1>8 DEF releaseFinalizedBond, statusVars
  <2>2. QED
    BY <1>0, <2>1, BondReleased
<1>9. CASE SubmissionStep
  <2>1. ASSUME NEW i \in Ids, expireCommitted(i) \/ expireRevealed(i) PROVE ManagerHalf'
    BY <1>0, <1>3, <2>1 DEF expireCommitted, expireRevealed
  <2>2. ASSUME NEW account \in Claimants, claimBond(account) PROVE ManagerHalf'
    BY <2>2, BondClaimed, BoardAssumption
  <2>3. ASSUME recoverPausedAll PROVE ManagerHalf'
    BY <1>1, <2>3 DEF recoverPausedAll, clearPausedAll, statusVars
  <2>4. QED
    BY <1>4, <1>5, <1>6, <1>8, <1>9, <2>1, <2>2, <2>3 DEF SubmissionStep
<1>10. CASE OwnerStep
  BY <1>1, <1>10 DEF OwnerStep, setPausedNewActions, startPausedAll, endPausedAll, clearPausedAll,
     statusVars
<1>11. CASE FrontierStep
  <2>1. ASSUME NEW i \in Ids, voidFinalize(i) PROVE ManagerHalf'
    <3>1. /\ status' = [status EXCEPT ![i] = "Voided"] /\ UNCHANGED managerBalance
          /\ status[i] = "Finalized"
          /\ makeBondClaimable(i, Treasury) \/ makeBondClaimable(i, solverOf[i])
      BY <2>1 DEF voidFinalize
    <3>2. QED
      BY <1>0, <1>2, <3>1 DEF Statuses
  <2>2. QED
    BY <1>7, <1>11, <2>1 DEF FrontierStep, Voidable
<1>12. CASE DisputeStep
  <2>1. ASSUME NEW i \in Ids, markChallenged(i) PROVE ManagerHalf'
    BY <1>2, <2>1 DEF markChallenged, Statuses
  <2>2. ASSUME NEW i \in Ids, leaveChallenged(i),
               \/ \E c \in Accounts : reject(i, c)
               \/ \E deadline, cleared : returnToRevealed(i, deadline, cleared)
        PROVE  ManagerHalf'
    <3>1. status[i] = "Challenged" /\ UNCHANGED managerBalance
      BY <2>2 DEF leaveChallenged
    <3>2. \/ \E c \in Accounts : reject(i, c)
          \/ status' = [status EXCEPT ![i] = "Revealed"] /\ UNCHANGED bondVars
      BY <1>0, <2>2, <3>1 DEF returnToRevealed
    <3>3. QED
      BY <1>2, <1>3, <3>1, <3>2 DEF Statuses
  <2>3. \A i \in Ids : challenger[i] # NoOne => challenger[i] \in Accounts
    BY DEF DisputeInv, SlotShape, Accounts
  <2>4. ASSUME NEW i \in Ids, finalizeResolution(i) \/ expireChallenge(i) PROVE ManagerHalf'
    BY <2>2, <2>3, <2>4 DEF finalizeResolution, expireChallenge, resolveChallenge, rejectForChallenger
  <2>5. ASSUME NEW i \in Ids, slashResolverBond(i) PROVE ManagerHalf'
    BY <2>2, <2>5 DEF slashResolverBond, cancelChallenge
  <2>6. ASSUME NEW i \in Ids, NEW wins \in BOOLEAN, NEW account \in Actors,
               applyObjectiveResolution(i, wins, account)
        PROVE  ManagerHalf'
    BY <2>2, <2>3, <2>6 DEF applyObjectiveResolution, resolveObjectiveChallenge, rejectForChallenger
  <2>7. ASSUME UNCHANGED managerVars PROVE ManagerHalf'
    BY <1>1, <2>7 DEF managerVars, statusVars
  <2>8. QED
    BY <1>12, <2>1, <2>4, <2>5, <2>6, <2>7
       DEF DisputeStep, challenge, resolve, claimCounterBond, challengeSetPausedNewActions
<1>13. CASE UNCHANGED managerVars
  BY <1>1, <1>13 DEF managerVars, statusVars
<1>14. QED
  BY <1>9, <1>10, <1>11, <1>12, <1>13 DEF BoardNext, boardVars

(* The sum over a part of a set, as a sum over the whole with zeros outside. *)
LEMMA SumOfPart ==
    ASSUME NEW f, NEW g, NEW S, IsFiniteSet(S), NEW T \in SUBSET S,
           \A x \in T : f[x] \in Int /\ g[x] = f[x], \A x \in S \ T : g[x] = 0
    PROVE  SumFunctionOnSet(f, T) = SumFunctionOnSet(g, S)
<1> DEFINE F == {U \in SUBSET S : SumFunctionOnSet(g, U) # SumFunctionOnSet(f, U \cap T)}
<1>1. SUFFICES ASSUME F # {} PROVE FALSE
  <2>1. S \in SUBSET S /\ S \cap T = T
    OBVIOUS
  <2>2. QED
    BY <2>1
<1>2. PICK U \in F : \A V \in SUBSET U : V # U => V \notin F
  <2>1. F \in SUBSET SUBSET S
    OBVIOUS
  <2> HIDE DEF F
  <2>2. QED
    BY <1>1, <2>1, SmallestFailing
<1>3. U \in SUBSET S /\ IsFiniteSet(U) /\ SumFunctionOnSet(g, U) # SumFunctionOnSet(f, U \cap T)
  BY FS_Subset
<1>4. U # {}
  <2>1. SUFFICES ASSUME U = {} PROVE FALSE
    OBVIOUS
  <2>2. U \cap T = {}
    BY <2>1
  <2>3. QED
    BY <1>3, <2>1, <2>2, SumEmpty
<1> DEFINE x == pick(U)
           V == U \ {x}
<1>5. /\ x \in U /\ V \in SUBSET U /\ V # U
      /\ SumFunctionOnSet(g, U) = g[x] + SumFunctionOnSet(g, V)
  BY <1>3, <1>4, PickIn, SumStep
<1>6. SumFunctionOnSet(g, V) = SumFunctionOnSet(f, V \cap T)
  BY <1>2, <1>3, <1>5
<1>7. IsFiniteSet(U \cap T) /\ \A y \in U \cap T : f[y] \in Int
  BY <1>3, FS_Subset
<1>8. SumFunctionOnSet(f, V \cap T) \in Int
  <2>1. IsFiniteSet(V \cap T) /\ \A y \in V \cap T : f[y] \in Int
    BY <1>3, <1>5, FS_Subset
  <2>2. QED
    BY <2>1, SumInt
<1>9. CASE x \in T
  <2>1. V \cap T = (U \cap T) \ {x} /\ x \in U \cap T
    BY <1>5, <1>9
  <2>2. SumFunctionOnSet(f, U \cap T) = f[x] + SumFunctionOnSet(f, V \cap T)
    BY <1>7, <2>1, SumSplit
  <2>3. g[x] = f[x]
    BY <1>9
  <2>4. QED
    BY <1>3, <1>5, <1>6, <2>2, <2>3
<1>10. CASE x \notin T
  <2>1. V \cap T = U \cap T /\ g[x] = 0
    BY <1>3, <1>5, <1>10
  <2>2. SumFunctionOnSet(g, V) = SumFunctionOnSet(f, U \cap T)
    BY <1>6, <2>1, Zenon
  <2> HIDE DEF x, V
  <2>4. SumFunctionOnSet(g, U) = SumFunctionOnSet(g, V)
    <3>1. SumFunctionOnSet(g, V) \in Int
      BY <1>6, <1>8
    <3>2. QED
      BY <1>5, <2>1, <3>1
  <2>3. QED
    BY <1>3, <2>2, <2>4
<1>11. QED
  BY <1>9, <1>10

(* The counter-bonds at stake, over every id. *)
LiveBonds == [i \in Ids |-> IF status[i] = "Challenged" THEN challengeBondWei[i] ELSE 0]

(* The challenge manager's half: what is at stake, the resolver's bonds,
   and the claims. *)
ChallengeHalf ==
    /\ challengeBondWei \in [Ids -> Nat] /\ claimableCounterBondWei \in [Accounts -> Nat]
    /\ challengeBalance = SumFunctionOnSet(LiveBonds, Ids) + SumFunctionOnSet(resolverBondWei, Ids)
                            + SumFunctionOnSet(claimableCounterBondWei, Accounts)

(* The summands of the challenge manager and their sums are integers. *)
LEMMA ChallengeSums ==
    ASSUME ChallengeHalf, DisputeInv
    PROVE  /\ \A i \in Ids : /\ LiveBonds[i] \in Int /\ LiveBonds[i] \in Nat
                             /\ resolverBondWei[i] \in Nat /\ resolverBondWei[i] \in Int
           /\ \A a \in Accounts : /\ claimableCounterBondWei[a] \in Nat
                                  /\ claimableCounterBondWei[a] \in Int
           /\ SumFunctionOnSet(LiveBonds, Ids) \in Int
           /\ SumFunctionOnSet(resolverBondWei, Ids) \in Int
           /\ SumFunctionOnSet(claimableCounterBondWei, Accounts) \in Int
<1>1. /\ \A i \in Ids : /\ LiveBonds[i] \in Int /\ LiveBonds[i] \in Nat
                        /\ resolverBondWei[i] \in Nat /\ resolverBondWei[i] \in Int
      /\ \A a \in Accounts : /\ claimableCounterBondWei[a] \in Nat
                             /\ claimableCounterBondWei[a] \in Int
  BY DEF ChallengeHalf, DisputeInv, SlotShape, LiveBonds
<1>2. QED
  BY <1>1, IdsFinite, SumInt

(* One dispute moves: its counter-bond at stake by d, its resolver bond by e,
   the claims by c in all, and the balance by what that leaves. *)
LEMMA DisputeMoves ==
    ASSUME ChallengeHalf, DisputeInv, NEW i \in Ids, NEW d \in Int, NEW e \in Int, NEW c \in Int,
           challengeBondWei' \in [Ids -> Nat], claimableCounterBondWei' \in [Accounts -> Nat],
           LiveBonds'[i] = LiveBonds[i] + d,
           \A j \in Ids \ {i} : LiveBonds'[j] = LiveBonds[j],
           resolverBondWei'[i] = resolverBondWei[i] + e,
           \A j \in Ids \ {i} : resolverBondWei'[j] = resolverBondWei[j],
           SumFunctionOnSet(claimableCounterBondWei', Accounts)
             = SumFunctionOnSet(claimableCounterBondWei, Accounts) + c,
           challengeBalance' = challengeBalance + d + e + c
    PROVE  ChallengeHalf'
<1>1. PICK live : live = LiveBonds'
  OBVIOUS
<1>2. SumFunctionOnSet(live, Ids) = SumFunctionOnSet(LiveBonds, Ids) + d
  <2>1. /\ live[i] = LiveBonds[i] + d /\ \A j \in Ids \ {i} : live[j] = LiveBonds[j]
        /\ \A j \in Ids : LiveBonds[j] \in Int
    BY <1>1, ChallengeSums
  <2>2. QED
    BY <2>1, IdsFinite, SumAddAt
<1>3. SumFunctionOnSet(resolverBondWei', Ids) = SumFunctionOnSet(resolverBondWei, Ids) + e
  <2>1. \A j \in Ids : resolverBondWei[j] \in Int
    BY ChallengeSums
  <2>2. QED
    BY <2>1, IdsFinite, SumAddAt
<1>4. challengeBalance = SumFunctionOnSet(LiveBonds, Ids) + SumFunctionOnSet(resolverBondWei, Ids)
                           + SumFunctionOnSet(claimableCounterBondWei, Accounts)
  BY DEF ChallengeHalf
<1>5. challengeBalance' = SumFunctionOnSet(live, Ids) + SumFunctionOnSet(resolverBondWei', Ids)
                            + SumFunctionOnSet(claimableCounterBondWei', Accounts)
  BY <1>2, <1>3, <1>4, ChallengeSums
<1>6. challengeBalance' = SumFunctionOnSet(LiveBonds', Ids) + SumFunctionOnSet(resolverBondWei', Ids)
                            + SumFunctionOnSet(claimableCounterBondWei', Accounts)
  BY <1>1, <1>5, Zenon
<1>7. QED
  BY <1>6 DEF ChallengeHalf

(* Nothing of the dispute money moves. *)
LEMMA DisputesRest ==
    ASSUME ChallengeHalf,
           UNCHANGED <<challengeBondWei, resolverBondWei, claimableCounterBondWei, challengeBalance>>,
           \A i \in Ids : status'[i] = "Challenged" <=> status[i] = "Challenged"
    PROVE  ChallengeHalf'
<1>1. LiveBonds' = LiveBonds
  BY DEF LiveBonds
<1>2. QED
  BY <1>1 DEF ChallengeHalf

(* A dispute ends with both its bonds claimable. *)
LEMMA BothReleased ==
    ASSUME ChallengeHalf, DisputeInv, NEW i \in Ids, NEW r \in Accounts, NEW s \in Accounts,
           status[i] = "Challenged", status'[i] # "Challenged",
           \A j \in Ids \ {i} : status'[j] = status[j],
           releaseBonds(i, r, s), challengeBondWei' \in [Ids -> Nat],
           \A j \in Ids \ {i} : challengeBondWei'[j] = challengeBondWei[j]
    PROVE  ChallengeHalf'
<1>1. resolverBondWei[i] \in Nat /\ challengeBondWei[i] \in Nat
  BY DEF ChallengeHalf, DisputeInv, SlotShape
<1>2. /\ claimableCounterBondWei' \in [Accounts -> Nat]
      /\ SumFunctionOnSet(claimableCounterBondWei', Accounts)
           = SumFunctionOnSet(claimableCounterBondWei, Accounts)
               + (resolverBondWei[i] + challengeBondWei[i])
  <2>1. claimableCounterBondWei' =
          [a \in Accounts |-> claimableCounterBondWei[a] + (IF a = r THEN resolverBondWei[i] ELSE 0)
                                + (IF a = s THEN challengeBondWei[i] ELSE 0)]
    BY DEF releaseBonds
  <2>2. claimableCounterBondWei \in [Accounts -> Nat]
    BY DEF ChallengeHalf
  <2>3. /\ claimableCounterBondWei' \in [Accounts -> Nat]
        /\ \A a \in Accounts :
             claimableCounterBondWei'[a] =
               claimableCounterBondWei[a] + (IF a = r THEN resolverBondWei[i] ELSE 0)
                 + (IF a = s THEN challengeBondWei[i] ELSE 0)
    BY <1>1, <2>1, <2>2
  <2> DEFINE f == claimableCounterBondWei
             g == claimableCounterBondWei'
             h == [a \in Accounts |-> f[a] + (IF a = r THEN resolverBondWei[i] ELSE 0)]
  <2>4. /\ \A a \in Accounts : f[a] \in Int /\ h[a] \in Int
        /\ h[r] = f[r] + resolverBondWei[i] /\ \A a \in Accounts \ {r} : h[a] = f[a]
        /\ g[s] = h[s] + challengeBondWei[i] /\ \A a \in Accounts \ {s} : g[a] = h[a]
        /\ resolverBondWei[i] \in Int /\ challengeBondWei[i] \in Int
    BY <1>1, <2>2, <2>3
  <2> HIDE DEF f, g, h
  <2>5. SumFunctionOnSet(h, Accounts) = SumFunctionOnSet(f, Accounts) + resolverBondWei[i]
    BY <2>4, IdsFinite, SumAddAt
  <2>6. SumFunctionOnSet(g, Accounts) = SumFunctionOnSet(h, Accounts) + challengeBondWei[i]
    BY <2>4, IdsFinite, SumAddAt
  <2>7. SumFunctionOnSet(f, Accounts) \in Int
    BY <2>4, IdsFinite, SumInt
  <2>8. SumFunctionOnSet(g, Accounts)
          = SumFunctionOnSet(f, Accounts) + (resolverBondWei[i] + challengeBondWei[i])
    BY <1>1, <2>5, <2>6, <2>7
  <2>9. QED
    BY <2>3, <2>8 DEF f, g
<1>3. /\ LiveBonds'[i] = LiveBonds[i] + (-challengeBondWei[i])
      /\ \A j \in Ids \ {i} : LiveBonds'[j] = LiveBonds[j]
  BY <1>1 DEF LiveBonds
<1>4. /\ resolverBondWei'[i] = resolverBondWei[i] + (-resolverBondWei[i])
      /\ \A j \in Ids \ {i} : resolverBondWei'[j] = resolverBondWei[j]
  BY <1>1 DEF releaseBonds, DisputeInv, SlotShape
<1>5. challengeBalance \in Int
  BY ChallengeSums DEF ChallengeHalf
<1>6. challengeBalance' = challengeBalance + (-challengeBondWei[i]) + (-resolverBondWei[i])
                            + (resolverBondWei[i] + challengeBondWei[i])
  BY <1>1, <1>5 DEF releaseBonds
<1>7. /\ -challengeBondWei[i] \in Int /\ -resolverBondWei[i] \in Int
      /\ resolverBondWei[i] + challengeBondWei[i] \in Int
  BY <1>1
<1>8. QED
  BY <1>2, <1>3, <1>4, <1>6, <1>7, DisputeMoves

(* Only the challenge manager makes or ends a dispute. *)
LEMMA OthersKeepDisputed ==
    ASSUME BoardInv, SubmissionStep \/ OwnerStep \/ FrontierStep
    PROVE  \A i \in Ids : status'[i] = "Challenged" <=> status[i] = "Challenged"
<1> DEFINE Kept == \A i \in Ids : status'[i] = "Challenged" <=> status[i] = "Challenged"
<1>0. status \in [Ids -> Statuses]
  BY DEF BoardInv, LinkInv, CommitShape
<1>1. ASSUME NEW i \in Ids, NEW s \in Statuses \ {"Challenged"}, status[i] # "Challenged",
             status' = [status EXCEPT ![i] = s]
      PROVE  Kept
  BY <1>0, <1>1
<1>2. ASSUME NEW i \in Ids, NEW c, status[i] # "Challenged", reject(i, c) PROVE Kept
  BY <1>1, <1>2 DEF reject, Statuses
<1>3. ASSUME NEW solver \in Actors, NEW cid \in Cids, NEW value \in BondValues,
             commit(solver, cid, value)
      PROVE  Kept
  <2>1. PICK i \in Ids : i = submissionCount + 1
    BY <1>3, ManagerAssumption DEF commit, Ids, BoardInv, LinkInv, CommitShape
  <2>2. status' = [status EXCEPT ![i] = "Committed"] /\ status[i] = "None"
    BY <1>3, <2>1 DEF commit, BoardInv, LinkInv, CommitShape, Linked
  <2>3. QED
    BY <1>1, <2>2 DEF Statuses
<1>4. ASSUME NEW i \in Ids, NEW score \in Scores, reveal(i, score) PROVE Kept
  <2> DEFINE holder == prioritySubmissionOf[solutionCid[i]]
  <2>1. status[i] = "Committed"
    BY <1>4 DEF reveal
  <2>2. \/ status' = [status EXCEPT ![i] = "Revealed"]
        \/ reject(i, solverOf[i])
        \/ /\ status' = [status EXCEPT ![i] = "Revealed", ![holder] = "Rejected"]
           /\ status[holder] = "Revealed"
    BY <1>4 DEF reveal, assignDuplicatePriority, superseded
  <2>3. CASE /\ status' = [status EXCEPT ![i] = "Revealed", ![holder] = "Rejected"]
             /\ status[holder] = "Revealed"
    BY <1>0, <2>1, <2>3
  <2>4. QED
    BY <1>1, <1>2, <2>1, <2>2, <2>3 DEF Statuses
<1>5. ASSUME NEW i \in Ids, finalize(i) PROVE Kept
  <2>1. /\ status[i] = "Revealed"
        /\ reject(i, solverOf[i]) \/ status' = [status EXCEPT ![i] = "Finalized"]
    BY <1>5 DEF finalize
  <2>2. QED
    BY <1>1, <1>2, <2>1 DEF Statuses
<1>6. ASSUME UNCHANGED statusVars PROVE Kept
  BY <1>6 DEF statusVars
<1>7. CASE SubmissionStep
  <2>1. ASSUME NEW i \in Ids, NEW value \in BondValues, topUpBond(i, value) PROVE Kept
    BY <1>6, <2>1 DEF topUpBond
  <2>2. ASSUME NEW i \in Ids, releaseFinalizedBond(i) PROVE Kept
    BY <1>6, <2>2 DEF releaseFinalizedBond
  <2>3. ASSUME NEW i \in Ids, expireCommitted(i) \/ expireRevealed(i) PROVE Kept
    BY <1>2, <2>3 DEF expireCommitted, expireRevealed, commitForfeitable, revealForfeitable
  <2>4. ASSUME NEW account \in Claimants, claimBond(account) PROVE Kept
    BY <1>6, <2>4 DEF claimBond
  <2>5. ASSUME recoverPausedAll PROVE Kept
    BY <1>6, <2>5 DEF recoverPausedAll, clearPausedAll
  <2>6. QED
    BY <1>3, <1>4, <1>7, <2>1, <2>2, <2>3, <2>4, <2>5 DEF SubmissionStep
<1>8. CASE OwnerStep
  BY <1>6, <1>8 DEF OwnerStep, setPausedNewActions, startPausedAll, endPausedAll, clearPausedAll
<1>9. CASE FrontierStep
  <2>1. ASSUME NEW i \in Ids, voidFinalize(i) PROVE Kept
    BY <1>1, <2>1 DEF voidFinalize, Statuses
  <2>2. QED
    BY <1>5, <1>9, <2>1 DEF FrontierStep, Voidable
<1>10. QED
  BY <1>7, <1>8, <1>9

(* How a dispute leaves the challenged state. *)
LEMMA LeavesChallenged ==
    ASSUME BoardInv, NEW i \in Ids, leaveChallenged(i),
           \/ \E c : reject(i, c)
           \/ \E deadline, cleared : returnToRevealed(i, deadline, cleared)
    PROVE  /\ status[i] = "Challenged" /\ status'[i] # "Challenged"
           /\ \A j \in Ids \ {i} : status'[j] = status[j]
<1>1. status \in [Ids -> Statuses]
  BY DEF BoardInv, LinkInv, CommitShape
<1>2. \/ status' = [status EXCEPT ![i] = "Rejected"]
      \/ status' = [status EXCEPT ![i] = "Revealed"]
  BY DEF returnToRevealed, reject
<1>3. QED
  BY <1>1, <1>2 DEF leaveChallenged

(* Every step of a dispute keeps it: opening, the resolver bond, the
   ruling, the timeout, the return, the claim. *)
LEMMA DisputeStepKeepsHalf ==
    ASSUME BoardInv, DisputeInv, ChallengeHalf, DisputeStep
    PROVE  ChallengeHalf'
<1>0. /\ status \in [Ids -> Statuses] /\ SlotShape /\ challengeBalance \in Int
      /\ challengeBondWei \in [Ids -> Nat] /\ claimableCounterBondWei \in [Accounts -> Nat]
      /\ Treasury \in Accounts /\ Resolver \in Accounts /\ 0 \in Int
  BY ChallengeSums DEF BoardInv, LinkInv, CommitShape, DisputeInv, ChallengeHalf, Accounts
<1>1. ASSUME NEW i \in Ids, status[i] = "Challenged"
      PROVE  challenger[i] \in Accounts
  BY <1>1 DEF DisputeInv, DisputeAgrees, SlotShape, Accounts
<1>2. ASSUME NEW i \in Ids, NEW sender \in Actors, NEW value \in CounterBonds,
             challenge(i, sender, value)
      PROVE  ChallengeHalf'
  <2>1. value \in Nat /\ value \in Int
    BY ChallengeAssumption
  <2>2. /\ status[i] = "Revealed" /\ status' = [status EXCEPT ![i] = "Challenged"]
        /\ challengeBondWei' = [challengeBondWei EXCEPT ![i] = value]
        /\ challengeBalance' = challengeBalance + value
        /\ UNCHANGED <<resolverBondWei, claimableCounterBondWei>>
    BY <1>2 DEF challenge, markChallenged, resolverBondVars
  <2>3. LiveBonds'[i] = LiveBonds[i] + value /\ \A j \in Ids \ {i} : LiveBonds'[j] = LiveBonds[j]
    BY <1>0, <2>1, <2>2 DEF LiveBonds
  <2>4. /\ resolverBondWei'[i] = resolverBondWei[i] + 0
        /\ \A j \in Ids \ {i} : resolverBondWei'[j] = resolverBondWei[j]
        /\ challengeBalance' = challengeBalance + value + 0 + 0
        /\ challengeBondWei' \in [Ids -> Nat] /\ claimableCounterBondWei' \in [Accounts -> Nat]
    BY <1>0, <2>1, <2>2 DEF SlotShape
  <2>5. SumFunctionOnSet(claimableCounterBondWei', Accounts)
          = SumFunctionOnSet(claimableCounterBondWei, Accounts) + 0
    BY <2>2, ChallengeSums
  <2>6. QED
    BY <1>0, <2>1, <2>3, <2>4, <2>5, DisputeMoves
<1>3. ASSUME NEW i \in Ids, NEW wins \in BOOLEAN, NEW value \in ResolverBonds,
             resolve(i, wins, Resolver, value)
      PROVE  ChallengeHalf'
  <2>1. value \in Nat /\ value \in Int
    BY ChallengeAssumption
  <2>2. /\ slot[i] = "open" /\ UNCHANGED <<status, challengeBondWei, claimableCounterBondWei>>
        /\ resolverBondWei' = [resolverBondWei EXCEPT ![i] = value]
        /\ challengeBalance' = challengeBalance + value
    BY <1>3 DEF resolve, managerVars, statusVars
  <2>3. resolverBondWei[i] = 0
    BY <2>2 DEF DisputeInv, DisputeAgrees
  <2>4. LiveBonds'[i] = LiveBonds[i] + 0 /\ \A j \in Ids \ {i} : LiveBonds'[j] = LiveBonds[j]
    BY <1>0, <2>2 DEF LiveBonds
  <2>5. /\ resolverBondWei'[i] = resolverBondWei[i] + value
        /\ \A j \in Ids \ {i} : resolverBondWei'[j] = resolverBondWei[j]
        /\ challengeBalance' = challengeBalance + 0 + value + 0
        /\ challengeBondWei' \in [Ids -> Nat] /\ claimableCounterBondWei' \in [Accounts -> Nat]
    BY <1>0, <2>1, <2>2, <2>3 DEF SlotShape
  <2>6. SumFunctionOnSet(claimableCounterBondWei', Accounts)
          = SumFunctionOnSet(claimableCounterBondWei, Accounts) + 0
    BY <2>2, ChallengeSums
  <2>7. QED
    BY <1>0, <2>1, <2>4, <2>5, <2>6, DisputeMoves
<1>4. ASSUME NEW i \in Ids, expireChallenge(i) PROVE ChallengeHalf'
  <2>1. /\ status[i] = "Challenged" /\ status'[i] # "Challenged"
        /\ \A j \in Ids \ {i} : status'[j] = status[j]
    BY <1>4, LeavesChallenged DEF expireChallenge, resolveChallenge, rejectForChallenger
  <2> DEFINE bond == challengeBondWei[i]
             claimant == challenger[i]
  <2>2. /\ claimableCounterBondWei' = [claimableCounterBondWei EXCEPT ![claimant] = @ + bond]
        /\ challengeBondWei' = [challengeBondWei EXCEPT ![i] = 0]
        /\ UNCHANGED <<resolverBondWei, challengeBalance>>
    BY <1>4 DEF expireChallenge, deleteChallenge, resolverBondVars
  <2>3. claimant \in Accounts /\ bond \in Nat /\ bond \in Int /\ -bond \in Int
    BY <1>0, <1>1, <2>1
  <2>4. /\ LiveBonds'[i] = LiveBonds[i] + (-bond)
        /\ \A j \in Ids \ {i} : LiveBonds'[j] = LiveBonds[j]
    BY <1>0, <2>1, <2>2, <2>3 DEF LiveBonds
  <2>5. /\ resolverBondWei'[i] = resolverBondWei[i] + 0
        /\ \A j \in Ids \ {i} : resolverBondWei'[j] = resolverBondWei[j]
        /\ challengeBalance' = challengeBalance + (-bond) + 0 + bond
        /\ challengeBondWei' \in [Ids -> Nat] /\ claimableCounterBondWei' \in [Accounts -> Nat]
    BY <1>0, <2>2, <2>3 DEF SlotShape
  <2>6. SumFunctionOnSet(claimableCounterBondWei', Accounts)
          = SumFunctionOnSet(claimableCounterBondWei, Accounts) + bond
    <3>1. /\ claimableCounterBondWei'[claimant] = claimableCounterBondWei[claimant] + bond
          /\ \A a \in Accounts \ {claimant} : claimableCounterBondWei'[a] = claimableCounterBondWei[a]
          /\ \A a \in Accounts : claimableCounterBondWei[a] \in Int
      BY <1>0, <2>2, <2>3
    <3> HIDE DEF bond, claimant
    <3>2. QED
      BY <2>3, <3>1, IdsFinite, SumAddAt
  <2> HIDE DEF bond
  <2>7. QED
    BY <1>0, <2>3, <2>4, <2>5, <2>6, DisputeMoves
<1>5. ASSUME NEW i \in Ids, NEW r \in Accounts, NEW s \in Accounts, releaseBonds(i, r, s),
             leaveChallenged(i),
             \/ \E c : reject(i, c)
             \/ \E deadline, cleared : returnToRevealed(i, deadline, cleared),
             deleteChallenge(i) \/ UNCHANGED challengeBondWei
      PROVE  ChallengeHalf'
  <2>1. /\ status[i] = "Challenged" /\ status'[i] # "Challenged"
        /\ \A j \in Ids \ {i} : status'[j] = status[j]
    BY <1>5, LeavesChallenged
  <2>2. /\ challengeBondWei' \in [Ids -> Nat]
        /\ \A j \in Ids \ {i} : challengeBondWei'[j] = challengeBondWei[j]
    BY <1>0, <1>5 DEF deleteChallenge
  <2>3. QED
    BY <1>5, <2>1, <2>2, BothReleased
<1>6. ASSUME NEW i \in Ids, finalizeResolution(i) PROVE ChallengeHalf'
  <2>1. status[i] = "Challenged" /\ leaveChallenged(i)
    BY <1>6 DEF finalizeResolution, resolveChallenge, leaveChallenged
  <2>2. resolverBondBeneficiary[i] \in Accounts /\ challenger[i] \in Accounts
    BY <1>0, <1>1, <1>6, <2>1 DEF finalizeResolution, decisionRipe, SlotShape
  <2>3. PICK s \in Accounts : releaseBonds(i, resolverBondBeneficiary[i], s)
    BY <1>0, <1>6, <2>2 DEF finalizeResolution
  <2>4. /\ \/ \E c : reject(i, c)
           \/ \E deadline, cleared : returnToRevealed(i, deadline, cleared)
        /\ deleteChallenge(i) \/ UNCHANGED challengeBondWei
    BY <1>6 DEF finalizeResolution, resolveChallenge, rejectForChallenger, settleSlot
  <2>5. QED
    BY <1>5, <2>1, <2>2, <2>3, <2>4
<1>7. ASSUME NEW i \in Ids, slashResolverBond(i) PROVE ChallengeHalf'
  <2>1. status[i] = "Challenged" /\ leaveChallenged(i)
    BY <1>7 DEF slashResolverBond, cancelChallenge, leaveChallenged
  <2>2. releaseBonds(i, Treasury, challenger[i]) /\ challenger[i] \in Accounts
    BY <1>1, <1>7, <2>1 DEF slashResolverBond
  <2>3. /\ \E deadline, cleared : returnToRevealed(i, deadline, cleared)
        /\ deleteChallenge(i)
    BY <1>7 DEF slashResolverBond, cancelChallenge
  <2>4. QED
    BY <1>0, <1>5, <2>1, <2>2, <2>3
<1>8. ASSUME NEW i \in Ids, NEW wins \in BOOLEAN, NEW account \in Actors,
             applyObjectiveResolution(i, wins, account)
      PROVE  ChallengeHalf'
  <2>1. status[i] = "Challenged" /\ leaveChallenged(i)
    BY <1>8 DEF applyObjectiveResolution, resolveObjectiveChallenge, leaveChallenged
  <2>2. account \in Accounts /\ challenger[i] \in Accounts
    BY <1>1, <2>1 DEF Accounts
  <2>3. PICK s \in Accounts : releaseBonds(i, account, s)
    BY <1>0, <1>8, <2>2 DEF applyObjectiveResolution
  <2>4. /\ \/ \E c : reject(i, c)
           \/ \E deadline, cleared : returnToRevealed(i, deadline, cleared)
        /\ deleteChallenge(i) \/ UNCHANGED challengeBondWei
    BY <1>8 DEF applyObjectiveResolution, resolveObjectiveChallenge, rejectForChallenger, settleSlot
  <2>5. QED
    BY <1>5, <2>1, <2>2, <2>3, <2>4
<1>9. ASSUME NEW account \in Claimants, claimCounterBond(account) PROVE ChallengeHalf'
  <2> DEFINE claim == claimableCounterBondWei[account]
  <2>1. account \in Accounts
    BY BoardAssumption
  <2>2. /\ claimableCounterBondWei' = [claimableCounterBondWei EXCEPT ![account] = 0]
        /\ challengeBalance' = challengeBalance - claim
        /\ UNCHANGED <<status, challengeBondWei, resolverBondWei>>
    BY <1>9 DEF claimCounterBond, slotVars, resolverBondVars, managerVars, statusVars
  <2>3. /\ claimableCounterBondWei' \in [Accounts -> Nat]
        /\ claimableCounterBondWei'[account] = claimableCounterBondWei[account] + (-claim)
        /\ \A a \in Accounts \ {account} : claimableCounterBondWei'[a] = claimableCounterBondWei[a]
        /\ \A a \in Accounts : claimableCounterBondWei[a] \in Int
        /\ claim \in Int /\ -claim \in Int
    BY <1>0, <2>1, <2>2
  <2>4. LiveBonds' = LiveBonds
    BY <2>2 DEF LiveBonds
  <2> HIDE DEF claim
  <2>5. SumFunctionOnSet(claimableCounterBondWei', Accounts)
          = SumFunctionOnSet(claimableCounterBondWei, Accounts) + (-claim)
    BY <2>1, <2>3, IdsFinite, SumAddAt
  <2>6. PICK live : live = LiveBonds
    OBVIOUS
  <2>7. challengeBalance' = SumFunctionOnSet(LiveBonds, Ids) + SumFunctionOnSet(resolverBondWei, Ids)
                              + SumFunctionOnSet(claimableCounterBondWei', Accounts)
    BY <2>2, <2>3, <2>5, ChallengeSums DEF ChallengeHalf
  <2>8. QED
    BY <1>0, <2>2, <2>3, <2>4, <2>7 DEF ChallengeHalf
<1>10. ASSUME NEW paused \in BOOLEAN, challengeSetPausedNewActions(paused) PROVE ChallengeHalf'
  BY <1>10, DisputesRest
     DEF challengeSetPausedNewActions, slotVars, resolverBondVars, managerVars, statusVars
<1>11. QED
  BY <1>2, <1>3, <1>4, <1>6, <1>7, <1>8, <1>9, <1>10 DEF DisputeStep

(* And so does every step of the board. *)
LEMMA ChallengeHalfStep ==
    BoardInv /\ DisputeInv /\ ChallengeHalf /\ [BoardNext]_boardVars => ChallengeHalf'
<1> SUFFICES ASSUME BoardInv, DisputeInv, ChallengeHalf, [BoardNext]_boardVars
             PROVE  ChallengeHalf'
  OBVIOUS
<1>1. CASE DisputeStep
  BY <1>1, DisputeStepKeepsHalf
<1>2. ASSUME UNCHANGED disputeVars,
             \A i \in Ids : status'[i] = "Challenged" <=> status[i] = "Challenged"
      PROVE  ChallengeHalf'
  BY <1>2, DisputesRest DEF disputeVars, slotVars, resolverBondVars
<1>3. CASE (SubmissionStep \/ OwnerStep \/ FrontierStep) /\ UNCHANGED disputeVars
  BY <1>2, <1>3, OthersKeepDisputed
<1>4. CASE UNCHANGED <<managerVars, disputeVars>>
  BY <1>2, <1>4 DEF managerVars, statusVars
<1>5. QED
  BY <1>1, <1>3, <1>4 DEF BoardNext, boardVars

(* Both managers together. *)
SolvencyInv == ManagerHalf /\ ChallengeHalf

(* A new board holds no bond. *)
LEMMA SolvencyInit == BoardInit => SolvencyInv
<1> SUFFICES ASSUME BoardInit PROVE SolvencyInv
  OBVIOUS
<1>1. /\ bondWei = [i \in Ids |-> 0] /\ claimableBondWei = [a \in Accounts |-> 0]
      /\ challengeBondWei = [i \in Ids |-> 0] /\ resolverBondWei = [i \in Ids |-> 0]
      /\ claimableCounterBondWei = [a \in Accounts |-> 0] /\ status = [i \in Ids |-> "None"]
      /\ managerBalance = 0 /\ challengeBalance = 0
  BY DEF BoardInit, ManagerInit, ChallengeInit
<1>2. LiveBonds = [i \in Ids |-> 0]
  BY <1>1 DEF LiveBonds
<1>3. /\ SumFunctionOnSet(bondWei, Ids) = 0 /\ SumFunctionOnSet(resolverBondWei, Ids) = 0
      /\ SumFunctionOnSet(claimableBondWei, Accounts) = 0
      /\ SumFunctionOnSet(claimableCounterBondWei, Accounts) = 0
  BY <1>1, IdsFinite, SumZero
<1>4. SumFunctionOnSet(LiveBonds, Ids) = 0
  BY <1>2, IdsFinite, SumZero
<1>5. QED
  BY <1>1, <1>3, <1>4 DEF SolvencyInv, ManagerHalf, ChallengeHalf

(* The property sums over the live disputes only; elsewhere the summand is
   zero. *)
LEMMA SolvencyGivesProperty ==
    ASSUME SolvencyInv, DisputeInv PROVE ManagersSolvent
<1>1. /\ DOMAIN bondWei = Ids /\ DOMAIN claimableBondWei = Accounts
      /\ DOMAIN resolverBondWei = Ids /\ DOMAIN claimableCounterBondWei = Accounts
  BY DEF SolvencyInv, ManagerHalf, ChallengeHalf, DisputeInv, SlotShape
<1>2. /\ SumFunction(bondWei) = SumFunctionOnSet(bondWei, Ids)
      /\ SumFunction(claimableBondWei) = SumFunctionOnSet(claimableBondWei, Accounts)
      /\ SumFunction(resolverBondWei) = SumFunctionOnSet(resolverBondWei, Ids)
      /\ SumFunction(claimableCounterBondWei) = SumFunctionOnSet(claimableCounterBondWei, Accounts)
  BY <1>1, Zenon DEF SumFunction, FoldFunction, SumFunctionOnSet
<1>3. SumFunctionOnSet(challengeBondWei, InStatus({"Challenged"})) = SumFunctionOnSet(LiveBonds, Ids)
  <2>1. /\ InStatus({"Challenged"}) \in SUBSET Ids
        /\ \A i \in InStatus({"Challenged"}) : /\ challengeBondWei[i] \in Int
                                               /\ LiveBonds[i] = challengeBondWei[i]
        /\ \A i \in Ids \ InStatus({"Challenged"}) : LiveBonds[i] = 0
    BY DEF InStatus, LiveBonds, SolvencyInv, ChallengeHalf
  <2>2. QED
    BY <2>1, IdsFinite, SumOfPart
<1>4. QED
  BY <1>2, <1>3 DEF ManagersSolvent, SolvencyInv, ManagerHalf, ChallengeHalf

(* Each manager holds exactly the ETH of its live bonds and unpaid claims. *)
THEOREM ManagersAlwaysSolvent == BoardSpec => []ManagersSolvent
<1>1. BoardInv /\ DisputeInv /\ SolvencyInv /\ [BoardNext]_boardVars => SolvencyInv'
  BY ManagerHalfStep, ChallengeHalfStep DEF SolvencyInv
<1>2. DisputeInv /\ SolvencyInv => ManagersSolvent
  BY SolvencyGivesProperty
<1>3. QED
  BY <1>1, <1>2, SolvencyInit, BoardInvariant, DisputeInvariant, PTL DEF BoardSpec

-----------------------------------------------------------------------------
(* The score frontier, and the credits of the ledger. *)

(* What most steps leave alone: the frontier, the credits, and everything the
   finalizes that stand or were voided are remembered by. *)
FrontierRests ==
    /\ UNCHANGED <<frontierVars, creditVars>>
    /\ \A i \in Ids :
         /\ status'[i] = "Finalized" <=> status[i] = "Finalized"
         /\ status[i] = "Voided" => status'[i] = "Voided"
         /\ status[i] \in {"Finalized", "Voided"} =>
              /\ claimedScoreAtoms'[i] = claimedScoreAtoms[i]
              /\ solverOf'[i] = solverOf[i] /\ paidAtCommit'[i] = paidAtCommit[i]
              /\ finalizedAt'[i] = finalizedAt[i]

(* A finalize that counts: i held its CID's priority. *)
FinalizesFrontier(i) ==
    /\ status[i] = "Revealed" /\ status' = [status EXCEPT ![i] = "Finalized"]
    /\ advanceFrontier(i)
    /\ finalizedAt' = [finalizedAt EXCEPT ![i] = now]
    /\ UNCHANGED <<now, commitVars, claimedScoreAtoms>>

(* A step that moves one submission that is neither finalized nor voided, to
   neither, and no claim. *)
LEMMA OpenMoveRests ==
    ASSUME BoardInv, NEW i \in Ids, NEW s \in Statuses \ {"Finalized", "Voided"},
           status[i] \notin {"Finalized", "Voided"}, status' = [status EXCEPT ![i] = s],
           UNCHANGED <<frontierVars, creditVars>>,
           \A j \in Ids \ {i} : /\ claimedScoreAtoms'[j] = claimedScoreAtoms[j]
                                /\ solverOf'[j] = solverOf[j] /\ paidAtCommit'[j] = paidAtCommit[j]
                                /\ finalizedAt'[j] = finalizedAt[j]
    PROVE  FrontierRests
  BY DEF FrontierRests, BoardInv, LinkInv, CommitShape

(* A submission step that does not reach the ledger lets the frontier rest. *)
LEMMA SubmissionRests ==
    ASSUME BoardInv, SubmissionStep, UNCHANGED <<settlementVars, disputeVars, finalizedAt>>
    PROVE  FrontierRests
<1>0. /\ status \in [Ids -> Statuses] /\ UNCHANGED <<creditVars, finalizedAt>>
      /\ solverOf \in [Ids -> Actors \cup {NoOne}] /\ paidAtCommit \in [Ids -> BOOLEAN]
      /\ claimedScoreAtoms \in [Ids -> Int]
  BY DEF BoardInv, LinkInv, CommitShape, FrontierShape, settlementVars, ledgerVars
<1>1. ASSUME UNCHANGED <<commitVars, status, claimedScoreAtoms, frontierVars>> PROVE FrontierRests
  BY <1>0, <1>1 DEF FrontierRests, commitVars
<1>2. ASSUME NEW solver \in Actors, NEW cid \in Cids, NEW value \in BondValues,
             commit(solver, cid, value)
      PROVE  FrontierRests
  <2>1. PICK i \in Ids : i = submissionCount + 1
    BY <1>2, ManagerAssumption DEF commit, Ids, BoardInv, LinkInv, CommitShape
  <2>2. /\ status' = [status EXCEPT ![i] = "Committed"] /\ status[i] = "None"
        /\ solverOf' = [solverOf EXCEPT ![i] = solver]
        /\ paidAtCommit' = [paidAtCommit EXCEPT ![i] = fundingArmed]
        /\ UNCHANGED <<claimedScoreAtoms, frontierVars>>
    BY <1>2, <2>1 DEF commit, revealVars, BoardInv, LinkInv, CommitShape, Linked
  <2>3. \A j \in Ids \ {i} : /\ claimedScoreAtoms'[j] = claimedScoreAtoms[j]
                             /\ solverOf'[j] = solverOf[j] /\ paidAtCommit'[j] = paidAtCommit[j]
                             /\ finalizedAt'[j] = finalizedAt[j]
    BY <1>0, <2>2
  <2>4. QED
    BY <1>0, <2>2, <2>3, OpenMoveRests DEF Statuses
<1>3. ASSUME NEW i \in Ids, NEW score \in Scores, reveal(i, score) PROVE FrontierRests
  <2> DEFINE holder == prioritySubmissionOf[solutionCid[i]]
  <2>1. /\ status[i] = "Committed" /\ UNCHANGED <<commitVars, frontierVars>>
        /\ claimedScoreAtoms' = [claimedScoreAtoms EXCEPT ![i] = score]
    BY <1>3 DEF reveal
  <2>2. \/ status' = [status EXCEPT ![i] = "Revealed"]
        \/ status' = [status EXCEPT ![i] = "Rejected"]
        \/ /\ status' = [status EXCEPT ![i] = "Revealed", ![holder] = "Rejected"]
           /\ status[holder] = "Revealed"
    BY <1>3 DEF reveal, assignDuplicatePriority, superseded, reject
  <2>3. \A j \in Ids \ {i} : /\ claimedScoreAtoms'[j] = claimedScoreAtoms[j]
                             /\ solverOf'[j] = solverOf[j] /\ paidAtCommit'[j] = paidAtCommit[j]
                             /\ finalizedAt'[j] = finalizedAt[j]
    BY <1>0, <2>1 DEF commitVars
  <2>4. CASE /\ status' = [status EXCEPT ![i] = "Revealed", ![holder] = "Rejected"]
             /\ status[holder] = "Revealed"
    BY <1>0, <2>1, <2>3, <2>4 DEF FrontierRests
  <2>5. QED
    BY <1>0, <2>1, <2>2, <2>3, <2>4, OpenMoveRests DEF Statuses
<1>4. ASSUME NEW i \in Ids, expireCommitted(i) \/ expireRevealed(i) PROVE FrontierRests
  <2>1. /\ status[i] \in {"Committed", "Revealed"} /\ status' = [status EXCEPT ![i] = "Rejected"]
        /\ UNCHANGED <<commitVars, claimedScoreAtoms, frontierVars>>
    BY <1>4 DEF expireCommitted, expireRevealed, commitForfeitable, revealForfeitable, reject,
       revealVars
  <2>2. QED
    BY <1>0, <2>1, OpenMoveRests DEF Statuses, commitVars
<1>5. ASSUME NEW i \in Ids, NEW value \in BondValues, topUpBond(i, value) PROVE FrontierRests
  BY <1>1, <1>5 DEF topUpBond, revealVars, statusVars
<1>6. ASSUME NEW i \in Ids, releaseFinalizedBond(i) PROVE FrontierRests
  BY <1>1, <1>6 DEF releaseFinalizedBond, revealVars, statusVars
<1>7. ASSUME NEW account \in Claimants, claimBond(account) PROVE FrontierRests
  BY <1>1, <1>7 DEF claimBond, revealVars, statusVars
<1>8. ASSUME recoverPausedAll PROVE FrontierRests
  BY <1>1, <1>8 DEF recoverPausedAll, clearPausedAll, revealVars, statusVars
<1>9. QED
  BY <1>2, <1>3, <1>4, <1>5, <1>6, <1>7, <1>8 DEF SubmissionStep

(* So does every step of a dispute. *)
LEMMA DisputeRests ==
    ASSUME BoardInv, DisputeStep, UNCHANGED <<settlementVars, finalizedAt>>
    PROVE  FrontierRests
<1>0. status \in [Ids -> Statuses] /\ UNCHANGED <<creditVars, finalizedAt>>
  BY DEF BoardInv, LinkInv, CommitShape, settlementVars, ledgerVars
<1>1. ASSUME NEW i \in Ids, markChallenged(i) PROVE FrontierRests
  <2>1. /\ status[i] = "Revealed" /\ status' = [status EXCEPT ![i] = "Challenged"]
        /\ UNCHANGED <<commitVars, claimedScoreAtoms, frontierVars>>
    BY <1>1 DEF markChallenged, revealVars
  <2>2. QED
    BY <1>0, <2>1, OpenMoveRests DEF Statuses, commitVars
<1>2. ASSUME NEW i \in Ids, leaveChallenged(i),
             \/ status' = [status EXCEPT ![i] = "Rejected"]
             \/ status' = [status EXCEPT ![i] = "Revealed"]
      PROVE  FrontierRests
  <2>1. status[i] = "Challenged" /\ UNCHANGED <<commitVars, claimedScoreAtoms, frontierVars>>
    BY <1>2 DEF leaveChallenged, revealVars
  <2>2. QED
    BY <1>0, <1>2, <2>1, OpenMoveRests DEF Statuses, commitVars
<1>3. ASSUME NEW i \in Ids, finalizeResolution(i) \/ expireChallenge(i) PROVE FrontierRests
  BY <1>2, <1>3 DEF finalizeResolution, expireChallenge, resolveChallenge, rejectForChallenger,
     returnToRevealed, reject
<1>4. ASSUME NEW i \in Ids, slashResolverBond(i) PROVE FrontierRests
  BY <1>2, <1>4 DEF slashResolverBond, cancelChallenge, returnToRevealed, reject
<1>5. ASSUME NEW i \in Ids, NEW wins \in BOOLEAN, NEW account \in Actors,
             applyObjectiveResolution(i, wins, account)
      PROVE  FrontierRests
  BY <1>2, <1>5 DEF applyObjectiveResolution, resolveObjectiveChallenge, rejectForChallenger,
     returnToRevealed, reject
<1>6. ASSUME UNCHANGED managerVars PROVE FrontierRests
  BY <1>0, <1>6 DEF FrontierRests, managerVars, commitVars, revealVars, statusVars
<1>7. QED
  BY <1>1, <1>3, <1>4, <1>5, <1>6
     DEF DisputeStep, challenge, resolve, claimCounterBond, challengeSetPausedNewActions

(* Every step finalizes one submission, voids one, or lets the frontier rest. *)
LEMMA FrontierMoves ==
    ASSUME BoardInv, finalizedAt \in [Ids -> Nat], [BoardNext]_boardVars
    PROVE  \/ FrontierRests
           \/ \E i \in Ids : FinalizesFrontier(i)
           \/ \E i \in Voidable : voidFinalize(i) /\ UNCHANGED <<now, finalizedAt>>
<1>0. status \in [Ids -> Statuses]
  BY DEF BoardInv, LinkInv, CommitShape
<1>1. ASSUME UNCHANGED <<managerVars, creditVars, finalizedAt>> PROVE FrontierRests
  BY <1>1 DEF FrontierRests, managerVars, commitVars, revealVars, statusVars
<1>2. CASE UNCHANGED boardVars
  BY <1>1, <1>2 DEF boardVars, settlementVars, ledgerVars
<1>3. CASE Tick /\ UNCHANGED <<ledgerVars, gateVars, poolVars, managerVars, disputeVars, finalizedAt>>
  BY <1>1, <1>3 DEF ledgerVars
<1>4. CASE GateStep /\ UNCHANGED <<now, ledgerVars, poolVars, managerVars, disputeVars, finalizedAt>>
  BY <1>1, <1>4 DEF ledgerVars
<1>5. CASE PoolStep /\ UNCHANGED <<now, ledgerVars, gateVars, managerVars, disputeVars, finalizedAt>>
  BY <1>1, <1>5 DEF ledgerVars
<1>6. CASE ClaimStep /\ UNCHANGED <<now, gateVars, managerVars, disputeVars, finalizedAt>>
  BY <1>1, <1>6 DEF ClaimStep, claimTo, donateClaimToPool, settleClaim, consumeClaim, sweepRollover,
     markRolloverSwept
<1>7. CASE LedgerStep /\ UNCHANGED <<now, gateVars, poolVars, managerVars, disputeVars, finalizedAt>>
  BY <1>1, <1>7 DEF LedgerStep, closeBoard, close, ledgerSetPausedNewActions
<1>8. CASE SubmissionStep /\ UNCHANGED <<settlementVars, disputeVars, finalizedAt>>
  BY <1>8, SubmissionRests
<1>9. CASE OwnerStep /\ UNCHANGED <<settlementVars, disputeVars, finalizedAt>>
  <2>1. UNCHANGED <<commitVars, revealVars, statusVars, frontierVars, creditVars, finalizedAt>>
    BY <1>9 DEF OwnerStep, setPausedNewActions, startPausedAll, endPausedAll, clearPausedAll,
       settlementVars, ledgerVars
  <2>2. QED
    BY <2>1 DEF FrontierRests, commitVars, revealVars, statusVars
<1>10. CASE FrontierStep /\ UNCHANGED <<now, gateVars, poolVars, disputeVars>>
  <2>1. ASSUME NEW i \in Ids, finalize(i), finalizedAt' = [finalizedAt EXCEPT ![i] = now]
        PROVE  FrontierRests \/ FinalizesFrontier(i)
    <3>1. status[i] = "Revealed" /\ UNCHANGED <<now, commitVars, claimedScoreAtoms>>
      BY <1>10, <2>1 DEF finalize, revealVars
    <3>2. CASE reject(i, solverOf[i]) /\ UNCHANGED <<frontierVars, ledgerVars>>
      <4>1. status' = [status EXCEPT ![i] = "Rejected"] /\ UNCHANGED <<frontierVars, creditVars>>
        BY <3>2 DEF reject, ledgerVars
      <4>2. \A j \in Ids \ {i} : /\ claimedScoreAtoms'[j] = claimedScoreAtoms[j]
                                 /\ solverOf'[j] = solverOf[j] /\ paidAtCommit'[j] = paidAtCommit[j]
                                 /\ finalizedAt'[j] = finalizedAt[j]
        BY <2>1, <3>1 DEF commitVars
      <4>3. QED
        BY <3>1, <4>1, <4>2, OpenMoveRests DEF Statuses
    <3>3. CASE status' = [status EXCEPT ![i] = "Finalized"] /\ advanceFrontier(i)
      BY <2>1, <3>1, <3>3 DEF FinalizesFrontier
    <3>4. QED
      BY <2>1, <3>2, <3>3 DEF finalize
  <2>2. ASSUME NEW i \in Voidable, voidFinalize(i) /\ UNCHANGED finalizedAt
        PROVE  voidFinalize(i) /\ UNCHANGED <<now, finalizedAt>>
    BY <1>10, <2>2
  <2>3. QED
    BY <1>10, <2>1, <2>2 DEF FrontierStep
<1>11. CASE DisputeStep /\ UNCHANGED <<settlementVars, finalizedAt>>
  BY <1>11, DisputeRests
<1>12. QED
  BY <1>2, <1>3, <1>4, <1>5, <1>6, <1>7, <1>8, <1>9, <1>10, <1>11 DEF BoardNext

(* The credit of the finalizes that stand, of one solver and of all. *)
StandingOf(s) == [i \in Ids |-> IF status[i] = "Finalized" /\ solverOf[i] = s
                                THEN finalizeInfo[i].creditAtoms ELSE 0]

(* The credit of the finalizes that stand, of all solvers. *)
Standing == [i \in Ids |-> IF status[i] = "Finalized" THEN finalizeInfo[i].creditAtoms ELSE 0]

(* The finalize of i was paid for. *)
hasCredit(i) == finalizeInfo[i].creditAtoms > 0

(* The ledger's credits are sums of what stands, and a credit is the advance of
   a finalize that was paid at commit. *)
CreditLinks ==
    \A i \in Ids : hasCredit(i) => /\ status[i] \in {"Finalized", "Voided"} /\ paidAtCommit[i]
                                  /\ finalizeInfo[i].creditAtoms = advanceOf(i)

(* The ledger's credits are sums of what stands. *)
CreditSums ==
    /\ \A s \in Actors : creditAtomsOf[s] = SumFunctionOnSet(StandingOf(s), Ids)
    /\ totalCreditAtoms = SumFunctionOnSet(Standing, Ids)

(* The summands are integers. *)
LEMMA StandingInt ==
    ASSUME BoardInv
    PROVE  \A i \in Ids : Standing[i] \in Int /\ \A s \in Actors : StandingOf(s)[i] \in Int
  BY DEF BoardInv, LinkInv, FrontierShape, Standing, StandingOf

(* The credit that stands changes by d at i, and the ledger's with it. *)
LEMMA CreditMoves ==
    ASSUME BoardInv, CreditSums, NEW i \in Ids, NEW d \in Int, solverOf[i] \in Actors,
           UNCHANGED solverOf,
           Standing'[i] = Standing[i] + d, \A j \in Ids \ {i} : Standing'[j] = Standing[j],
           \A s \in Actors : creditAtomsOf'[s] = creditAtomsOf[s] + (IF s = solverOf[i] THEN d ELSE 0),
           totalCreditAtoms' = totalCreditAtoms + d
    PROVE  CreditSums'
<1>1. PICK all : all = Standing'
  OBVIOUS
<1>2. SumFunctionOnSet(all, Ids) = SumFunctionOnSet(Standing, Ids) + d
  <2>1. /\ all[i] = Standing[i] + d /\ \A j \in Ids \ {i} : all[j] = Standing[j]
        /\ \A j \in Ids : Standing[j] \in Int
    BY <1>1, StandingInt
  <2>2. QED
    BY <2>1, IdsFinite, SumAddAt
<1>3. totalCreditAtoms' = SumFunctionOnSet(all, Ids)
  <2>1. totalCreditAtoms = SumFunctionOnSet(Standing, Ids)
    BY DEF CreditSums
  <2>2. QED
    BY <1>2, <2>1
<1>4. ASSUME NEW s \in Actors
      PROVE  creditAtomsOf'[s] = SumFunctionOnSet(StandingOf(s)', Ids)
  <2>1. creditAtomsOf[s] = SumFunctionOnSet(StandingOf(s), Ids)
    BY DEF CreditSums
  <2>2. PICK own : own = StandingOf(s)'
    OBVIOUS
  <2>3. \A j \in Ids : own[j] = IF solverOf[j] = s THEN Standing'[j] ELSE 0
    BY <2>2 DEF StandingOf, Standing
  <2>4. \A j \in Ids : /\ StandingOf(s)[j] = IF solverOf[j] = s THEN Standing[j] ELSE 0
                       /\ StandingOf(s)[j] \in Int /\ Standing[j] \in Int
    BY StandingInt DEF StandingOf, Standing
  <2>5. CASE solverOf[i] = s
    <3>1. own[i] = StandingOf(s)[i] + d /\ \A j \in Ids \ {i} : own[j] = StandingOf(s)[j]
      BY <2>3, <2>4, <2>5
    <3>2. SumFunctionOnSet(own, Ids) = SumFunctionOnSet(StandingOf(s), Ids) + d
      BY <2>4, <3>1, IdsFinite, SumAddAt
    <3>3. creditAtomsOf'[s] = SumFunctionOnSet(own, Ids)
      BY <2>1, <2>5, <3>2
    <3>4. QED
      BY <2>2, <3>3, Zenon
  <2>6. CASE solverOf[i] # s
    <3>1. \A j \in Ids : own[j] = StandingOf(s)[j]
      BY <2>3, <2>4, <2>6
    <3>2. SumFunctionOnSet(own, Ids) = SumFunctionOnSet(StandingOf(s), Ids)
      BY <3>1, IdsFinite, SumSame
    <3>3. creditAtomsOf'[s] = creditAtomsOf[s]
      <4>1. creditAtomsOf[s] \in Int
        BY <2>1, <2>4, IdsFinite, SumInt
      <4>2. QED
        BY <2>6, <4>1
    <3>4. QED
      BY <2>1, <2>2, <3>2, <3>3, Zenon
  <2>7. QED
    BY <2>5, <2>6
<1>5. QED
  BY <1>1, <1>3, <1>4, Zenon DEF CreditSums

(* What a finalize records, and how far it moves the frontier. *)
LEMMA FinalizeRecords ==
    ASSUME BoardInv, NEW i \in Ids, FinalizesFrontier(i)
    PROVE  /\ pendingCreditAtoms(i) \in Nat /\ bestScoreAtoms \in Int /\ claimedScoreAtoms[i] \in Int
           /\ bestScoreAtoms' = bestScoreAtoms - pendingCreditAtoms(i)
           /\ finalizeInfo'[i].prevBestScoreAtoms = bestScoreAtoms
           /\ finalizeInfo'[i].creditAtoms = creditOf(i)
           /\ finalizeInfo'[i].prevCreditRecoveryEndsAt = creditRecoveryEndsAt
           /\ \A j \in Ids \ {i} : finalizeInfo'[j] = finalizeInfo[j]
           /\ creditOf(i) \in {0, pendingCreditAtoms(i)}
           /\ creditOf(i) # 0 => paidAtCommit[i]
           /\ pendingCreditAtoms(i) # 0 => pendingCreditAtoms(i) = bestScoreAtoms - claimedScoreAtoms[i]
           /\ solverOf[i] \in Actors
<1>1. /\ claimedScoreAtoms[i] \in Int /\ bestScoreAtoms \in Int
      /\ minImprovementAtoms \in Nat /\ solverOf[i] \in Actors
  BY ManagerAssumption
     DEF BoardInv, LinkInv, CommitShape, FrontierShape, Linked, FinalizesFrontier
<1>2. /\ finalizeInfo'[i].prevBestScoreAtoms = bestScoreAtoms
      /\ finalizeInfo'[i].creditAtoms = creditOf(i)
      /\ finalizeInfo'[i].prevCreditRecoveryEndsAt = creditRecoveryEndsAt
      /\ \A j \in Ids \ {i} : finalizeInfo'[j] = finalizeInfo[j]
      /\ bestScoreAtoms' = frontierAfter(i)
  BY DEF FinalizesFrontier, advanceFrontier, BoardInv, LinkInv, FrontierShape
<1>3. /\ pendingCreditAtoms(i) \in Nat
      /\ pendingCreditAtoms(i) # 0 => pendingCreditAtoms(i) = bestScoreAtoms - claimedScoreAtoms[i]
  BY <1>1 DEF pendingCreditAtoms, marginalOf
<1>4. bestScoreAtoms' = bestScoreAtoms - pendingCreditAtoms(i)
  BY <1>1, <1>2, <1>3 DEF frontierAfter
<1>5. /\ creditOf(i) \in {0, pendingCreditAtoms(i)}
      /\ creditOf(i) # 0 => paidAtCommit[i]
  BY DEF creditOf
<1>6. QED
  BY <1>1, <1>2, <1>3, <1>4, <1>5

(* The advance of the new finalize is what it recorded as its credit, or would
   have had it been paid; nobody else's advance changes. *)
LEMMA FinalizeAdvances ==
    ASSUME BoardInv, NEW i \in Ids, FinalizesFrontier(i)
    PROVE  /\ advanceOf(i)' = pendingCreditAtoms(i)
           /\ \A j \in Ids \ {i} : advanceOf(j)' = advanceOf(j)
<1>1. /\ claimedScoreAtoms' = claimedScoreAtoms /\ minImprovementAtoms \in Nat
      /\ finalizeInfo'[i].prevBestScoreAtoms = bestScoreAtoms
  <2>1. claimedScoreAtoms' = claimedScoreAtoms
    BY DEF FinalizesFrontier
  <2>2. QED
    BY <2>1, FinalizeRecords, ManagerAssumption
<1>2. PICK m : m = moved(i)'
  OBVIOUS
<1>3. m = bestScoreAtoms - claimedScoreAtoms[i]
  BY <1>1, <1>2 DEF moved
<1>4. PICK a : a = advanceOf(i)'
  OBVIOUS
<1>5. a = IF m > 0 /\ m >= minImprovementAtoms THEN m ELSE 0
  BY <1>2, <1>4 DEF advanceOf
<1>6. a = pendingCreditAtoms(i)
  BY <1>1, <1>3, <1>5, FinalizeRecords DEF pendingCreditAtoms, marginalOf
<1>7. advanceOf(i)' = pendingCreditAtoms(i)
  BY <1>4, <1>6, Zenon
<1>8. \A j \in Ids \ {i} : advanceOf(j)' = advanceOf(j)
  BY <1>1, FinalizeRecords DEF advanceOf, moved
<1>9. QED
  BY <1>7, <1>8

(* A step that lets the frontier rest keeps the credits. *)
LEMMA CreditRests ==
    ASSUME BoardInv, CreditLinks, CreditSums, FrontierRests
    PROVE  CreditLinks' /\ CreditSums'
<1>1. CreditLinks'
  <2> SUFFICES ASSUME NEW i \in Ids, hasCredit(i)'
               PROVE  /\ status'[i] \in {"Finalized", "Voided"} /\ paidAtCommit'[i]
                      /\ finalizeInfo'[i].creditAtoms = advanceOf(i)'
    BY DEF CreditLinks
  <2>1. finalizeInfo' = finalizeInfo
    BY DEF FrontierRests, frontierVars
  <2>2. hasCredit(i)
    BY <2>1 DEF hasCredit
  <2>3. /\ status[i] \in {"Finalized", "Voided"} /\ paidAtCommit[i]
        /\ finalizeInfo[i].creditAtoms = advanceOf(i)
    BY <2>2 DEF CreditLinks
  <2>4. advanceOf(i)' = advanceOf(i)
    BY <2>1, <2>3 DEF FrontierRests, advanceOf, moved
  <2>5. QED
    BY <2>1, <2>3, <2>4 DEF FrontierRests
<1>2. /\ Standing' = Standing /\ UNCHANGED creditVars
      /\ \A s \in Actors : StandingOf(s)' = StandingOf(s)
  BY DEF FrontierRests, Standing, StandingOf, frontierVars
<1>3. QED
  BY <1>1, <1>2 DEF CreditSums, creditVars

(* A finalize adds its credit on both sides. *)
LEMMA CreditFinalizes ==
    ASSUME BoardInv, CreditLinks, CreditSums, NEW i \in Ids, FinalizesFrontier(i)
    PROVE  CreditLinks' /\ CreditSums'
<1>0. /\ status \in [Ids -> Statuses] /\ status[i] = "Revealed"
      /\ status' = [status EXCEPT ![i] = "Finalized"]
      /\ UNCHANGED <<solverOf, paidAtCommit, claimedScoreAtoms>>
      /\ creditAtomsOf \in [Actors -> Nat] /\ totalCreditAtoms \in Nat
  BY DEF BoardInv, LinkInv, CommitShape, FinalizesFrontier, commitVars, SettlementInv,
     SettlementTypeOK, LedgerTypeOK
<1> DEFINE d == creditOf(i)
<1>1. d \in Nat /\ d \in Int
  BY FinalizeRecords
<1>f. /\ finalizeInfo'[i].creditAtoms = d /\ \A j \in Ids \ {i} : finalizeInfo'[j] = finalizeInfo[j]
      /\ d # 0 => (d = pendingCreditAtoms(i) /\ paidAtCommit[i])
      /\ solverOf[i] \in Actors
  BY FinalizeRecords
<1>a. advanceOf(i)' = pendingCreditAtoms(i)
  BY FinalizeAdvances
<1> HIDE DEF d
<1>2. CreditLinks'
  <2> SUFFICES ASSUME NEW j \in Ids, hasCredit(j)'
               PROVE  /\ status'[j] \in {"Finalized", "Voided"} /\ paidAtCommit'[j]
                      /\ finalizeInfo'[j].creditAtoms = advanceOf(j)'
    BY DEF CreditLinks
  <2>1. CASE j = i
    <3>1. d # 0
      BY <1>f, <2>1 DEF hasCredit
    <3>2. paidAtCommit'[i] /\ status'[i] = "Finalized" /\ finalizeInfo'[i].creditAtoms = pendingCreditAtoms(i)
      BY <1>0, <1>f, <3>1
    <3>3. QED
      BY <1>a, <2>1, <3>2, Zenon
  <2>2. CASE j # i
    <3>1. finalizeInfo'[j] = finalizeInfo[j]
      BY <1>f, <2>2
    <3>2. hasCredit(j) /\ advanceOf(j)' = advanceOf(j)
      BY <1>0, <3>1 DEF hasCredit, advanceOf, moved
    <3>3. QED
      BY <1>0, <2>2, <3>1, <3>2 DEF CreditLinks
  <2>3. QED
    BY <2>1, <2>2
<1>3. Standing'[i] = Standing[i] + d /\ \A j \in Ids \ {i} : Standing'[j] = Standing[j]
  BY <1>0, <1>1, <1>f DEF Standing
<1>4. /\ \A s \in Actors : creditAtomsOf'[s] = creditAtomsOf[s] + (IF s = solverOf[i] THEN d ELSE 0)
      /\ totalCreditAtoms' = totalCreditAtoms + d
  <2>1. CASE d = 0
    <3>1. UNCHANGED <<creditAtomsOf, totalCreditAtoms>>
      BY <2>1 DEF d, FinalizesFrontier, advanceFrontier, ledgerVars, creditVars
    <3>2. QED
      BY <1>0, <2>1, <3>1
  <2>2. CASE d # 0
    <3>1. recordCredit(solverOf[i], d)
      BY <2>2 DEF d, FinalizesFrontier, advanceFrontier
    <3>2. QED
      BY <1>0, <1>1, <1>f, <3>1 DEF recordCredit
  <2>3. QED
    BY <2>1, <2>2
<1>5. CreditSums'
  BY <1>0, <1>1, <1>3, <1>4, <1>f, CreditMoves
<1>6. QED
  BY <1>2, <1>5

(* A void takes the credit off both sides. *)
LEMMA CreditVoids ==
    ASSUME BoardInv, CreditLinks, CreditSums, NEW i \in Ids, voidFinalize(i)
    PROVE  CreditLinks' /\ CreditSums'
<1>0. /\ status \in [Ids -> Statuses] /\ status[i] = "Finalized"
      /\ status' = [status EXCEPT ![i] = "Voided"]
      /\ UNCHANGED <<solverOf, paidAtCommit, claimedScoreAtoms, finalizeInfo>>
      /\ creditAtomsOf \in [Actors -> Nat] /\ totalCreditAtoms \in Nat
      /\ solverOf[i] \in Actors
  BY DEF BoardInv, LinkInv, CommitShape, Linked, voidFinalize, commitVars, revealVars, SettlementInv,
     SettlementTypeOK, LedgerTypeOK
<1> DEFINE c == finalizeInfo[i].creditAtoms
<1>1. c \in Nat /\ -c \in Int
  BY DEF BoardInv, LinkInv, FrontierShape
<1>2. CreditLinks'
  BY <1>0 DEF CreditLinks, hasCredit, advanceOf, moved
<1>3. Standing'[i] = Standing[i] + (-c) /\ \A j \in Ids \ {i} : Standing'[j] = Standing[j]
  BY <1>0, <1>1 DEF Standing
<1>4. /\ \A s \in Actors : creditAtomsOf'[s] = creditAtomsOf[s] + (IF s = solverOf[i] THEN -c ELSE 0)
      /\ totalCreditAtoms' = totalCreditAtoms + (-c)
  <2>1. CASE c = 0
    <3>1. UNCHANGED <<creditAtomsOf, totalCreditAtoms>>
      BY <2>1 DEF voidFinalize, ledgerVars, creditVars
    <3> HIDE DEF c
    <3>2. QED
      BY <1>0, <2>1, <3>1
  <2>2. CASE c # 0
    <3>1. voidCredit(solverOf[i], c)
      BY <1>1, <2>2 DEF voidFinalize
    <3> HIDE DEF c
    <3>2. QED
      BY <1>0, <1>1, <3>1 DEF voidCredit
  <2>3. QED
    BY <2>1, <2>2
<1> HIDE DEF c
<1>5. CreditSums'
  BY <1>0, <1>1, <1>3, <1>4, CreditMoves
<1>6. QED
  BY <1>2, <1>5

(* How far each finalize that stands moved the frontier. *)
Advances == [i \in Ids |-> IF status[i] = "Finalized" THEN advanceOf(i) ELSE 0]

(* The finalizes that stand and moved it. *)
Advanced == {i \in Ids : status[i] = "Finalized" /\ advanceOf(i) > 0}

(* The distance from the seed to the best is the sum of the advances:
   FrontierTelescopes, over every id. *)
Telescopes == seedScoreAtoms - bestScoreAtoms = SumFunctionOnSet(Advances, Ids)

(* Finalize times are in the past. *)
FinalizeClock == finalizedAt \in [Ids -> Nat] /\ \A i \in Ids : finalizedAt[i] <= now

(* Until when the finalize of i keeps close() shut. *)
windowEnd(i) == finalizedAt[i] + CREDIT_FINALIZE_RECOVERY_DELAY

(* The finalizes that stand and advanced form a chain below the seed: no claim
   is below the live best, no two are equal, each started at or below every
   claim above its own, and each remembers a recovery deadline that covers the
   credited ones above it; the live deadline covers them all. *)
Chain ==
    /\ \A i \in Advanced : /\ claimedScoreAtoms[i] >= bestScoreAtoms
                           /\ hasCredit(i) => windowEnd(i) <= creditRecoveryEndsAt
    /\ \A i, j \in Advanced :
         i # j => /\ claimedScoreAtoms[i] # claimedScoreAtoms[j]
                  /\ claimedScoreAtoms[i] < claimedScoreAtoms[j] =>
                       /\ finalizeInfo[i].prevBestScoreAtoms <= claimedScoreAtoms[j]
                       /\ hasCredit(j) =>
                            (hasCredit(i) => windowEnd(j) <= finalizeInfo[i].prevCreditRecoveryEndsAt)

(* Advances are integers, and one that counts is the whole improvement. *)
LEMMA AdvanceInt ==
    ASSUME BoardInv
    PROVE  \A i \in Ids : /\ moved(i) \in Int /\ advanceOf(i) \in Int /\ Advances[i] \in Int
                          /\ Advances[i] = IF status[i] = "Finalized" THEN advanceOf(i) ELSE 0
                          /\ advanceOf(i) > 0 => advanceOf(i) = moved(i)
  BY DEF BoardInv, LinkInv, FrontierShape, moved, advanceOf, Advances

(* Every step keeps the finalize times in the past, and time goes forward. *)
LEMMA ClockStep ==
    BoardInv /\ FinalizeClock /\ [BoardNext]_boardVars => FinalizeClock' /\ now' \in Nat /\ now <= now'
<1> SUFFICES ASSUME BoardInv, FinalizeClock, [BoardNext]_boardVars
             PROVE  FinalizeClock' /\ now' \in Nat /\ now <= now'
  OBVIOUS
<1>1. now \in Nat
  BY DEF BoardInv, SettlementInv, SettlementTypeOK, LedgerTypeOK
<1>2. CASE Tick /\ UNCHANGED finalizedAt
  BY <1>1, <1>2 DEF Tick, FinalizeClock
<1>3. CASE UNCHANGED <<now, finalizedAt>>
  BY <1>1, <1>3 DEF FinalizeClock
<1>4. CASE FrontierStep /\ UNCHANGED now
  BY <1>1, <1>4 DEF FrontierStep, FinalizeClock
<1>5. QED
  BY <1>2, <1>3, <1>4 DEF BoardNext, boardVars, settlementVars, GateStep, PoolStep, ClaimStep,
     LedgerStep, SubmissionStep, OwnerStep, DisputeStep

(* The frontier rests. *)
LEMMA ChainRests ==
    ASSUME BoardInv, Chain, FrontierRests
    PROVE  Chain' /\ (Telescopes => Telescopes')
<1>1. \A i \in Ids : status[i] = "Finalized" =>
          /\ advanceOf(i)' = advanceOf(i) /\ hasCredit(i)' = hasCredit(i) /\ windowEnd(i)' = windowEnd(i)
          /\ claimedScoreAtoms'[i] = claimedScoreAtoms[i]
  BY DEF FrontierRests, frontierVars, advanceOf, moved, hasCredit, windowEnd
<1>2. /\ Advances' = Advances /\ Advanced' = Advanced
      /\ UNCHANGED <<bestScoreAtoms, creditRecoveryEndsAt, finalizeInfo>>
  BY <1>1 DEF FrontierRests, frontierVars, Advances, Advanced
<1>3. Telescopes => Telescopes'
  BY <1>2 DEF Telescopes
<1>4. Advanced \subseteq Ids /\ \A i \in Advanced : status[i] = "Finalized"
  BY DEF Advanced
<1>5. \A i \in Advanced : /\ hasCredit(i)' = hasCredit(i) /\ windowEnd(i)' = windowEnd(i)
                          /\ claimedScoreAtoms'[i] = claimedScoreAtoms[i]
  BY <1>1, <1>4
<1>6. Chain'
  <2>1. \A i \in Advanced : /\ claimedScoreAtoms'[i] >= bestScoreAtoms'
                            /\ hasCredit(i)' => windowEnd(i)' <= creditRecoveryEndsAt'
    BY <1>2, <1>5 DEF Chain
  <2>2. \A i, j \in Advanced :
          i # j => /\ claimedScoreAtoms'[i] # claimedScoreAtoms'[j]
                   /\ claimedScoreAtoms'[i] < claimedScoreAtoms'[j] =>
                        /\ finalizeInfo'[i].prevBestScoreAtoms <= claimedScoreAtoms'[j]
                        /\ hasCredit(j)' =>
                             (hasCredit(i)' => windowEnd(j)' <= finalizeInfo'[i].prevCreditRecoveryEndsAt)
    BY <1>2, <1>5 DEF Chain
  <2>3. QED
    BY <1>2, <2>1, <2>2, Zenon DEF Chain
<1>7. QED
  BY <1>3, <1>6

(* One more finalize. *)
LEMMA ChainFinalizes ==
    ASSUME BoardInv, FinalizeClock, Chain, NEW i \in Ids, FinalizesFrontier(i)
    PROVE  Chain' /\ (Telescopes => Telescopes')
<1> DEFINE p == pendingCreditAtoms(i)
<1>0. /\ status \in [Ids -> Statuses] /\ status[i] = "Revealed"
      /\ status' = [status EXCEPT ![i] = "Finalized"] /\ claimedScoreAtoms' = claimedScoreAtoms
      /\ finalizedAt' = [finalizedAt EXCEPT ![i] = now] /\ finalizedAt \in [Ids -> Nat]
      /\ now \in Nat /\ creditRecoveryEndsAt \in Nat /\ CREDIT_FINALIZE_RECOVERY_DELAY \in Nat
      /\ \A j \in Ids : finalizedAt[j] <= now /\ claimedScoreAtoms[j] \in Int
      /\ bestScoreAtoms \in Int /\ seedScoreAtoms \in Int
  BY ManagerAssumption DEF BoardInv, LinkInv, CommitShape, FrontierShape, FinalizesFrontier,
     SettlementInv, SettlementTypeOK, LedgerTypeOK, FinalizeClock
<1>1. p \in Nat /\ bestScoreAtoms' = bestScoreAtoms - p
      /\ (p # 0 => p = bestScoreAtoms - claimedScoreAtoms[i])
  BY FinalizeRecords
<1>2. PICK adv : adv = Advances'
  OBVIOUS
<1>3. adv[i] = Advances[i] + p /\ \A j \in Ids \ {i} : adv[j] = Advances[j]
  <2>1. adv[i] = advanceOf(i)' /\ \A j \in Ids \ {i} : adv[j] = IF status[j] = "Finalized" THEN advanceOf(j)' ELSE 0
    BY <1>0, <1>2 DEF Advances
  <2>2. adv[i] = p /\ \A j \in Ids \ {i} : adv[j] = IF status[j] = "Finalized" THEN advanceOf(j) ELSE 0
    BY <2>1, FinalizeAdvances
  <2> HIDE DEF p
  <2>3. QED
    BY <1>0, <1>1, <2>2 DEF Advances
<1> HIDE DEF p
<1>4. SumFunctionOnSet(adv, Ids) = SumFunctionOnSet(Advances, Ids) + p
  BY <1>1, <1>3, AdvanceInt, IdsFinite, SumAddAt
<1>5. ASSUME Telescopes PROVE seedScoreAtoms - bestScoreAtoms' = SumFunctionOnSet(adv, Ids)
  <2>1. seedScoreAtoms - bestScoreAtoms = SumFunctionOnSet(Advances, Ids)
    BY <1>5 DEF Telescopes
  <2>2. QED
    BY <1>0, <1>1, <1>4, <2>1
<1>6. Telescopes => Telescopes'
  BY <1>2, <1>5, Zenon DEF Telescopes
<1>7. PICK rest : rest = Advanced'
  OBVIOUS
<1>8. rest = IF p > 0 THEN Advanced \cup {i} ELSE Advanced
  <2>1. \A j \in Ids : j \in rest <=> adv[j] > 0
    BY <1>2, <1>7 DEF Advances, Advanced
  <2>2. \A j \in Ids : j \in Advanced <=> Advances[j] > 0
    BY DEF Advances, Advanced
  <2>3. Advances[i] = 0 /\ rest \subseteq Ids /\ Advanced \subseteq Ids
    BY <1>0, <1>7 DEF Advances, Advanced
  <2>4. QED
    BY <1>1, <1>3, <2>1, <2>2, <2>3
<1>9. /\ finalizeInfo'[i].prevBestScoreAtoms = bestScoreAtoms
      /\ finalizeInfo'[i].prevCreditRecoveryEndsAt = creditRecoveryEndsAt
      /\ finalizeInfo'[i].creditAtoms > 0 => creditRecoveryEndsAt' = now + CREDIT_FINALIZE_RECOVERY_DELAY
      /\ creditRecoveryEndsAt' \in {creditRecoveryEndsAt, now + CREDIT_FINALIZE_RECOVERY_DELAY}
      /\ \A j \in Ids \ {i} : finalizeInfo'[j] = finalizeInfo[j]
  <2>1. /\ creditOf(i) # 0 => creditRecoveryEndsAt' = now + CREDIT_FINALIZE_RECOVERY_DELAY
        /\ creditRecoveryEndsAt' \in {creditRecoveryEndsAt, now + CREDIT_FINALIZE_RECOVERY_DELAY}
    BY DEF FinalizesFrontier, advanceFrontier
  <2>2. QED
    BY <2>1, FinalizeRecords
<1> DEFINE ended(j) == finalizedAt'[j] + CREDIT_FINALIZE_RECOVERY_DELAY
           paid(j) == finalizeInfo'[j].creditAtoms > 0
<1>10. /\ ended(i) = now + CREDIT_FINALIZE_RECOVERY_DELAY
       /\ \A j \in Ids \ {i} : /\ ended(j) = windowEnd(j) /\ ended(j) <= now + CREDIT_FINALIZE_RECOVERY_DELAY
                               /\ paid(j) <=> hasCredit(j)
       /\ \A j \in Ids : ended(j) \in Nat
  BY <1>0, <1>9 DEF windowEnd, hasCredit
<1>11. Advanced \subseteq Ids /\ i \notin Advanced
  BY <1>0 DEF Advanced
<1> HIDE DEF ended, paid
<1>12. \A j \in rest : /\ claimedScoreAtoms[j] >= bestScoreAtoms'
                       /\ paid(j) => ended(j) <= creditRecoveryEndsAt'
  <2> SUFFICES ASSUME NEW j \in rest
               PROVE  /\ claimedScoreAtoms[j] >= bestScoreAtoms'
                      /\ paid(j) => ended(j) <= creditRecoveryEndsAt'
    OBVIOUS
  <2>1. CASE j = i
    <3>1. p > 0
      BY <1>8, <1>11, <2>1
    <3>2. claimedScoreAtoms[i] = bestScoreAtoms'
      BY <1>0, <1>1, <3>1
    <3>3. paid(i) => creditRecoveryEndsAt' = now + CREDIT_FINALIZE_RECOVERY_DELAY
      BY <1>9 DEF paid
    <3>4. QED
      BY <1>0, <1>10, <2>1, <3>2, <3>3
  <2>2. CASE j # i
    <3>1. j \in Advanced /\ j \in Ids \ {i}
      BY <1>8, <1>11, <2>2
    <3>2. claimedScoreAtoms[j] >= bestScoreAtoms /\ (hasCredit(j) => windowEnd(j) <= creditRecoveryEndsAt)
      BY <3>1 DEF Chain
    <3>3. QED
      BY <1>0, <1>1, <1>9, <1>10, <3>1, <3>2
  <2>3. QED
    BY <2>1, <2>2
<1>13. \A j, k \in rest :
         j # k => /\ claimedScoreAtoms[j] # claimedScoreAtoms[k]
                  /\ claimedScoreAtoms[j] < claimedScoreAtoms[k] =>
                       /\ finalizeInfo'[j].prevBestScoreAtoms <= claimedScoreAtoms[k]
                       /\ paid(k) => (paid(j) => ended(k) <= finalizeInfo'[j].prevCreditRecoveryEndsAt)
  <2> SUFFICES ASSUME NEW j \in rest, NEW k \in rest, j # k
               PROVE  /\ claimedScoreAtoms[j] # claimedScoreAtoms[k]
                      /\ claimedScoreAtoms[j] < claimedScoreAtoms[k] =>
                           /\ finalizeInfo'[j].prevBestScoreAtoms <= claimedScoreAtoms[k]
                           /\ paid(k) => (paid(j) => ended(k) <= finalizeInfo'[j].prevCreditRecoveryEndsAt)
    OBVIOUS
  <2>1. ASSUME NEW l \in Advanced
        PROVE  /\ claimedScoreAtoms[l] >= bestScoreAtoms /\ l \in Ids \ {i}
               /\ hasCredit(l) => windowEnd(l) <= creditRecoveryEndsAt
    BY <1>11, <2>1 DEF Chain
  <2>2. CASE j = i
    <3>1. k \in Advanced /\ p > 0
      BY <1>8, <1>11, <2>2
    <3>2. claimedScoreAtoms[i] < bestScoreAtoms
      BY <1>0, <1>1, <3>1
    <3>3. k \in Ids \ {i} /\ claimedScoreAtoms[k] >= bestScoreAtoms
          /\ (hasCredit(k) => windowEnd(k) <= creditRecoveryEndsAt)
      BY <2>1, <3>1
    <3>4. QED
      BY <1>0, <1>9, <1>10, <2>2, <3>2, <3>3
  <2>3. CASE k = i
    <3>1. j \in Advanced /\ p > 0
      BY <1>8, <1>11, <2>3
    <3>2. claimedScoreAtoms[i] < bestScoreAtoms
      BY <1>0, <1>1, <3>1
    <3>3. j \in Ids \ {i} /\ claimedScoreAtoms[j] >= bestScoreAtoms
      BY <2>1, <3>1
    <3>4. claimedScoreAtoms[i] < claimedScoreAtoms[j]
      BY <1>0, <3>2, <3>3
    <3>5. QED
      BY <1>0, <2>3, <3>3, <3>4
  <2>4. CASE j # i /\ k # i
    <3>1. j \in Advanced /\ k \in Advanced
      BY <1>8, <2>4
    <3>2. j \in Ids \ {i} /\ k \in Ids \ {i}
      BY <1>11, <2>4, <3>1
    <3>3. /\ claimedScoreAtoms[j] # claimedScoreAtoms[k]
          /\ claimedScoreAtoms[j] < claimedScoreAtoms[k] =>
               /\ finalizeInfo[j].prevBestScoreAtoms <= claimedScoreAtoms[k]
               /\ hasCredit(k) =>
                    (hasCredit(j) => windowEnd(k) <= finalizeInfo[j].prevCreditRecoveryEndsAt)
      BY <3>1 DEF Chain
    <3>4. QED
      BY <1>9, <1>10, <3>2, <3>3
  <2>5. QED
    BY <2>2, <2>3, <2>4
<1>14. Chain'
  BY <1>0, <1>7, <1>12, <1>13, Zenon DEF Chain, ended, paid, windowEnd, hasCredit
<1>15. QED
  BY <1>6, <1>14

(* A void of an advance: the frontier, and for a credited one the deadline, go
   back to where that finalize found them. *)
LEMMA ChainVoids ==
    ASSUME BoardInv, Chain, NEW i \in Ids, voidFinalize(i), advanceOf(i) > 0, UNCHANGED finalizedAt
    PROVE  Chain' /\ (Telescopes => Telescopes')
<1> DEFINE a == advanceOf(i)
<1>0. /\ status \in [Ids -> Statuses] /\ status[i] = "Finalized"
      /\ status' = [status EXCEPT ![i] = "Voided"]
      /\ UNCHANGED <<claimedScoreAtoms, finalizeInfo>>
      /\ \A j \in Ids : claimedScoreAtoms[j] \in Int
      /\ bestScoreAtoms \in Int /\ seedScoreAtoms \in Int
      /\ bestScoreAtoms = claimedScoreAtoms[i]
      /\ bestScoreAtoms' = finalizeInfo[i].prevBestScoreAtoms
      /\ finalizeInfo[i].prevBestScoreAtoms \in Int
      /\ IF hasCredit(i) THEN creditRecoveryEndsAt' = finalizeInfo[i].prevCreditRecoveryEndsAt
                        ELSE creditRecoveryEndsAt' = creditRecoveryEndsAt
  BY ManagerAssumption
     DEF BoardInv, LinkInv, CommitShape, FrontierShape, voidFinalize, revealVars, hasCredit
<1>1. \A j \in Ids : /\ advanceOf(j)' = advanceOf(j) /\ hasCredit(j)' = hasCredit(j)
                     /\ windowEnd(j)' = windowEnd(j)
  BY <1>0 DEF advanceOf, moved, hasCredit, windowEnd
<1>2. a \in Int /\ -a \in Int /\ a = finalizeInfo[i].prevBestScoreAtoms - claimedScoreAtoms[i]
  BY AdvanceInt DEF moved
<1>3. PICK adv : adv = Advances'
  OBVIOUS
<1>4. adv[i] = Advances[i] + (-a) /\ \A j \in Ids \ {i} : adv[j] = Advances[j]
  <2>1. adv[i] = 0 /\ \A j \in Ids \ {i} : adv[j] = IF status[j] = "Finalized" THEN advanceOf(j)' ELSE 0
    BY <1>0, <1>3 DEF Advances
  <2>2. Advances[i] = a /\ \A j \in Ids : Advances[j] = IF status[j] = "Finalized" THEN advanceOf(j) ELSE 0
    BY <1>0 DEF Advances
  <2> HIDE DEF a
  <2>3. \A j \in Ids \ {i} : adv[j] = Advances[j]
    BY <1>1, <2>1, <2>2
  <2>4. QED
    BY <1>2, <2>1, <2>2, <2>3
<1> HIDE DEF a
<1>5. SumFunctionOnSet(adv, Ids) = SumFunctionOnSet(Advances, Ids) + (-a)
  BY <1>2, <1>4, AdvanceInt, IdsFinite, SumAddAt
<1>6. ASSUME Telescopes PROVE seedScoreAtoms - bestScoreAtoms' = SumFunctionOnSet(adv, Ids)
  <2>1. seedScoreAtoms - bestScoreAtoms = SumFunctionOnSet(Advances, Ids)
    BY <1>6 DEF Telescopes
  <2>2. QED
    BY <1>0, <1>2, <1>5, <2>1
<1>7. Telescopes => Telescopes'
  BY <1>3, <1>6, Zenon DEF Telescopes
<1>8. PICK rest : rest = Advanced'
  OBVIOUS
<1>9. rest = Advanced \ {i} /\ i \in Advanced /\ Advanced \subseteq Ids
  BY <1>0, <1>1, <1>8 DEF Advanced
<1>10. \A j \in rest : /\ claimedScoreAtoms[j] >= bestScoreAtoms'
                       /\ hasCredit(j) => windowEnd(j) <= creditRecoveryEndsAt'
  <2> SUFFICES ASSUME NEW j \in rest
               PROVE  /\ claimedScoreAtoms[j] >= bestScoreAtoms'
                      /\ hasCredit(j) => windowEnd(j) <= creditRecoveryEndsAt'
    OBVIOUS
  <2>1. j \in Advanced /\ j \in Ids /\ j # i
    BY <1>9
  <2>2. /\ claimedScoreAtoms[j] >= bestScoreAtoms
        /\ hasCredit(j) => windowEnd(j) <= creditRecoveryEndsAt
        /\ claimedScoreAtoms[i] # claimedScoreAtoms[j]
        /\ claimedScoreAtoms[i] < claimedScoreAtoms[j] =>
             /\ finalizeInfo[i].prevBestScoreAtoms <= claimedScoreAtoms[j]
             /\ hasCredit(j) =>
                  (hasCredit(i) => windowEnd(j) <= finalizeInfo[i].prevCreditRecoveryEndsAt)
    BY <1>9, <2>1 DEF Chain
  <2>3. claimedScoreAtoms[i] < claimedScoreAtoms[j]
    BY <1>0, <2>1, <2>2
  <2>4. QED
    BY <1>0, <2>1, <2>2, <2>3
<1>11. \A j, k \in rest :
         j # k => /\ claimedScoreAtoms[j] # claimedScoreAtoms[k]
                  /\ claimedScoreAtoms[j] < claimedScoreAtoms[k] =>
                       /\ finalizeInfo[j].prevBestScoreAtoms <= claimedScoreAtoms[k]
                       /\ hasCredit(k) =>
                            (hasCredit(j) => windowEnd(k) <= finalizeInfo[j].prevCreditRecoveryEndsAt)
  BY <1>9 DEF Chain
<1>12. \A j \in rest : /\ hasCredit(j)' = hasCredit(j) /\ windowEnd(j)' = windowEnd(j)
  BY <1>1, <1>9
<1>13. Chain'
  BY <1>0, <1>8, <1>10, <1>11, <1>12, Zenon DEF Chain
<1>14. QED
  BY <1>7, <1>13

(* A void of a finalize that advanced nothing, on a board where the least improvement counts:
   that finalize carries no credit and started below its own claim, so the frontier moves
   further down and no deadline changes. *)
LEMMA ChainOutlivesVoids ==
    ASSUME BoardInv, CreditLinks, Chain, minImprovementAtoms <= 1, NEW i \in Ids, voidFinalize(i),
           ~(advanceOf(i) > 0), UNCHANGED finalizedAt
    PROVE  Chain'
<1>0. /\ status \in [Ids -> Statuses] /\ status[i] = "Finalized"
      /\ status' = [status EXCEPT ![i] = "Voided"]
      /\ UNCHANGED <<claimedScoreAtoms, finalizeInfo>>
      /\ \A j \in Ids : claimedScoreAtoms[j] \in Int
      /\ bestScoreAtoms \in Int /\ bestScoreAtoms = claimedScoreAtoms[i]
      /\ bestScoreAtoms' = finalizeInfo[i].prevBestScoreAtoms
      /\ finalizeInfo[i].prevBestScoreAtoms \in Int
      /\ ~hasCredit(i) => creditRecoveryEndsAt' = creditRecoveryEndsAt
  BY ManagerAssumption
     DEF BoardInv, LinkInv, CommitShape, FrontierShape, voidFinalize, revealVars, hasCredit
<1>1. \A j \in Ids : /\ advanceOf(j)' = advanceOf(j) /\ hasCredit(j)' = hasCredit(j)
                     /\ windowEnd(j)' = windowEnd(j)
  BY <1>0 DEF advanceOf, moved, hasCredit, windowEnd
<1>2. ~hasCredit(i)
  BY <1>0 DEF CreditLinks, hasCredit
<1>3. bestScoreAtoms' <= bestScoreAtoms
  <2>1. moved(i) \in Int /\ ~(moved(i) > 0 /\ moved(i) >= minImprovementAtoms)
    BY <1>0 DEF moved, advanceOf
  <2>2. moved(i) \in Int /\ ~(moved(i) > 0)
    BY <1>0, <2>1, ManagerAssumption DEF moved
  <2>3. QED
    BY <1>0, <2>2 DEF moved
<1>4. Advanced' = Advanced /\ Advanced \subseteq Ids
  <2>1. \A j \in Ids \ {i} : status'[j] = status[j] /\ advanceOf(j)' = advanceOf(j)
    BY <1>0, <1>1
  <2>2. status'[i] # "Finalized"
    BY <1>0
  <2>3. QED
    BY <2>1, <2>2 DEF Advanced
<1>5. \A j \in Advanced : /\ hasCredit(j)' = hasCredit(j) /\ windowEnd(j)' = windowEnd(j)
                          /\ claimedScoreAtoms[j] >= bestScoreAtoms'
  BY <1>0, <1>1, <1>3, <1>4 DEF Chain
<1>6. QED
  BY <1>0, <1>2, <1>4, <1>5 DEF Chain

(* After the close nothing opens again: only a void still moves a submission. *)
LEMMA NothingReopens ==
    ASSUME BoardInv, DisputeInv, closed, InStatus(OpenStatuses) = {}, [BoardNext]_boardVars
    PROVE  InStatus(OpenStatuses)' = {}
<1>0. /\ status \in [Ids -> Statuses]
      /\ \A i \in Ids : status[i] \notin {"Committed", "Revealed", "Challenged"}
  BY DEF BoardInv, LinkInv, CommitShape, InStatus, OpenStatuses
<1>1. CASE UNCHANGED status
  BY <1>1 DEF InStatus
<1>2. CASE \E i \in Ids : voidFinalize(i)
  BY <1>0, <1>2 DEF voidFinalize, InStatus, OpenStatuses
<1>3. CASE SubmissionStep
  BY <1>0, <1>1, <1>3
     DEF SubmissionStep, commit, topUpBond, reveal, releaseFinalizedBond, expireCommitted,
         commitForfeitable, expireRevealed, revealForfeitable, claimBond, recoverPausedAll,
         clearPausedAll, statusVars
<1>4. CASE OwnerStep
  BY <1>1, <1>4
     DEF OwnerStep, setPausedNewActions, startPausedAll, endPausedAll, clearPausedAll, statusVars
<1>5. CASE FrontierStep
  BY <1>0, <1>2, <1>5 DEF FrontierStep, Voidable, finalize
<1>6. CASE DisputeStep
  BY <1>0, <1>1, <1>6
     DEF DisputeStep, challenge, markChallenged, resolve, finalizeResolution, expireChallenge,
         slashResolverBond, applyObjectiveResolution, resolveChallenge, cancelChallenge,
         resolveObjectiveChallenge, leaveChallenged, claimCounterBond, challengeSetPausedNewActions,
         managerVars, statusVars
<1>7. CASE UNCHANGED managerVars
  BY <1>1, <1>7 DEF managerVars, statusVars
<1>8. QED
  BY <1>3, <1>4, <1>5, <1>6, <1>7 DEF BoardNext, boardVars

(* The one step that closes, and what it leaves alone. *)
LEMMA ClosesOnce ==
    ASSUME [BoardNext]_boardVars, closed'
    PROVE  \/ closed /\ closedAt' = closedAt
           \/ /\ closeBoard
              /\ UNCHANGED <<now, managerVars, disputeVars, finalizedAt>>
<1> USE DEF ledgerVars, closeVars
<1>1. CASE UNCHANGED ledgerVars
  BY <1>1
<1>2. CASE ClaimStep
  BY <1>2 DEF ClaimStep, claimTo, donateClaimToPool, settleClaim, consumeClaim, sweepRollover,
     markRolloverSwept
<1>3. CASE LedgerStep /\ UNCHANGED <<now, gateVars, poolVars, managerVars, disputeVars, finalizedAt>>
  BY <1>3 DEF LedgerStep, ledgerSetPausedNewActions
<1>4. CASE FrontierStep
  BY <1>1, <1>4 DEF FrontierStep, Voidable, finalize, advanceFrontier, recordCredit, voidFinalize,
     voidCredit
<1>5. QED
  BY <1>1, <1>2, <1>3, <1>4 DEF BoardNext, boardVars, settlementVars

(* A closed board has nothing open. *)
NothingOpen == closed => InStatus(OpenStatuses) = {}

(* close() asks the counters for nothing open, and nothing opens after it. *)
LEMMA NothingOpenStep ==
    BoardInv /\ DisputeInv /\ CountersAgree /\ NothingOpen /\ [BoardNext]_boardVars => NothingOpen'
<1> SUFFICES ASSUME BoardInv, DisputeInv, CountersAgree, NothingOpen, [BoardNext]_boardVars, closed'
             PROVE  InStatus(OpenStatuses)' = {}
  BY DEF NothingOpen
<1>1. CASE closed
  BY <1>1, NothingReopens DEF NothingOpen
<1>2. CASE closeBoard /\ UNCHANGED managerVars
  <2>1. Cardinality(InStatus(OpenStatuses)) = 0
    BY <1>2 DEF closeBoard, close, CountersAgree
  <2>2. IsFiniteSet(InStatus(OpenStatuses))
    BY IdsFinite, FS_Subset DEF InStatus
  <2>3. InStatus(OpenStatuses) = {}
    BY <2>1, <2>2, FS_EmptySet
  <2>4. InStatus(OpenStatuses)' = InStatus(OpenStatuses)
    BY <1>2 DEF InStatus, managerVars, statusVars
  <2>5. QED
    BY <2>3, <2>4
<1>3. QED
  BY <1>1, <1>2, ClosesOnce

(* Every credit of a closed board stood for the whole recovery window. *)
WindowsOver ==
    closed => \A i \in Ids : status[i] = "Finalized" /\ hasCredit(i) => windowEnd(i) <= closedAt

(* The close waits for the live deadline, which covers every credited
   finalize of the chain. *)
LEMMA WindowsOverStep ==
    ASSUME BoardInv, CreditLinks, FinalizeClock, Chain, NothingOpen, WindowsOver,
           [BoardNext]_boardVars
    PROVE  WindowsOver'
<1> SUFFICES ASSUME closed', NEW i \in Ids, status'[i] = "Finalized", hasCredit(i)'
             PROVE  windowEnd(i)' <= closedAt'
  BY DEF WindowsOver
<1>0. status \in [Ids -> Statuses]
  BY DEF BoardInv, LinkInv, CommitShape
<1>1. CASE closeBoard /\ UNCHANGED <<now, managerVars, finalizedAt>>
  <2>1. /\ status[i] = "Finalized" /\ finalizeInfo[i].creditAtoms > 0
        /\ windowEnd(i)' = windowEnd(i)
        /\ closedAt' = now /\ creditRecoveryEndsAt <= now
    BY <1>1 DEF managerVars, statusVars, frontierVars, hasCredit, windowEnd, closeBoard, close,
       BoardInv, LinkInv, FrontierShape, SettlementInv, SettlementTypeOK, LedgerTypeOK
  <2>2. hasCredit(i) /\ i \in Advanced
    BY <2>1 DEF hasCredit, Advanced, CreditLinks
  <2>3. windowEnd(i) <= creditRecoveryEndsAt
    BY <2>2 DEF Chain
  <2>4. PICK w : w = windowEnd(i)
    OBVIOUS
  <2>5. windowEnd(i) \in Int /\ now \in Int /\ creditRecoveryEndsAt \in Int
    BY ManagerAssumption DEF windowEnd, FinalizeClock, BoardInv, LinkInv, FrontierShape, SettlementInv,
       SettlementTypeOK, LedgerTypeOK
  <2>6. w <= now
    BY <2>1, <2>3, <2>4, <2>5
  <2>7. QED
    BY <2>1, <2>4, <2>6, Zenon
<1>2. CASE closed /\ closedAt' = closedAt
  <2>1. /\ status[i] = "Finalized" /\ finalizeInfo'[i] = finalizeInfo[i]
        /\ finalizedAt'[i] = finalizedAt[i]
    <3>1. CASE FrontierRests
      BY <3>1 DEF FrontierRests, frontierVars
    <3>2. CASE \E j \in Ids : FinalizesFrontier(j)
      BY <1>2, <3>2 DEF FinalizesFrontier, NothingOpen, InStatus, OpenStatuses
    <3>3. CASE \E j \in Voidable : voidFinalize(j) /\ UNCHANGED <<now, finalizedAt>>
      BY <1>0, <3>3 DEF Voidable, voidFinalize
    <3>4. QED
      BY <3>1, <3>2, <3>3, FrontierMoves DEF FinalizeClock
  <2>2. hasCredit(i) /\ windowEnd(i)' = windowEnd(i)
    BY <2>1 DEF hasCredit, windowEnd
  <2>3. windowEnd(i) <= closedAt
    BY <1>2, <2>1, <2>2 DEF WindowsOver
  <2>4. QED
    BY <1>2, <2>2, <2>3, Zenon
<1>3. QED
  BY <1>1, <1>2, ClosesOnce

-----------------------------------------------------------------------------
(* The credit part of the inductive invariant. *)
CreditInv == CreditLinks /\ CreditSums

(* A new board has no credit and nothing open. *)
LEMMA CreditInvInit == BoardInit => CreditInv /\ FinalizeClock /\ NothingOpen
<1> SUFFICES ASSUME BoardInit PROVE CreditInv /\ FinalizeClock /\ NothingOpen
  OBVIOUS
<1>1. /\ \A i \in Ids : status[i] = "None" /\ finalizeInfo[i].creditAtoms = 0
      /\ totalCreditAtoms = 0 /\ \A s \in Actors : creditAtomsOf[s] = 0
      /\ closed = FALSE
  BY DEF BoardInit, SettlementInit, LedgerInit, ManagerInit, NoFinalize
<1>2. SumFunctionOnSet(Standing, Ids) = 0
  <2>1. \A i \in Ids : Standing[i] = 0
    BY <1>1 DEF Standing
  <2>2. QED
    BY <2>1, IdsFinite, SumZero
<1>3. ASSUME NEW s \in Actors PROVE SumFunctionOnSet(StandingOf(s), Ids) = 0
  <2>1. \A i \in Ids : StandingOf(s)[i] = 0
    BY <1>1 DEF StandingOf
  <2>2. QED
    BY <2>1, IdsFinite, SumZero
<1>4. CreditInv
  BY <1>1, <1>2, <1>3 DEF CreditInv, CreditLinks, CreditSums, hasCredit
<1>5. FinalizeClock /\ NothingOpen
  BY <1>1 DEF FinalizeClock, NothingOpen, BoardInit, SettlementInit
<1>6. QED
  BY <1>4, <1>5

(* Every step keeps it. *)
LEMMA CreditInvStep ==
    ASSUME BoardInv, FinalizeClock, CreditInv, [BoardNext]_boardVars
    PROVE  CreditInv'
<1>1. CASE FrontierRests
  BY <1>1, CreditRests DEF CreditInv
<1>2. ASSUME NEW i \in Ids, FinalizesFrontier(i) PROVE CreditInv'
  BY <1>2, CreditFinalizes DEF CreditInv
<1>3. ASSUME NEW i \in Ids, voidFinalize(i) PROVE CreditInv'
  BY <1>3, CreditVoids DEF CreditInv
<1>4. QED
  BY <1>1, <1>2, <1>3, FrontierMoves DEF FinalizeClock, Voidable

(* The ledger's credits are the property's sums over the finalized ids. *)
LEMMA CreditsSummedBySet ==
    ASSUME BoardInv, CreditInv PROVE CreditsMatchFinalizes
<1> DEFINE credit == [i \in Ids |-> finalizeInfo[i].creditAtoms]
           part(s) == {i \in Ids : status[i] = "Finalized" /\ solverOf[i] = s}
<1>1. \A i \in Ids : credit[i] = finalizeInfo[i].creditAtoms /\ credit[i] \in Int
  BY DEF BoardInv, LinkInv, FrontierShape
<1>2. totalCreditAtoms = SumFunctionOnSet(credit, InStatus({"Finalized"}))
  <2>1. /\ InStatus({"Finalized"}) \in SUBSET Ids
        /\ \A i \in InStatus({"Finalized"}) : credit[i] \in Int /\ Standing[i] = credit[i]
        /\ \A i \in Ids \ InStatus({"Finalized"}) : Standing[i] = 0
    BY <1>1 DEF InStatus, Standing
  <2> HIDE DEF credit
  <2>2. SumFunctionOnSet(credit, InStatus({"Finalized"})) = SumFunctionOnSet(Standing, Ids)
    BY <2>1, IdsFinite, SumOfPart
  <2>3. QED
    BY <2>2 DEF CreditInv, CreditSums
<1>3. ASSUME NEW s \in Actors
      PROVE  creditAtomsOf[s] = SumFunctionOnSet(credit, part(s))
  <2>1. /\ part(s) \in SUBSET Ids
        /\ \A i \in part(s) : credit[i] \in Int /\ StandingOf(s)[i] = credit[i]
        /\ \A i \in Ids \ part(s) : StandingOf(s)[i] = 0
    BY <1>1 DEF StandingOf
  <2> HIDE DEF credit, part
  <2>2. SumFunctionOnSet(credit, part(s)) = SumFunctionOnSet(StandingOf(s), Ids)
    BY <2>1, IdsFinite, SumOfPart
  <2>3. QED
    BY <2>2 DEF CreditInv, CreditSums
<1>4. \A i \in Ids : credit[i] > 0 => paidAtCommit[i] /\ credit[i] = moved(i)
  <2> SUFFICES ASSUME NEW i \in Ids, finalizeInfo[i].creditAtoms > 0
               PROVE  paidAtCommit[i] /\ finalizeInfo[i].creditAtoms = moved(i)
    OBVIOUS
  <2>1. paidAtCommit[i] /\ finalizeInfo[i].creditAtoms = advanceOf(i)
    BY DEF CreditInv, CreditLinks, hasCredit
  <2>2. advanceOf(i) > 0
    BY <2>1
  <2>3. QED
    BY <2>1, <2>2, AdvanceInt
<1> HIDE DEF credit
<1>5. QED
  BY <1>2, <1>3, <1>4, Zenon DEF CreditsMatchFinalizes, credit

(* What the ledger credits is what finalized, for any solvers and submissions. *)
THEOREM CreditsAlwaysMatch == BoardSpec => []CreditsMatchFinalizes
<1>1. BoardInv /\ FinalizeClock /\ CreditInv /\ [BoardNext]_boardVars => CreditInv' /\ FinalizeClock'
  BY CreditInvStep, ClockStep
<1>2. BoardInv /\ CreditInv => CreditsMatchFinalizes
  BY CreditsSummedBySet
<1>3. QED
  BY <1>1, <1>2, CreditInvInit, BoardInvariant, PTL DEF BoardSpec

(* A closed board has nothing open. *)
THEOREM ClosedHasNothingOpen == BoardSpec => []NothingOpen
  BY NothingOpenStep, CreditInvInit, BoardInvariant, DisputeInvariant, CountersAlwaysAgree, PTL
     DEF BoardSpec

(* The recovery windows of the frontier, inductive whatever the owner voids where the least
   improvement counts. *)
WindowInv == Chain /\ WindowsOver

(* The whole frontier, inductive as long as every void undoes an advance. *)
FrontierInv == WindowInv /\ Telescopes

(* A new board starts at its seed. *)
LEMMA FrontierInvInit == BoardInit => FrontierInv
<1> SUFFICES ASSUME BoardInit PROVE FrontierInv
  OBVIOUS
<1>1. /\ \A i \in Ids : status[i] = "None"
      /\ bestScoreAtoms = seedScoreAtoms /\ closed = FALSE
  BY DEF BoardInit, SettlementInit, LedgerInit, ManagerInit
<1>2. SumFunctionOnSet(Advances, Ids) = 0
  <2>1. \A i \in Ids : Advances[i] = 0
    BY <1>1 DEF Advances
  <2>2. QED
    BY <2>1, IdsFinite, SumZero
<1>3. Advanced = {}
  BY <1>1 DEF Advanced
<1>4. QED
  BY <1>1, <1>2, <1>3, ManagerAssumption DEF FrontierInv, WindowInv, Telescopes, Chain, WindowsOver

(* Every step keeps the windows if the least improvement counts; every step whose void undoes an
   advance keeps them and the sum. *)
LEMMA FrontierInvStep ==
    ASSUME BoardInv, FinalizeClock, CreditInv, NothingOpen, WindowInv, [BoardNext]_boardVars
    PROVE  /\ minImprovementAtoms <= 1 => WindowInv'
           /\ (\A i \in Ids : voidFinalize(i) => advanceOf(i) > 0) =>
                 WindowInv' /\ (Telescopes => Telescopes')
<1>1. Chain /\ WindowsOver' /\ CreditLinks
  BY WindowsOverStep DEF WindowInv, CreditInv
<1>2. CASE FrontierRests
  BY <1>1, <1>2, ChainRests DEF WindowInv
<1>3. ASSUME NEW i \in Ids, FinalizesFrontier(i) PROVE WindowInv' /\ (Telescopes => Telescopes')
  BY <1>1, <1>3, ChainFinalizes DEF WindowInv
<1>4. ASSUME NEW i \in Ids, voidFinalize(i), UNCHANGED finalizedAt
      PROVE  /\ minImprovementAtoms <= 1 => WindowInv'
             /\ advanceOf(i) > 0 => WindowInv' /\ (Telescopes => Telescopes')
  <2>1. CASE advanceOf(i) > 0
    BY <1>1, <1>4, <2>1, ChainVoids DEF WindowInv
  <2>2. CASE ~(advanceOf(i) > 0)
    BY <1>1, <1>4, <2>2, ChainOutlivesVoids DEF WindowInv
  <2>3. QED
    BY <2>1, <2>2
<1>5. FrontierRests \/ (\E i \in Ids : FinalizesFrontier(i))
        \/ \E i \in Ids : voidFinalize(i) /\ UNCHANGED finalizedAt
  BY FrontierMoves DEF FinalizeClock, Voidable
<1>6. QED
  BY <1>2, <1>3, <1>4, <1>5

(* The windows make every close safe. *)
LEMMA WindowsCloseSafely ==
    ASSUME NothingOpen, WindowInv
    PROVE  CloseIsSafe
  BY DEF CloseIsSafe, NothingOpen, WindowInv, WindowsOver, InStatus, hasCredit, windowEnd

(* The invariant gives the four parts of the property. *)
LEMMA FrontierInvGives ==
    ASSUME BoardInv, CreditInv, NothingOpen, FrontierInv
    PROVE  FrontierSafe
<1>1. FrontierTelescopes
  <2> DEFINE advance == [i \in Ids |-> advanceOf(i)]
  <2>1. /\ InStatus({"Finalized"}) \in SUBSET Ids
        /\ \A i \in InStatus({"Finalized"}) : advance[i] \in Int /\ Advances[i] = advance[i]
        /\ \A i \in Ids \ InStatus({"Finalized"}) : Advances[i] = 0
    BY AdvanceInt DEF InStatus
  <2> HIDE DEF advance
  <2>2. SumFunctionOnSet(advance, InStatus({"Finalized"})) = SumFunctionOnSet(Advances, Ids)
    BY <2>1, IdsFinite, SumOfPart
  <2>3. QED
    BY <2>2 DEF FrontierTelescopes, FrontierInv, Telescopes, advance
<1>2. CloseIsSafe
  BY WindowsCloseSafely DEF FrontierInv
<1>3. QED
  BY <1>1, <1>2, CreditsSummedBySet DEF FrontierSafe

(* Whatever the owner voids, a finalize that advanced nothing included (voidFinalize,
   P42SubmissionManager.sol:1056), a board on which the least improvement counts never closes with
   anything open or with a credit that has not stood for its whole recovery window. *)
THEOREM CloseAlwaysSafe == minImprovementAtoms <= 1 => (BoardSpec => []CloseIsSafe)
<1> SUFFICES ASSUME minImprovementAtoms <= 1 PROVE BoardSpec => []CloseIsSafe
  OBVIOUS
<1>1. BoardInv /\ FinalizeClock /\ CreditInv /\ [BoardNext]_boardVars => CreditInv' /\ FinalizeClock'
  BY CreditInvStep, ClockStep
<1>2. /\ BoardInv /\ FinalizeClock /\ CreditInv /\ NothingOpen /\ WindowInv
      /\ [BoardNext]_boardVars
      => WindowInv'
  BY FrontierInvStep
<1>3. NothingOpen /\ WindowInv => CloseIsSafe
  BY WindowsCloseSafely
<1>4. BoardInit => WindowInv
  BY FrontierInvInit DEF FrontierInv
<1>5. QED
  BY <1>1, <1>2, <1>3, <1>4, CreditInvInit, BoardInvariant, ClosedHasNothingOpen, PTL DEF BoardSpec

(* On a behaviour that keeps what the comment at P42SubmissionManager.sol:1030 promises of a void,
   the frontier, its credits and the recovery windows are safe for every number of submissions,
   solvers and scores: that promise, which the contract does not enforce, is all they need. *)
THEOREM FrontierRestsOnVoids == BoardSpec /\ VoidUndoesAdvance => []FrontierSafe
<1>1. BoardInv /\ FinalizeClock /\ CreditInv /\ [BoardNext]_boardVars => CreditInv' /\ FinalizeClock'
  BY CreditInvStep, ClockStep
<1>2. /\ BoardInv /\ FinalizeClock /\ CreditInv /\ NothingOpen /\ FrontierInv
      /\ [BoardNext]_boardVars
      /\ [\A i \in Ids : status[i] = "Finalized" /\ status'[i] = "Voided" => advanceOf(i) > 0]_boardVars
      => FrontierInv'
  <2> SUFFICES ASSUME BoardInv, FinalizeClock, CreditInv, NothingOpen, FrontierInv,
                      [BoardNext]_boardVars,
                      [\A i \in Ids : status[i] = "Finalized" /\ status'[i] = "Voided"
                                        => advanceOf(i) > 0]_boardVars
               PROVE  FrontierInv'
    OBVIOUS
  <2>1. ASSUME NEW i \in Ids, voidFinalize(i) PROVE advanceOf(i) > 0
    <3>1. status[i] = "Finalized" /\ status'[i] = "Voided"
      BY <2>1 DEF voidFinalize, BoardInv, LinkInv, CommitShape
    <3>2. status' # status
      BY <3>1
    <3>3. QED
      BY <3>1, <3>2 DEF boardVars, managerVars, statusVars
  <2>2. QED
    BY <2>1, FrontierInvStep DEF FrontierInv
<1>3. BoardInv /\ CreditInv /\ NothingOpen /\ FrontierInv => FrontierSafe
  BY FrontierInvGives
<1>4. QED
  BY <1>1, <1>2, <1>3, CreditInvInit, FrontierInvInit, BoardInvariant, ClosedHasNothingOpen, PTL
     DEF BoardSpec, VoidUndoesAdvance
=============================================================================
