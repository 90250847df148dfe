---------------------------- MODULE IndexedBoard ----------------------------
(***************************************************************************)
(* The board under the indexer's eyes: every transaction of Board together *)
(* with the events it emits, in their order, and the replay of those       *)
(* events.  The comparison at the end is the indexer's own                 *)
(* (compareReplayToSnapshot): each replayed value against the storage of   *)
(* the contracts.                                                          *)
(***************************************************************************)
EXTENDS IndexerReplay

pool(name) == [source |-> "pool", name |-> name]
ledger(name) == [source |-> "ledger", name |-> name]
manager(name, i) == [source |-> "submissions", name |-> name, id |-> i, at |-> now]
disputes(name, i) == [source |-> "challenges", name |-> name, id |-> i, at |-> now]
when(condition, event) == IF condition THEN <<event>> ELSE <<>>

\* SubmissionBondClaimable, emitted by _makeBondClaimable unless there is no bond.
bondClaimable(i, claimant) ==
    when(bondWei[i] # 0, manager("SubmissionBondClaimable", i) @@ [amount |-> bondWei[i], claimant |-> claimant])

rejectedNow(i) == status[i] # "Rejected" /\ status'[i] = "Rejected"

IndexedInit ==
    /\ BoardInit
    /\ replay = [newReplayState EXCEPT
                   !.armed = fundingArmed, !.armedDigest = fundingAuthorizationDigest,
                   !.authorized = authorizedFundingDigest, !.expiresAt = fundingAuthorizationExpiresAt,
                   !.nonce = fundingAuthorizationNonce, !.frozen = explicitlyFrozen]
    /\ duplicateRejected = FALSE
-----------------------------------------------------------------------------
\* Pool and ledger.
indexedPool ==
    \/ freeze /\ emit(<<[source |-> "registry", name |-> "ProblemFrozen"]>>)
    \/ \E accepting \in AcceptingChoices :
         /\ setAcceptingFunds(accepting)
         /\ emit(<<pool("AcceptingFundsSet") @@ [accepting |-> accepting]>>)
    \/ \E sponsor \in Actors, value \in FundingAmounts :
         /\ fund(sponsor, value)
         /\ emit(<<pool("Funded") @@
                     [amount |-> value, newBalance |-> accountedBalance', at |-> now,
                      fundingCap |-> fundingCap, closeBy |-> closeByTimestamp,
                      earliestClose |-> effectiveEarliestCloseTimestamp(everFunded', firstFundedAt')],
                   pool("SponsorshipFunded") @@ [sponsor |-> sponsor, principal |-> sponsorshipOf'[sponsor],
                                                 newBalance |-> accountedBalance']>>)
    \/ \E value \in ForcedAmounts : forceEth(value) /\ emit(<<>>)
    \/ \E sponsor \in Actors :
         /\ sponsorRefundTo(sponsor)
         /\ emit(<<pool("SponsorRefunded") @@ [sponsor |-> sponsor, principal |-> sponsorshipOf[sponsor]]>>)
    \/ /\ claimFees
       /\ emit(<<pool("FeePaid") @@ [amount |-> accruedFeeBalance],
                 pool("FeeClaimed") @@ [amount |-> accruedFeeBalance]>>)
    \/ \E amount \in 1..forcedEthAvailable :
         recoverForcedEth(amount) /\ emit(<<pool("ForcedEthRecovered") @@ [amount |-> amount]>>)

settlementEvents(solver, payout) ==
    LET gross == claimable(solver)
        fee == feeOf(claimable(solver))
        claim == [solver |-> solver, gross |-> gross, fee |-> fee, amount |-> gross - fee]
    IN  <<ledger("ClaimConsumed") @@ claim>>
          \o when(fee # 0, pool("FeeAccrued") @@ [amount |-> fee, balance |-> accruedFeeBalance'])
          \o <<pool(payout) @@ claim, pool("SolverClaimSettled") @@ claim>>

indexedClaim ==
    \/ \E solver \in Actors : claimTo(solver) /\ emit(settlementEvents(solver, "Claimed"))
    \/ \E solver \in Actors : donateClaimToPool(solver) /\ emit(settlementEvents(solver, "WinningsDonated"))
    \/ /\ sweepRollover
       /\ emit(when(rolloverBalance # 0, pool("RolloverPaid") @@ [amount |-> rolloverBalance])
                 \o <<ledger("RolloverSwept")>>)

indexedLedger ==
    \/ /\ closeBoard
       /\ emit(<<ledger("Closed") @@ [poolBalance |-> closedPoolBalance', closedAt |-> closedAt',
                                      claimDeadline |-> claimDeadline']>>)
    \/ /\ "ledger" \in OwnerSwitches
       /\ \E paused \in BOOLEAN :
            /\ ledgerSetPausedNewActions(paused)
            /\ emit(<<ledger("NewActionsPaused") @@ [paused |-> paused]>>)
-----------------------------------------------------------------------------
\* The funding gate.
indexedGate ==
    \/ \E message \in Messages : sign(message) /\ emit(<<>>)
    \/ \E digest \in Digests, expiresAt \in AuthorizationExpiries, nonce \in 0..MaxNonce :
         /\ authorizeFunding(digest, expiresAt, nonce)
         /\ emit(<<manager("FundingAuthorizationVerified", 0) @@ [digest |-> digest, nonce |-> nonce],
                   manager("FundingAuthorized", 0) @@ [digest |-> digest, expiresAt |-> expiresAt]>>)
    \/ \E digest \in Digests :
         /\ cancelFundingAuthorization(digest)
         /\ emit(<<manager("FundingAuthorizationCancelled", 0) @@
                     [digest |-> digest, expiresAt |-> fundingAuthorizationExpiresAt]>>)
    \/ \E digest \in Digests :
         armFunding(digest) /\ emit(<<manager("FundingArmed", 0) @@ [digest |-> digest]>>)
-----------------------------------------------------------------------------
\* The submission manager.
indexedSubmission ==
    \/ \E solver \in Actors, cid \in Cids, value \in BondValues :
         /\ commit(solver, cid, value)
         /\ emit(<<manager("Committed", submissionCount') @@
                     [solver |-> solver, bondWei |-> value, paid |-> fundingArmed]>>)
         /\ UNCHANGED duplicateRejected
    \/ \E i \in Ids, value \in BondValues :
         /\ topUpBond(i, value)
         /\ emit(<<manager("BondToppedUp", i) @@ [amount |-> value, newBond |-> bondWei'[i]]>>)
         /\ UNCHANGED duplicateRejected
    \/ \E i \in Ids, score \in Scores :
         /\ reveal(i, score)
         \* the loser's bond, whether it is i or the holder it displaces
         /\ LET loser == {j \in Ids : rejectedNow(j)}
            IN  /\ emit((IF loser = {} THEN <<>>
                         ELSE LET j == CHOOSE x \in loser : TRUE IN bondClaimable(j, solverOf[j]))
                          \o <<manager("Revealed", i) @@ [score |-> score, endsAt |-> challengeEndsAt'[i]]>>)
                /\ duplicateRejected' = (duplicateRejected \/ loser # {})
    \/ \E i \in Ids :
         /\ releaseFinalizedBond(i)
         /\ emit(bondClaimable(i, solverOf[i]))
         /\ UNCHANGED duplicateRejected
    \/ \E i \in Ids :
         /\ expireCommitted(i) \/ expireRevealed(i)
         /\ emit(bondClaimable(i, Treasury)
                   \o <<manager("SubmissionExpired", i) @@ [previous |-> status[i]]>>)
         /\ UNCHANGED duplicateRejected
    \/ \E account \in Claimants :
         /\ claimBond(account)
         /\ emit(<<manager("BondClaimed", 0) @@ [claimant |-> account, amount |-> claimableBondWei[account]]>>)
         /\ UNCHANGED duplicateRejected

indexedPauses ==
    \/ /\ "newActions" \in OwnerSwitches
       /\ \E paused \in BOOLEAN :
            /\ setPausedNewActions(paused)
            /\ emit(<<manager("NewActionsPaused", 0) @@ [paused |-> paused]>>)
    \/ /\ "full" \in OwnerSwitches
       /\ now <= LastOptionalStep
       /\ startPausedAll
       /\ emit(<<manager("AllActionsPaused", 0) @@ [paused |-> TRUE]>>)
    \* AllActionsPauseRecovered follows a recovery; the replay ignores it
    \/ /\ recoverPausedAll \/ ("full" \in OwnerSwitches /\ endPausedAll)
       /\ emit(<<manager("AllActionsPaused", 0) @@ [paused |-> FALSE]>>)

finalizeEvents(i) ==
    IF ~hasPriority(i) THEN bondClaimable(i, solverOf[i])
    ELSE (IF creditOf(i) = 0 THEN bondClaimable(i, solverOf[i])
          ELSE <<ledger("CreditRecorded") @@
                   [solver |-> solverOf[i], atoms |-> creditOf(i), total |-> totalCreditAtoms'],
                 manager("CreditRecoveryWindowAdvanced", i) @@
                   [previous |-> creditRecoveryEndsAt, next |-> creditRecoveryEndsAt']>>)
         \o <<manager("Finalized", i) @@
                [score |-> claimedScoreAtoms[i], credit |-> creditOf(i), best |-> bestScoreAtoms']>>

voidEvents(i) ==
    LET credit == finalizeInfo[i].creditAtoms
    IN  (IF credit = 0 THEN bondClaimable(i, solverOf[i])
         ELSE <<ledger("CreditVoided") @@ [solver |-> solverOf[i], atoms |-> credit, total |-> totalCreditAtoms']>>
                \o bondClaimable(i, Treasury)
                \o <<manager("CreditRecoveryWindowRestored", i) @@
                       [previous |-> creditRecoveryEndsAt, next |-> creditRecoveryEndsAt']>>)
        \o <<manager("FinalizeVoided", i) @@ [credit |-> credit, restored |-> bestScoreAtoms']>>

indexedFrontier ==
    \/ \E i \in Ids :
         /\ now <= LastOptionalStep
         /\ finalize(i)
         /\ finalizedAt' = [finalizedAt EXCEPT ![i] = now]
         /\ emit(finalizeEvents(i))
    \/ \E i \in Voidable : voidFinalize(i) /\ UNCHANGED finalizedAt /\ emit(voidEvents(i))
-----------------------------------------------------------------------------
\* The challenge manager; the hook's own events come first.
hookEvents(i, wins) ==
    (IF wins THEN bondClaimable(i, challenger[i])
     ELSE IF ~hasPriority(i) THEN bondClaimable(i, solverOf[i]) ELSE <<>>)
      \o <<manager("SubmissionChallengeResolved", i) @@ [wins |-> wins]>>

verdict(i, wins) == disputes("Resolved", i) @@ [wins |-> wins]

bondEvent(name, i, account) ==
    disputes(name, i) @@ [amount |-> resolverBondWei[i], account |-> account]

indexedDispute ==
    \/ \E i \in Ids, sender \in Actors, value \in CounterBonds :
         /\ challenge(i, sender, value)
         /\ emit(<<manager("SubmissionChallenged", i),
                   disputes("Challenged", i) @@
                     [challenger |-> sender, bondWei |-> value, endsAt |-> disputeEndsAt'[i]]>>)
    \/ \E i \in Ids, wins \in BOOLEAN, value \in ResolverBonds :
         /\ resolve(i, wins, Resolver, value)
         /\ emit(<<disputes("ResolverTranscriptPosted", i) @@
                     [wins |-> wins, bondWei |-> value, releaseAt |-> resolverBondReleaseAt'[i]]>>)
    \/ \E i \in Ids :
         /\ finalizeResolution(i)
         /\ emit(hookEvents(i, challengerWins[i])
                   \o <<bondEvent("ResolverBondReleased", i, resolverBondBeneficiary[i]),
                        verdict(i, challengerWins[i])>>)
    \/ \E i \in Ids :
         /\ expireChallenge(i)
         /\ emit(hookEvents(i, FALSE)
                   \o <<disputes("ChallengeExpired", i) @@ [refund |-> challengeBondWei[i]],
                        verdict(i, FALSE)>>)
    \/ \E i \in Ids :
         /\ slashResolverBond(i)
         /\ emit((IF hasPriority(i) THEN <<>> ELSE bondClaimable(i, solverOf[i]))
                   \o <<manager("SubmissionChallengeCancelled", i) @@
                          [endsAt |-> IF hasPriority(i) THEN challengeEndsAt'[i] ELSE 0],
                        bondEvent("ResolverBondSlashed", i, Treasury),
                        disputes("ResolverDecisionCancelled", i) @@ [challenger |-> challenger[i]]>>)
    \/ /\ ObjectiveProofsActive
       /\ \E i \in Ids, wins \in BOOLEAN, account \in Actors :
            /\ applyObjectiveResolution(i, wins, account)
            /\ emit(hookEvents(i, wins)
                      \o <<bondEvent("ResolverBondSlashed", i, account),
                           disputes("ObjectiveFraudProven", i) @@ [wins |-> wins],
                           verdict(i, wins),
                           [source |-> "resolverQuorum", name |-> "ObjectiveFraudProven",
                            id |-> i, wins |-> wins]>>)
    \/ \E account \in Claimants :
         /\ claimCounterBond(account)
         /\ emit(<<disputes("BondClaimed", 0) @@
                     [claimant |-> account, amount |-> claimableCounterBondWei[account]]>>)
    \/ /\ "challenges" \in OwnerSwitches
       /\ \E paused \in BOOLEAN :
            /\ challengeSetPausedNewActions(paused)
            /\ emit(<<disputes("NewActionsPaused", 0) @@ [paused |-> paused]>>)

\* History: a dispute ended on a submission whose CID an earlier commit has taken.
lostDispute ==
    duplicateRejected' =
        (duplicateRejected \/ \E i \in Ids : rejectedNow(i) /\ ~hasPriority(i) /\ slot'[i] = "empty")

IndexedNext ==
    \/ Tick /\ UNCHANGED <<ledgerVars, gateVars, poolVars, managerVars, disputeVars, finalizedAt,
                           replay, duplicateRejected>>
    \/ indexedGate /\ UNCHANGED <<now, ledgerVars, poolVars, managerVars, disputeVars, finalizedAt, duplicateRejected>>
    \/ indexedPool /\ UNCHANGED <<now, ledgerVars, gateVars, managerVars, disputeVars, finalizedAt, duplicateRejected>>
    \/ indexedClaim /\ UNCHANGED <<now, gateVars, managerVars, disputeVars, finalizedAt, duplicateRejected>>
    \/ indexedLedger /\ UNCHANGED <<now, gateVars, poolVars, managerVars, disputeVars, finalizedAt, duplicateRejected>>
    \/ indexedSubmission /\ UNCHANGED <<settlementVars, disputeVars, finalizedAt>>
    \/ indexedPauses /\ UNCHANGED <<settlementVars, disputeVars, finalizedAt, duplicateRejected>>
    \/ indexedFrontier /\ UNCHANGED <<now, gateVars, poolVars, disputeVars, duplicateRejected>>
    \/ indexedDispute /\ lostDispute /\ UNCHANGED <<settlementVars, finalizedAt>>

IndexedSpec == IndexedInit /\ [][IndexedNext]_indexerVars
-----------------------------------------------------------------------------
\* compareReplayToSnapshot, contract by contract.
gateMatches ==
    /\ replay.armed = fundingArmed
    /\ replay.armedDigest = fundingAuthorizationDigest
    /\ replay.authorized = authorizedFundingDigest
    /\ replay.expiresAt = fundingAuthorizationExpiresAt
    /\ replay.nonce = fundingAuthorizationNonce

poolMatches ==
    /\ replay.accepting = acceptingFunds
    /\ replay.frozen = explicitlyFrozen
    /\ replay.accounted = accountedBalance
    /\ replay.everFunded = everFunded /\ replay.firstFundedAt = firstFundedAt
    /\ replay.funded = totalFunded
    /\ replay.netClaimed = totalClaimed
    /\ replay.donatedWei = totalWinningsDonated
    /\ replay.gross = totalGrossClaimed
    /\ replay.feeAccrued = totalFeeAccrued
    /\ replay.feePaid = totalFeePaid
    /\ replay.feeBalance = accruedFeeBalance
    /\ replay.refunded = totalSponsorRefunded
    /\ replay.rollover = totalRolloverPaid
    /\ replay.forced = totalForcedEthRecovered
    /\ replay.sponsorship = sponsorshipOf
    /\ accountedBalance <= rawBalance
    /\ totalGrossClaimed = totalClaimed + totalFeeAccrued
    /\ totalFeeAccrued = totalFeePaid + accruedFeeBalance
    /\ totalFunded = accountedBalance + totalClaimed + totalFeePaid + totalSponsorRefunded + totalRolloverPaid

ledgerMatches ==
    /\ replay.ledgerPaused = ledgerPaused
    /\ replay.totalCredit = totalCreditAtoms
    /\ replay.credit = creditAtomsOf
    /\ replay.claimed = claimedWeiOf
    /\ replay.ledgerGross = ledgerGrossClaimed
    /\ replay.ledgerFee = ledgerFeeAccrued
    /\ replay.closed = closed
    /\ replay.closedAt = closedAt
    /\ replay.closedPool = closedPoolBalance
    /\ replay.claimDeadline = claimDeadline
    /\ replay.swept = rolloverSwept
    /\ ledgerGrossClaimed = totalGrossClaimed /\ ledgerFeeAccrued = totalFeeAccrued

managerMatches ==
    /\ replay.count = submissionCount
    /\ replay.open = openSubmissionCount
    /\ replay.best = bestScoreAtoms
    /\ replay.pausedNew = managerPaused
    /\ replay.pausedAll = pausedAll
    /\ replay.graceUntil = expiryGraceUntil
    /\ replay.recoveryEndsAt = creditRecoveryEndsAt
    /\ replay.claimable = claimableBondWei
    /\ replay.info = finalizeInfo

submissionsMatch ==
    /\ replay.status = status
    /\ replay.solver = solverOf
    /\ replay.bond = bondWei
    /\ replay.paid = paidAtCommit
    /\ replay.score = claimedScoreAtoms
    /\ replay.endsAt = challengeEndsAt
    /\ replay.maxEndsAt = maxDisputeEndsAt
    /\ replay.cleared = objectiveCleared

challengesMatch ==
    /\ replay.counterClaimable = claimableCounterBondWei
    /\ replay.challengePaused = challengePaused
    /\ \A i \in Ids :
         /\ replay.challenges[i] =
              IF challenger[i] = NoOne THEN NoChallenge
              ELSE [challenger |-> challenger[i], bond |-> challengeBondWei[i], endsAt |-> disputeEndsAt[i],
                    resolved |-> slot[i] = "resolved", pending |-> slot[i] = "pending",
                    wins |-> challengerWins[i]]
         /\ replay.resolverBonds[i] = [amountWei |-> resolverBondWei[i], releaseAt |-> resolverBondReleaseAt[i]]

compareReplayToSnapshot ==
    replay.ok /\ gateMatches /\ poolMatches /\ ledgerMatches /\ managerMatches /\ submissionsMatch /\ challengesMatch

\* The amounts the portal shows, computed from the replay alone.
portalStateFacts ==
    [finalEntitlementWei |-> [a \in Actors |->
        IF replay.closed /\ replay.totalCredit > 0
        THEN mulDiv(replay.closedPool, replay.credit[a], replay.totalCredit) ELSE 0],
     refundableWei |->
        IF replay.closed /\ replay.totalCredit = 0
        THEN FoldFunction(+, 0, replay.sponsorship) ELSE 0,
     withdrawableBondWei |-> [a \in Accounts |-> replay.claimable[a] + replay.counterClaimable[a]]]

\* What the contracts pay: entitlements as the ledger computes them, the whole pool to the
\* sponsors of a board that closed without credit, and the bonds of both managers.
factsMatch ==
    /\ \A a \in Actors : portalStateFacts.finalEntitlementWei[a] = finalEntitlement(a)
    /\ portalStateFacts.refundableWei = IF sponsorRefundsEnabled THEN funded ELSE 0
    /\ \A a \in Accounts :
         portalStateFacts.withdrawableBondWei[a] = claimableBondWei[a] + claimableCounterBondWei[a]

\* The first funding leaves the promised earliest close where the deployment set it.
fundedInTime == everFunded => firstFundedAt + MIN_COMPETITION_SECONDS <= earliestCloseTimestamp

\* The replay rebuilds the board: on a board on which no submission has lost its
\* CID to an earlier commit and whose first funding came in time, no invariant of the replay throws, whatever the
\* order of disputes, pauses, voids, claims and refunds, and every value it has
\* computed on its own (deadlines, frontier, marginals, bonds, balances) is the
\* contracts' value; what the portal shows of it is what the contracts will pay.
ReplayRebuilds == ~duplicateRejected /\ fundedInTime => compareReplayToSnapshot /\ factsMatch

\* What docs/AUTONOMY.md:52 says of the indexer, on every board.
ReplayAlwaysRebuilds == compareReplayToSnapshot

\* What docs/AUTONOMY.md:52 says of the indexer, on the boards that rejected no duplicate:
\* the day of the first funding does not matter.
FundedReplayRebuilds == ~duplicateRejected => compareReplayToSnapshot
=============================================================================
