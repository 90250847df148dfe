---------------------------- MODULE IndexerReplay ----------------------------
(***************************************************************************)
(* The event replay of the indexer (agent/indexer.mjs: replay*Event,       *)
(* validatePairedEvents, replayProtocolEvents), run beside the contracts   *)
(* it reconstructs.  Board gives the contracts; every transaction emits    *)
(* its events, and the replay applies them in order.  The indexer replays  *)
(* finalized blocks; here it sees every transaction at once.               *)
(*                                                                         *)
(* The replay never reads a contract: its state is rebuilt from event      *)
(* arguments, block timestamps and the manifest's constants, with an       *)
(* `invariant' at almost every step.  A failed invariant throws, which no  *)
(* later event repairs: `ok' is then FALSE for good.                       *)
(***************************************************************************)
EXTENDS Board, SequencesExt

VARIABLES
    replay,             \* the replay state, a record
    duplicateRejected   \* history: a submission lost its CID to an earlier commit

indexerVars == <<boardVars, replay, duplicateRejected>>

NoChallenge == [challenger |-> NoOne, bond |-> 0, endsAt |-> 0,
                resolved |-> FALSE, pending |-> FALSE, wins |-> FALSE]
NoBond == [amountWei |-> 0, releaseAt |-> 0]
NoTransaction == [hook |-> <<>>, expired |-> FALSE, creditVoided |-> <<>>, finalizeVoided |-> <<>>,
                  consumed |-> <<>>, settled |-> <<>>, donated |-> <<>>, objective |-> <<>>,
                  verified |-> NoDigest]

newReplayState ==
    [ok |-> TRUE,
     \* submissions
     status |-> [i \in Ids |-> "None"],
     solver |-> [i \in Ids |-> NoOne],
     bond |-> [i \in Ids |-> 0],
     paid |-> [i \in Ids |-> FALSE],
     score |-> [i \in Ids |-> 0],
     endsAt |-> [i \in Ids |-> 0],
     maxEndsAt |-> [i \in Ids |-> 0],
     cleared |-> [i \in Ids |-> FALSE],
     info |-> [i \in Ids |-> NoFinalize],
     prior |-> [i \in Ids |-> <<>>],
     count |-> 0, open |-> 0, best |-> seedScoreAtoms, recoveryEndsAt |-> 0,
     claimable |-> [a \in Accounts |-> 0],
     pausedNew |-> FALSE, pausedAll |-> FALSE, graceUntil |-> 0,
     \* the funding gate
     armed |-> FALSE, armedDigest |-> NoDigest, authorized |-> NoDigest, expiresAt |-> 0, nonce |-> 0,
     \* challenges
     challenges |-> [i \in Ids |-> NoChallenge],
     resolverBonds |-> [i \in Ids |-> NoBond],
     counterClaimable |-> [a \in Accounts |-> 0],
     challengePaused |-> FALSE,
     \* the ledger
     credit |-> [a \in Actors |-> 0], totalCredit |-> 0, claimed |-> [a \in Actors |-> 0],
     closed |-> FALSE, closedAt |-> 0, closedPool |-> 0, claimDeadline |-> 0,
     ledgerGross |-> 0, ledgerFee |-> 0, swept |-> FALSE, ledgerPaused |-> FALSE,
     \* the pool and the registry
     accepting |-> FALSE, accounted |-> 0, funded |-> 0, netClaimed |-> 0, donatedWei |-> 0,
     gross |-> 0,
     everFunded |-> FALSE, firstFundedAt |-> 0, feeAccrued |-> 0, feePaid |-> 0, feeBalance |-> 0, refunded |-> 0,
     rollover |-> 0, forced |-> 0, sponsorship |-> [a \in Actors |-> 0], frozen |-> FALSE,
     \* what the pairing checks remember of the transaction
     tx |-> NoTransaction]

\* invariant(condition) followed by the handler's assignments.
applying(r, condition, next) == IF r.ok /\ condition THEN next ELSE [r EXCEPT !.ok = FALSE]
-----------------------------------------------------------------------------
\* replayPoolEvent.
Funded(r, e) ==
    applying(r, /\ e.fundingCap = fundingCap /\ e.closeBy = closeByTimestamp
                /\ e.earliestClose = earliestCloseTimestamp,
             [r EXCEPT !.firstFundedAt = IF r.everFunded THEN @ ELSE e.at,
                       !.everFunded = TRUE, !.funded = @ + e.amount, !.accounted = e.newBalance])

SponsorshipFunded(r, e) ==
    applying(r, e.newBalance = r.accounted, [r EXCEPT !.sponsorship[e.sponsor] = e.principal])

Claimed(r, e) ==
    applying(r, r.accounted >= e.amount,
             [r EXCEPT !.netClaimed = @ + e.amount, !.accounted = @ - e.amount])

WinningsDonated(r, e) ==
    applying(r, r.accounted >= e.amount,
             [r EXCEPT !.accounted = @ - e.amount, !.netClaimed = @ + e.amount,
                       !.donatedWei = @ + e.amount,
                       !.tx.donated = <<e.solver, e.amount + e.fee, e.fee>>])

SolverClaimSettled(r, e) ==
    [r EXCEPT !.gross = @ + e.gross, !.tx.settled = <<e.solver, e.gross, e.fee>>]

SponsorRefunded(r, e) ==
    applying(r, r.accounted >= e.principal,
             [r EXCEPT !.accounted = @ - e.principal, !.refunded = @ + e.principal,
                       !.sponsorship[e.sponsor] = 0])

FeeAccrued(r, e) ==
    [r EXCEPT !.feeAccrued = @ + e.amount, !.feeBalance = e.balance]

FeePaid(r, e) ==
    applying(r, r.accounted >= e.amount,
             [r EXCEPT !.feePaid = @ + e.amount, !.accounted = @ - e.amount])

FeeClaimed(r, e) ==
    applying(r, r.feeBalance >= e.amount, [r EXCEPT !.feeBalance = @ - e.amount])

RolloverPaid(r, e) ==
    applying(r, r.accounted >= e.amount,
             [r EXCEPT !.rollover = @ + e.amount, !.accounted = @ - e.amount])

ForcedEthRecovered(r, e) == [r EXCEPT !.forced = @ + e.amount]
-----------------------------------------------------------------------------
\* replayLedgerEvent.
CreditRecorded(r, e) ==
    applying(r, r.totalCredit + e.atoms = e.total,
             [r EXCEPT !.credit[e.solver] = @ + e.atoms, !.totalCredit = e.total])

CreditVoided(r, e) ==
    applying(r, /\ r.credit[e.solver] >= e.atoms
                /\ r.totalCredit - e.atoms = e.total
                /\ r.tx.creditVoided = <<>>,
             [r EXCEPT !.credit[e.solver] = @ - e.atoms, !.totalCredit = e.total,
                       !.tx.creditVoided = <<e.solver, e.atoms>>])

Closed(r, e) ==
    applying(r, ~r.closed,
             [r EXCEPT !.closed = TRUE, !.closedPool = e.poolBalance,
                       !.closedAt = e.closedAt, !.claimDeadline = e.claimDeadline])

ClaimConsumed(r, e) ==
    [r EXCEPT !.claimed[e.solver] = @ + e.gross, !.ledgerGross = @ + e.gross,
              !.ledgerFee = @ + e.fee, !.tx.consumed = <<e.solver, e.gross, e.fee>>]

RolloverSwept(r, e) == applying(r, ~r.swept, [r EXCEPT !.swept = TRUE])
-----------------------------------------------------------------------------
\* replaySubmissionEvent: the pauses and the funding gate.
AllActionsPaused(r, e) ==
    IF e.paused THEN [r EXCEPT !.pausedAll = TRUE]
    ELSE [r EXCEPT !.pausedAll = FALSE, !.graceUntil = e.at + challengeWindowSeconds]

FundingAuthorizationVerified(r, e) ==
    applying(r, ~r.armed /\ r.tx.verified = NoDigest /\ e.nonce = r.nonce,
             [r EXCEPT !.nonce = @ + 1, !.tx.verified = e.digest])

FundingAuthorized(r, e) ==
    applying(r, ~r.armed /\ r.tx.verified = e.digest /\ e.expiresAt >= e.at,
             [r EXCEPT !.authorized = e.digest, !.expiresAt = e.expiresAt,
                       !.tx.verified = NoDigest])

FundingAuthorizationCancelled(r, e) ==
    applying(r, /\ ~r.armed
                /\ e.digest = r.authorized /\ e.expiresAt = r.expiresAt /\ e.at <= r.expiresAt,
             [r EXCEPT !.authorized = NoDigest, !.expiresAt = 0, !.nonce = @ + 1])

FundingArmed(r, e) ==
    applying(r, ~r.armed /\ r.authorized # NoDigest /\ e.digest = r.authorized /\ e.at <= r.expiresAt,
             [r EXCEPT !.armed = TRUE, !.armedDigest = e.digest])
-----------------------------------------------------------------------------
\* replaySubmissionEvent: the lifecycle of a submission.
Committed(r, e) ==
    applying(r, e.id = r.count + 1,
             [r EXCEPT !.count = e.id, !.open = @ + 1, !.status[e.id] = "Committed",
                       !.solver[e.id] = e.solver, !.bond[e.id] = e.bondWei, !.paid[e.id] = e.paid])

BondToppedUp(r, e) ==
    applying(r, /\ r.status[e.id] \in OpenStatuses
                /\ r.bond[e.id] + e.amount = e.newBond,
             [r EXCEPT !.bond[e.id] = e.newBond])

\* The horizon is not in the event; the replay adds two windows to the first deadline.
horizon(endsAt) == endsAt + challengeWindowSeconds * 2

Revealed(r, e) ==
    applying(r, r.status[e.id] = "Committed",
             [r EXCEPT !.status[e.id] = "Revealed", !.score[e.id] = e.score,
                       !.endsAt[e.id] = e.endsAt, !.maxEndsAt[e.id] = horizon(e.endsAt)])

SubmissionChallenged(r, e) ==
    applying(r, r.status[e.id] = "Revealed", [r EXCEPT !.status[e.id] = "Challenged"])

rearmedUncapped(r, e) == e.at + challengeWindowSeconds

\* _boundedRearmDeadline, recomputed from the block's timestamp.
rearmed(r, e) ==
    IF e.at + challengeWindowSeconds < r.maxEndsAt[e.id]
    THEN e.at + challengeWindowSeconds ELSE r.maxEndsAt[e.id]

SubmissionChallengeResolved(r, e) ==
    LET hooked == [r EXCEPT !.tx.hook = <<e.id, e.wins>>]
    IN  applying(r, r.status[e.id] = "Challenged" /\ (e.wins => r.open > 0),
             IF e.wins THEN [hooked EXCEPT !.status[e.id] = "Rejected", !.open = @ - 1]
             ELSE [hooked EXCEPT !.status[e.id] = "Revealed", !.endsAt[e.id] = rearmed(r, e)])

SubmissionChallengeCancelled(r, e) ==
    applying(r, r.status[e.id] = "Challenged" /\ e.endsAt <= r.maxEndsAt[e.id],
             [r EXCEPT !.status[e.id] = "Revealed", !.endsAt[e.id] = e.endsAt,
                       !.tx.hook = <<e.id, "cancelled">>])

SubmissionBondClaimable(r, e) ==
    applying(r, r.bond[e.id] = e.amount,
             [r EXCEPT !.bond[e.id] = 0, !.claimable[e.claimant] = @ + e.amount])

\* The marginal reduction, recomputed against the replayed frontier.
marginal(r, id) ==
    LET reduction == r.best - r.score[id]
    IN  IF reduction > 0 /\ reduction >= minImprovementAtoms THEN reduction ELSE 0

Finalized(r, e) ==
    applying(r, /\ r.status[e.id] = "Revealed"
                /\ e.score = r.score[e.id]
                /\ e.best = (IF marginal(r, e.id) > 0 THEN e.score ELSE r.best)
                /\ e.credit = (IF r.paid[e.id] THEN marginal(r, e.id) ELSE 0)
                /\ r.open > 0,
             [r EXCEPT !.status[e.id] = "Finalized", !.best = e.best, !.open = @ - 1,
                       !.info[e.id] = [prevBestScoreAtoms |-> r.best, creditAtoms |-> e.credit,
                                       prevCreditRecoveryEndsAt |->
                                          IF r.prior[e.id] = <<>> THEN r.recoveryEndsAt
                                          ELSE Head(r.prior[e.id])]])

CreditRecoveryWindowAdvanced(r, e) ==
    applying(r, e.previous = r.recoveryEndsAt,
             [r EXCEPT !.prior[e.id] = <<e.previous>>, !.recoveryEndsAt = e.next])

CreditRecoveryWindowRestored(r, e) ==
    applying(r, e.previous = r.recoveryEndsAt, [r EXCEPT !.recoveryEndsAt = e.next])

FinalizeVoided(r, e) ==
    applying(r, /\ r.status[e.id] = "Finalized"
                /\ r.best = r.score[e.id]
                /\ e.credit = r.info[e.id].creditAtoms
                /\ e.restored = r.info[e.id].prevBestScoreAtoms
                /\ r.tx.finalizeVoided = <<>>,
             [r EXCEPT !.status[e.id] = "Voided", !.best = e.restored,
                       !.tx.finalizeVoided = <<r.solver[e.id], e.credit>>])

SubmissionExpired(r, e) ==
    applying(r, r.status[e.id] = e.previous /\ r.open > 0,
             [r EXCEPT !.status[e.id] = "Rejected", !.open = @ - 1])

BondClaimed(r, e) ==
    applying(r, r.claimable[e.claimant] >= e.amount, [r EXCEPT !.claimable[e.claimant] = @ - e.amount])
-----------------------------------------------------------------------------
\* replayChallengeEvent.
Challenged(r, e) ==
    applying(r, r.challenges[e.id] = NoChallenge,
             [r EXCEPT !.challenges[e.id] =
                [NoChallenge EXCEPT !.challenger = e.challenger, !.bond = e.bondWei, !.endsAt = e.endsAt]])

ResolverTranscriptPosted(r, e) ==
    LET c == r.challenges[e.id]
    IN  applying(r, c # NoChallenge /\ ~c.resolved /\ ~c.pending,
             [r EXCEPT !.challenges[e.id].pending = TRUE, !.challenges[e.id].wins = e.wins,
                       !.resolverBonds[e.id] = [amountWei |-> e.bondWei, releaseAt |-> e.releaseAt]])

ChallengeExpired(r, e) ==
    LET c == r.challenges[e.id]
    IN  applying(r, c # NoChallenge /\ ~c.resolved /\ e.refund = c.bond,
             [r EXCEPT !.counterClaimable[c.challenger] = @ + e.refund,
                       !.challenges[e.id] = NoChallenge, !.tx.expired = TRUE])

settledChallengeKept(r, e) ==
    LET c == r.challenges[e.id]
        share == IF e.wins THEN c.challenger ELSE Treasury
    IN  [r EXCEPT !.counterClaimable[share] = @ + c.bond,
                  !.challenges[e.id] = [c EXCEPT !.pending = FALSE, !.resolved = TRUE, !.wins = e.wins]]

\* The counter-bond of a settled dispute; a challenger win keeps the record.
settledChallenge(r, e) ==
    LET c == r.challenges[e.id]
        share == IF e.wins THEN c.challenger ELSE Treasury
    IN  [r EXCEPT !.counterClaimable[share] = @ + c.bond,
                  !.challenges[e.id] = IF e.wins THEN [c EXCEPT !.pending = FALSE, !.resolved = TRUE,
                                                                !.wins = TRUE]
                                       ELSE NoChallenge]

Resolved(r, e) ==
    IF r.tx.expired
    THEN applying(r, r.tx.hook = <<e.id, e.wins>> /\ ~e.wins /\ r.challenges[e.id] = NoChallenge, r)
    ELSE applying(r, r.tx.hook = <<e.id, e.wins>> /\ r.challenges[e.id].pending, settledChallenge(r, e))

ResolverBondReleased(r, e) ==
    applying(r, r.resolverBonds[e.id].amountWei = e.amount,
             [r EXCEPT !.resolverBonds[e.id].amountWei = 0, !.counterClaimable[e.account] = @ + e.amount])

ResolverDecisionCancelled(r, e) ==
    LET c == r.challenges[e.id]
    IN  applying(r, c.pending /\ r.tx.hook = <<e.id, "cancelled">> /\ c.challenger = e.challenger,
             [r EXCEPT !.counterClaimable[c.challenger] = @ + c.bond,
                       !.challenges[e.id] = NoChallenge])

ResolverBondSlashed(r, e) ==
    applying(r, r.resolverBonds[e.id].amountWei = e.amount,
             [r EXCEPT !.resolverBonds[e.id].amountWei = 0, !.counterClaimable[e.account] = @ + e.amount])

\* An objective solver win overrides the re-armed deadline of the submission hook.
ObjectiveFraudProven(r, e) ==
    LET c == r.challenges[e.id]
        proven == [r EXCEPT !.tx.objective = <<"manager", e.id, e.wins>>]
    IN  applying(r, /\ c.pending /\ c.wins # e.wins
                    /\ r.tx.hook = <<e.id, e.wins>>
                    /\ r.resolverBonds[e.id].amountWei = 0
                    /\ e.wins \/ r.status[e.id] = "Revealed",
             IF e.wins THEN proven
             ELSE [proven EXCEPT !.endsAt[e.id] = e.at, !.cleared[e.id] = TRUE])

\* replayResolverQuorumEvent: the quorum's public journal of the same proof.
quorumJournal(r, e) ==
    applying(r, r.tx.objective = <<"manager", e.id, e.wins>>,
             [r EXCEPT !.tx.objective = <<"journal", e.id, e.wins>>])

CounterBondClaimed(r, e) ==
    applying(r, r.counterClaimable[e.claimant] >= e.amount,
             [r EXCEPT !.counterClaimable[e.claimant] = @ - e.amount])
-----------------------------------------------------------------------------
\* The dispatch of replayProtocolEvents.  The names of two contracts' events that
\* coincide carry a prefix; an event outside EVENT_CATALOG is not queried at all.
replayPoolEvent(r, e) ==
    CASE e.name = "AcceptingFundsSet" -> [r EXCEPT !.accepting = e.accepting]
      [] e.name = "Funded" -> Funded(r, e)
      [] e.name = "SponsorshipFunded" -> SponsorshipFunded(r, e)
      [] e.name = "Claimed" -> Claimed(r, e)
      [] e.name = "WinningsDonated" -> WinningsDonated(r, e)
      [] e.name = "SolverClaimSettled" -> SolverClaimSettled(r, e)
      [] e.name = "SponsorRefunded" -> SponsorRefunded(r, e)
      [] e.name = "FeeAccrued" -> FeeAccrued(r, e)
      [] e.name = "FeePaid" -> FeePaid(r, e)
      [] e.name = "FeeClaimed" -> FeeClaimed(r, e)
      [] e.name = "RolloverPaid" -> RolloverPaid(r, e)
      [] e.name = "ForcedEthRecovered" -> ForcedEthRecovered(r, e)

replayLedgerEvent(r, e) ==
    CASE e.name = "NewActionsPaused" -> [r EXCEPT !.ledgerPaused = e.paused]
      [] e.name = "CreditRecorded" -> CreditRecorded(r, e)
      [] e.name = "CreditVoided" -> CreditVoided(r, e)
      [] e.name = "Closed" -> Closed(r, e)
      [] e.name = "ClaimConsumed" -> ClaimConsumed(r, e)
      [] e.name = "RolloverSwept" -> RolloverSwept(r, e)

replaySubmissionEvent(r, e) ==
    CASE e.name = "NewActionsPaused" -> [r EXCEPT !.pausedNew = e.paused]
      [] e.name = "AllActionsPaused" -> AllActionsPaused(r, e)
      [] e.name = "FundingAuthorizationVerified" -> FundingAuthorizationVerified(r, e)
      [] e.name = "FundingAuthorized" -> FundingAuthorized(r, e)
      [] e.name = "FundingAuthorizationCancelled" -> FundingAuthorizationCancelled(r, e)
      [] e.name = "FundingArmed" -> FundingArmed(r, e)
      [] e.name = "Committed" -> Committed(r, e)
      [] e.name = "BondToppedUp" -> BondToppedUp(r, e)
      [] e.name = "Revealed" -> Revealed(r, e)
      [] e.name = "SubmissionChallenged" -> SubmissionChallenged(r, e)
      [] e.name = "SubmissionChallengeResolved" -> SubmissionChallengeResolved(r, e)
      [] e.name = "SubmissionChallengeCancelled" -> SubmissionChallengeCancelled(r, e)
      [] e.name = "SubmissionBondClaimable" -> SubmissionBondClaimable(r, e)
      [] e.name = "Finalized" -> Finalized(r, e)
      [] e.name = "CreditRecoveryWindowAdvanced" -> CreditRecoveryWindowAdvanced(r, e)
      [] e.name = "CreditRecoveryWindowRestored" -> CreditRecoveryWindowRestored(r, e)
      [] e.name = "FinalizeVoided" -> FinalizeVoided(r, e)
      [] e.name = "SubmissionExpired" -> SubmissionExpired(r, e)
      [] e.name = "BondClaimed" -> BondClaimed(r, e)

replayChallengeEvent(r, e) ==
    CASE e.name = "NewActionsPaused" -> [r EXCEPT !.challengePaused = e.paused]
      [] e.name = "Challenged" -> Challenged(r, e)
      [] e.name = "ResolverTranscriptPosted" -> ResolverTranscriptPosted(r, e)
      [] e.name = "ChallengeExpired" -> ChallengeExpired(r, e)
      [] e.name = "Resolved" -> Resolved(r, e)
      [] e.name = "ResolverBondReleased" -> ResolverBondReleased(r, e)
      [] e.name = "ResolverDecisionCancelled" -> ResolverDecisionCancelled(r, e)
      [] e.name = "ResolverBondSlashed" -> ResolverBondSlashed(r, e)
      [] e.name = "ObjectiveFraudProven" -> ObjectiveFraudProven(r, e)
      [] e.name = "BondClaimed" -> CounterBondClaimed(r, e)

replayEvent(r, e) ==
    CASE e.source = "pool" -> replayPoolEvent(r, e)
      [] e.source = "ledger" -> replayLedgerEvent(r, e)
      [] e.source = "submissions" -> replaySubmissionEvent(r, e)
      [] e.source = "challenges" -> replayChallengeEvent(r, e)
      [] e.source = "resolverQuorum" -> quorumJournal(r, e)
      [] e.source = "registry" -> [r EXCEPT !.frozen = TRUE]

\* Pairings within a transaction: a paid void and its credit, a claim's three
\* reports, an objective proof and its journal, an authorization and its check.
validatePairedEvents(r) ==
    /\ r.tx.creditVoided # <<>> => r.tx.finalizeVoided # <<>>
    /\ r.tx.finalizeVoided # <<>> =>
         IF r.tx.finalizeVoided[2] > 0 THEN r.tx.creditVoided = r.tx.finalizeVoided
                                       ELSE r.tx.creditVoided = <<>>
    /\ r.tx.consumed = r.tx.settled
    /\ r.tx.donated # <<>> => r.tx.donated = r.tx.settled
    /\ r.tx.objective # <<>> => Head(r.tx.objective) = "journal"
    /\ r.tx.verified = NoDigest

\* One transaction's events, then the checks replayProtocolEvents ends with.
replayTransaction(r, events) ==
    LET done == FoldLeft(replayEvent, r, events)
    IN  [done EXCEPT !.ok = @ /\ validatePairedEvents(done), !.tx = NoTransaction]

emit(events) == replay' = replayTransaction(replay, events)
=============================================================================
