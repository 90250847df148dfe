------------------------------- MODULE Board -------------------------------
(***************************************************************************)
(* One live board: the pool, the ledger, the submission manager and the    *)
(* challenge manager as the deployment wires them together, under every    *)
(* interleaving of solvers, challengers, resolver, sponsors, keepers and   *)
(* owner.  A Solidity transaction is one step.                             *)
(***************************************************************************)
EXTENDS ChallengeManager, Settlement

CONSTANTS
    OwnerSwitches,      \* pause switches the owner uses in a run
    Claimants,          \* accounts that pull their bonds out in a run
    LastOptionalStep,   \* bound on the time of a finalize or a full pause, for TLC only
    CarefulGovernance   \* the owner voids only finalizes that moved the frontier

Switches == {"newActions", "ledger", "challenges", "full"}

ASSUME BoardAssumption ==
    /\ OwnerSwitches \subseteq Switches
    /\ Claimants \subseteq Accounts
    /\ LastOptionalStep \in Nat
    /\ CarefulGovernance \in BOOLEAN
    (* Settlement's recorder may report every credit the ledger would accept. *)
    /\ 1..MAX_TOTAL_CREDIT_ATOMS \subseteq CreditAmounts

(* History only: when submission i finalized. *)
VARIABLE finalizedAt

boardVars == <<settlementVars, managerVars, disputeVars, finalizedAt>>

BoardInit ==
    /\ SettlementInit
    /\ ManagerInit
    /\ ChallengeInit
    /\ finalizedAt = [i \in Ids |-> 0]

moved(i) == finalizeInfo[i].prevBestScoreAtoms - claimedScoreAtoms[i]

(* How far the finalize of i moved the frontier: not at all when it improved
   by less than the minimum. *)
advanceOf(i) == IF moved(i) > 0 /\ moved(i) >= minImprovementAtoms THEN moved(i) ELSE 0

(* The finalized submissions the owner may choose to void. *)
Voidable == IF CarefulGovernance THEN {i \in Ids : advanceOf(i) > 0} ELSE Ids

-----------------------------------------------------------------------------
(* Submission manager only. *)
SubmissionStep ==
    \/ \E solver \in Actors, cid \in Cids, value \in BondValues : commit(solver, cid, value)
    \/ \E i \in Ids, value \in BondValues : topUpBond(i, value)
    \/ \E i \in Ids, score \in Scores : reveal(i, score)
    \/ \E i \in Ids : releaseFinalizedBond(i)
    \/ \E i \in Ids : expireCommitted(i)
    \/ \E i \in Ids : expireRevealed(i)
    \/ \E account \in Claimants : claimBond(account)
    \/ recoverPausedAll

OwnerStep ==
    \/ /\ "newActions" \in OwnerSwitches
       /\ \E paused \in BOOLEAN : setPausedNewActions(paused)
    \/ /\ "full" \in OwnerSwitches
       /\ \/ now <= LastOptionalStep /\ startPausedAll
          \/ endPausedAll

(* Submission manager and ledger. *)
FrontierStep ==
    \/ \E i \in Ids :
         /\ now <= LastOptionalStep
         /\ finalize(i)
         /\ finalizedAt' = [finalizedAt EXCEPT ![i] = now]
    \/ \E i \in Voidable : voidFinalize(i) /\ UNCHANGED finalizedAt

(* Both managers. *)
DisputeStep ==
    \/ \E i \in Ids, sender \in Actors, value \in CounterBonds : challenge(i, sender, value)
    \/ \E i \in Ids, wins \in BOOLEAN, value \in ResolverBonds : resolve(i, wins, Resolver, value)
    \/ \E i \in Ids : finalizeResolution(i)
    \/ \E i \in Ids : expireChallenge(i)
    \/ \E i \in Ids : slashResolverBond(i)
    \/ /\ ObjectiveProofsActive
       /\ \E i \in Ids, wins \in BOOLEAN, account \in Actors :
            applyObjectiveResolution(i, wins, account)
    \/ \E account \in Claimants : claimCounterBond(account)
    \/ /\ "challenges" \in OwnerSwitches
       /\ \E paused \in BOOLEAN : challengeSetPausedNewActions(paused)

(* P42PayoutLedger.close with the answers of the real credit recorder. *)
closeBoard == close(openSubmissionCount, pausedAll, creditRecoveryEndsAt, funded)

LedgerStep ==
    \/ closeBoard
    \/ /\ "ledger" \in OwnerSwitches
       /\ \E paused \in BOOLEAN : ledgerSetPausedNewActions(paused)

BoardNext ==
    \/ Tick /\ UNCHANGED <<ledgerVars, gateVars, poolVars, managerVars, disputeVars, finalizedAt>>
    \/ GateStep /\ UNCHANGED <<now, ledgerVars, poolVars, managerVars, disputeVars, finalizedAt>>
    \/ PoolStep /\ UNCHANGED <<now, ledgerVars, gateVars, managerVars, disputeVars, finalizedAt>>
    \/ ClaimStep /\ UNCHANGED <<now, gateVars, managerVars, disputeVars, finalizedAt>>
    \/ LedgerStep /\ UNCHANGED <<now, gateVars, poolVars, managerVars, disputeVars, finalizedAt>>
    \/ SubmissionStep /\ UNCHANGED <<settlementVars, disputeVars, finalizedAt>>
    \/ OwnerStep /\ UNCHANGED <<settlementVars, disputeVars, finalizedAt>>
    \/ FrontierStep /\ UNCHANGED <<now, gateVars, poolVars, disputeVars>>
    \/ DisputeStep /\ UNCHANGED <<settlementVars, finalizedAt>>

BoardSpec == BoardInit /\ [][BoardNext]_boardVars

(* Time passes, and every call the contracts leave open to anyone is made when
   it stays possible.  Nothing is assumed of solvers, resolver or owner. *)
BoardFairness ==
    /\ WF_boardVars(Tick /\ UNCHANGED <<ledgerVars, gateVars, poolVars, managerVars,
                                        disputeVars, finalizedAt>>)
    /\ WF_boardVars(recoverPausedAll /\ UNCHANGED <<settlementVars, disputeVars, finalizedAt>>)
    /\ \A i \in Ids :
         /\ WF_boardVars(expireCommitted(i) /\ UNCHANGED <<settlementVars, disputeVars, finalizedAt>>)
         /\ WF_boardVars(expireRevealed(i) /\ UNCHANGED <<settlementVars, disputeVars, finalizedAt>>)
         /\ WF_boardVars(expireChallenge(i) /\ UNCHANGED <<settlementVars, finalizedAt>>)
         /\ WF_boardVars(finalizeResolution(i) /\ UNCHANGED <<settlementVars, finalizedAt>>)
    /\ WF_boardVars(closeBoard /\ UNCHANGED <<now, gateVars, poolVars, managerVars,
                                              disputeVars, finalizedAt>>)

(* A call that anyone may make and that somebody has to make before close. *)
KeeperDuty ==
    \/ pauseRecoverable
    \/ \E i \in Ids : \/ commitForfeitable(i) \/ revealForfeitable(i)
                      \/ challengeOverdue(i) \/ decisionRipe(i)

(* The bounded clock must not run out on a late keeper: keepers may be as late
   as they like until LastOptionalStep, and act within the block after it. *)
PromptNext == BoardNext /\ (now' > now /\ now >= LastOptionalStep => ~KeeperDuty)

FairBoardSpec == BoardInit /\ [][PromptNext]_boardVars /\ BoardFairness

-----------------------------------------------------------------------------
(* Every variable keeps its type: no counter, balance or credit underflows. *)
BoardTypeOK ==
    /\ SettlementTypeOK
    /\ ManagerTypeOK
    /\ ChallengeTypeOK
    /\ finalizedAt \in [Ids -> Nat]

InStatus(statuses) == {i \in Ids : status[i] \in statuses}

OpenStatuses == {"Committed", "Revealed", "Challenged"}

(* The three counters that gate close() and voidFinalize() are the numbers of
   submissions in the states they stand for: close() can neither be blocked by
   a submission that no longer exists nor pass over a live one. *)
CountersAgree ==
    /\ openSubmissionCount = Cardinality(InStatus(OpenStatuses))
    /\ revealedSubmissionCount = Cardinality(InStatus({"Revealed"}))
    /\ challengedSubmissionCount = Cardinality(InStatus({"Challenged"}))

(* The two managers agree on every dispute: a submission is Challenged exactly
   when its slot holds an undecided or pending challenge, a kept slot belongs
   to a rejected submission, and a resolver bond is live exactly while a
   decision is pending.  No slot is left occupied on a live submission. *)
DisputeAgrees ==
    \A i \in Ids :
        /\ status[i] = "Challenged" <=> slot[i] \in {"open", "pending"}
        /\ slot[i] = "resolved" => status[i] = "Rejected" /\ challengerWins[i]
        /\ slot[i] = "empty" <=> challenger[i] = NoOne
        /\ slot[i] = "pending" <=> resolverBondWei[i] # 0
        /\ slot[i] = "pending" <=> resolverBondBeneficiary[i] # NoOne
        /\ challenger[i] # NoOne => challenger[i] # solverOf[i]

(* Every clock of a dispute stays within the horizon fixed at reveal. *)
WithinHorizon ==
    \A i \in Ids :
        /\ challengeEndsAt[i] <= maxDisputeEndsAt[i]
        /\ slot[i] \in {"open", "pending"} => disputeEndsAt[i] <= maxDisputeEndsAt[i]
        /\ slot[i] = "pending" => resolverBondReleaseAt[i] <= maxDisputeEndsAt[i]

(* No dispute is stuck: once the horizon is over, expireChallenge or
   finalizeResolution is open to anyone, whatever the resolver did (M1). *)
NoStuckDispute ==
    \A i \in Ids :
        status[i] = "Challenged" /\ now >= maxDisputeEndsAt[i] =>
            challengeOverdue(i) \/ decisionRipe(i)

(* A paid submission stays bonded against the whole funding cap from commit
   until it is rejected, voided or the ledger closes: finalize's own bond check
   never fails, and credit never outlives its collateral before close. *)
PaidStaysBonded ==
    \A i \in Ids :
        \/ status[i] \in OpenStatuses /\ paidAtCommit[i]
        \/ status[i] = "Finalized" /\ finalizeInfo[i].creditAtoms > 0 /\ ~closed
        => bondWei[i] >= requiredPostingBondForPool(fundingCap)

(* The holder of a CID's priority is its earliest revealed commit, and nobody
   else is Revealed with it: a copy never finalizes ahead of the original. *)
PriorityHeld ==
    \A i \in Ids :
        /\ status[i] = "Revealed" => prioritySubmissionOf[solutionCid[i]] = i
        /\ status[i] \in {"Challenged", "Finalized"} => prioritySubmissionOf[solutionCid[i]] \in 1..i

(* A claim proved right by an objective proof can never be disputed again. *)
ClearedStaysClear ==
    \A i \in Ids :
        objectiveCleared[i] => /\ status[i] \notin {"Committed", "Challenged"}
                               /\ slot[i] = "empty"
                               /\ challengeEndsAt[i] <= now

(* A dispute, whatever its order with pauses, objective proofs and other disputes: the counters,
   the two managers, the deadlines, the priority and the bonds stay consistent. *)
DisputeSafe ==
    /\ CountersAgree /\ DisputeAgrees /\ WithinHorizon /\ NoStuckDispute
    /\ PaidStaysBonded /\ PriorityHeld /\ ClearedStaysClear

(* The ledger credits exactly the finalized submissions that were committed
   after arming, each by its marginal, per solver and in total. *)
CreditsMatchFinalizes ==
    LET credited(s) == {i \in Ids : status[i] = "Finalized" /\ solverOf[i] = s}
        credit == [i \in Ids |-> finalizeInfo[i].creditAtoms]
    IN  /\ \A s \in Actors : creditAtomsOf[s] = SumFunctionOnSet(credit, credited(s))
        /\ totalCreditAtoms = SumFunctionOnSet(credit, InStatus({"Finalized"}))
        /\ \A i \in Ids : credit[i] > 0 => paidAtCommit[i] /\ credit[i] = moved(i)

(* The frontier telescopes: the distance from the seed to the live best is the
   sum of the advances of the finalizes that stand. *)
FrontierTelescopes ==
    seedScoreAtoms - bestScoreAtoms =
        SumFunctionOnSet([i \in Ids |-> advanceOf(i)], InStatus({"Finalized"}))

(* Each manager holds exactly the ETH of its live bonds and unpaid claims: no
   bond is paid twice, and none is lost by a dispute, a duplicate, an expiry
   or a void. *)
ManagersSolvent ==
    /\ managerBalance = SumFunction(bondWei) + SumFunction(claimableBondWei)
    /\ challengeBalance =
         SumFunctionOnSet(challengeBondWei, InStatus({"Challenged"}))
           + SumFunction(resolverBondWei) + SumFunction(claimableCounterBondWei)

(* A closed board is settled: nothing is open, and every credit that shares the
   pool stood for the whole recovery window, even when voids restored older
   deadlines. *)
CloseIsSafe ==
    closed =>
        /\ InStatus(OpenStatuses) = {}
        /\ \A i \in InStatus({"Finalized"}) :
             finalizeInfo[i].creditAtoms > 0 =>
                 finalizedAt[i] + CREDIT_FINALIZE_RECOVERY_DELAY <= closedAt

(* What stands of the frontier: the credits, the distance to the seed, and the recovery window
   that a close leaves. *)
FrontierSafe == CreditsMatchFinalizes /\ FrontierTelescopes /\ CloseIsSafe

(* The clock of the reveal window advances with every block outside a full
   pause and stands still within one, across any sequence of pauses. *)
ActiveClockTolls ==
    [][activeTimestamp' - activeTimestamp
         = IF now' > now /\ ~pausedAll THEN now' - now ELSE 0]_boardVars

(* Outcomes are final: a rejected or voided submission stays so, and a
   finalized one can only be voided, under a full pause, and before close if
   it carries credit. *)
OutcomesFinal ==
    [][\A i \in Ids :
         /\ status[i] \in {"Rejected", "Voided"} => status'[i] = status[i]
         /\ status[i] = "Finalized" =>
              \/ status'[i] = "Finalized"
              \/ /\ status'[i] = "Voided" /\ pausedAll
                 /\ finalizeInfo[i].creditAtoms > 0 => ~closed]_boardVars

(* A solver who prevails in a dispute settled by its horizon, or on an
   objective proof, has a whole window to finalize before its bond can be
   forfeited: expireRevealed waits challengeWindowSeconds past challengeEndsAt. *)
PromptReturnLeavesWindow ==
    [][\A i \in Ids :
         status[i] = "Challenged" /\ status'[i] = "Revealed" /\ now <= maxDisputeEndsAt[i]
           => now <= challengeEndsAt'[i]]_boardVars

(* What the comment at P42SubmissionManager.sol:1124 promises of every dispute
   a solver survives: its bond is not forfeitable at once (F5). *)
ReturnIsNeverForfeitable ==
    [][\A i \in Ids :
         status[i] = "Challenged" /\ status'[i] = "Revealed"
           => now < challengeEndsAt'[i] + challengeWindowSeconds]_boardVars

(* What the comment at P42SubmissionManager.sol:1030 promises of a void: the
   finalize it reverses had moved the frontier. *)
VoidUndoesAdvance ==
    [][\A i \in Ids : status[i] = "Finalized" /\ status'[i] = "Voided" => advanceOf(i) > 0]_boardVars

(* Nobody can hold a dispute open for ever. *)
DisputesEnd == \A i \in Ids : status[i] = "Challenged" ~> status[i] # "Challenged"

(* Permissionless calls alone bring the board to its close, whatever solvers,
   challengers, resolver and a pausing owner did before they went silent. *)
EventuallyClosed == <>closed
=============================================================================
