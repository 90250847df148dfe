--------------------------- MODULE ChallengeManager ---------------------------
(***************************************************************************)
(* P42ChallengeManager: one dispute slot per submission, counter-bonds,    *)
(* bonded resolver decisions with a fraud window, timeouts, slashing and   *)
(* objective corrections.  Each operation is a whole transaction on both   *)
(* managers: it constrains exactly `disputeVars' and `managerVars'.        *)
(*                                                                         *)
(* Callers bind every call to the current reveal or challenge fingerprint; *)
(* a call bound to another one reverts, so only matching calls are steps.  *)
(* Transcript and verdict contents are data the contract never reads.      *)
(***************************************************************************)
EXTENDS SubmissionManager

CONSTANTS
    betaBps, minCounterBondWei, rerunCostWei, rerunCostMultiplierBps,
    resolverDecisionBondWei, resolverFraudWindowSeconds,
    CounterBonds,               \* ETH a challenger may attach
    ResolverBonds,              \* ETH a resolver may attach to a decision
    MaxChallengeBalance         \* bound on the contract's balance, for TLC only

ASSUME ChallengeAssumption ==
    /\ betaBps \in 0..10000
    /\ minCounterBondWei \in Nat
    /\ rerunCostWei \in Nat /\ rerunCostMultiplierBps \in Nat
    /\ resolverDecisionBondWei \in Nat \ {0}
    /\ resolverFraudWindowSeconds \in 1..challengeWindowSeconds
    /\ CounterBonds \subseteq Nat /\ ResolverBonds \subseteq Nat
    /\ MaxChallengeBalance \in Nat

(* A slot is "empty" (challenger == 0), "open" (neither flag), "pending"
   (decisionPending) or "resolved" (kept after a challenger win). *)
SlotStates == {"empty", "open", "pending", "resolved"}

VARIABLES
    slot, challenger, challengeBondWei, disputeEndsAt, challengerWins,
    resolverBondWei, resolverBondReleaseAt, resolverBondBeneficiary,
    claimableCounterBondWei,      \* claimableBondWei of this contract
    challengeBalance,             \* address(challengeManager).balance
    challengePaused               \* pausedNewActions

slotVars == <<slot, challenger, challengeBondWei, disputeEndsAt, challengerWins>>
resolverBondVars == <<resolverBondWei, resolverBondReleaseAt, resolverBondBeneficiary>>
disputeVars == <<slotVars, resolverBondVars, claimableCounterBondWei,
                 challengeBalance, challengePaused>>

ChallengeInit ==
    /\ slot = [i \in Ids |-> "empty"]
    /\ challenger = [i \in Ids |-> NoOne]
    /\ challengeBondWei = [i \in Ids |-> 0]
    /\ disputeEndsAt = [i \in Ids |-> 0]
    /\ challengerWins = [i \in Ids |-> FALSE]
    /\ resolverBondWei = [i \in Ids |-> 0]
    /\ resolverBondReleaseAt = [i \in Ids |-> 0]
    /\ resolverBondBeneficiary = [i \in Ids |-> NoOne]
    /\ claimableCounterBondWei = [a \in Accounts |-> 0]
    /\ challengeBalance = 0
    /\ challengePaused = FALSE

ChallengeTypeOK ==
    /\ slot \in [Ids -> SlotStates]
    /\ challenger \in [Ids -> Actors \cup {NoOne}]
    /\ challengeBondWei \in [Ids -> Nat]
    /\ disputeEndsAt \in [Ids -> Nat]
    /\ challengerWins \in [Ids -> BOOLEAN]
    /\ resolverBondWei \in [Ids -> Nat]
    /\ resolverBondReleaseAt \in [Ids -> Nat]
    /\ resolverBondBeneficiary \in [Ids -> Accounts \cup {NoOne}]
    /\ claimableCounterBondWei \in [Accounts -> Nat]
    /\ challengeBalance \in Nat
    /\ challengePaused \in BOOLEAN

-----------------------------------------------------------------------------
largest(x, y) == IF x > y THEN x ELSE y

requiredChallengeBond(disputedWei) ==
    largest(minCounterBondWei,
            largest(mulDiv(disputedWei, betaBps, 10000),
                    mulDiv(rerunCostWei, rerunCostMultiplierBps, 10000)))

(* `delete challenges[i]' *)
deleteChallenge(i) ==
    /\ slot' = [slot EXCEPT ![i] = "empty"]
    /\ challenger' = [challenger EXCEPT ![i] = NoOne]
    /\ challengeBondWei' = [challengeBondWei EXCEPT ![i] = 0]
    /\ disputeEndsAt' = [disputeEndsAt EXCEPT ![i] = 0]
    /\ challengerWins' = [challengerWins EXCEPT ![i] = FALSE]

settleSlot_alwaysKept(i, wins) ==
    /\ slot' = [slot EXCEPT ![i] = "resolved"]
    /\ challengerWins' = [challengerWins EXCEPT ![i] = wins]
    /\ UNCHANGED <<challenger, challengeBondWei, disputeEndsAt>>

(* The slot after a final verdict: kept when the challenger won, else deleted. *)
settleSlot(i, wins) ==
    IF wins
    THEN /\ slot' = [slot EXCEPT ![i] = "resolved"]
         /\ challengerWins' = [challengerWins EXCEPT ![i] = TRUE]
         /\ UNCHANGED <<challenger, challengeBondWei, disputeEndsAt>>
    ELSE deleteChallenge(i)

(* The resolver bond and the counter-bond become claimable by `resolverShare'
   and `challengeShare', which may be the same account. *)
releaseBonds(i, resolverShare, challengeShare) ==
    /\ resolverBondWei' = [resolverBondWei EXCEPT ![i] = 0]
    /\ resolverBondBeneficiary' = [resolverBondBeneficiary EXCEPT ![i] = NoOne]
    /\ claimableCounterBondWei' =
         [a \in Accounts |->
            claimableCounterBondWei[a]
              + (IF a = resolverShare THEN resolverBondWei[i] ELSE 0)
              + (IF a = challengeShare THEN challengeBondWei[i] ELSE 0)]
    /\ UNCHANGED <<resolverBondReleaseAt, challengeBalance, challengePaused>>

-----------------------------------------------------------------------------
challengeSetPausedNewActions(paused) ==
    /\ challengePaused' = paused
    /\ UNCHANGED <<slotVars, resolverBondVars, claimableCounterBondWei,
                   challengeBalance, managerVars>>

challenge(i, sender, value) ==
    /\ ~challengePaused
    /\ challenger[i] = NoOne
    /\ solverOf[i] # sender
    /\ status[i] = "Revealed"
    /\ withinCreditBound(solverOf[i], pendingCreditAtoms(i))
    /\ value >= requiredChallengeBond(disputedEntitlementWei(i))
    /\ challengeBalance + value <= MaxChallengeBalance
    /\ markChallenged(i)
    /\ slot' = [slot EXCEPT ![i] = "open"]
    /\ challenger' = [challenger EXCEPT ![i] = sender]
    /\ challengeBondWei' = [challengeBondWei EXCEPT ![i] = value]
    /\ disputeEndsAt' = [disputeEndsAt EXCEPT ![i] = boundedRearmDeadline(i)]
    /\ challengerWins' = [challengerWins EXCEPT ![i] = FALSE]
    /\ challengeBalance' = challengeBalance + value
    /\ UNCHANGED <<resolverBondVars, claimableCounterBondWei, challengePaused>>

(* A decision whose fraud window would outlast the dispute horizon is refused. *)
fraudWindowFits(i) == now + resolverFraudWindowSeconds <= maxDisputeEndsAt[i]

(* resolve and resolveFor, by the resolver: a bonded, not yet applied verdict. *)
resolve(i, wins, beneficiary, value) ==
    /\ slot[i] = "open"
    /\ now < disputeEndsAt[i]
    /\ value >= resolverDecisionBondWei
    /\ challengeBalance + value <= MaxChallengeBalance
    /\ beneficiary # NoOne
    /\ fraudWindowFits(i)
    /\ slot' = [slot EXCEPT ![i] = "pending"]
    /\ challengerWins' = [challengerWins EXCEPT ![i] = wins]
    /\ resolverBondWei' = [resolverBondWei EXCEPT ![i] = value]
    /\ resolverBondReleaseAt' =
         [resolverBondReleaseAt EXCEPT ![i] = now + resolverFraudWindowSeconds]
    /\ resolverBondBeneficiary' = [resolverBondBeneficiary EXCEPT ![i] = beneficiary]
    /\ challengeBalance' = challengeBalance + value
    /\ UNCHANGED <<challenger, challengeBondWei, disputeEndsAt,
                   claimableCounterBondWei, challengePaused, managerVars>>

decisionRipe(i) ==
    /\ slot[i] = "pending"
    /\ resolverBondWei[i] # 0
    /\ now >= resolverBondReleaseAt[i]
    /\ resolverBondBeneficiary[i] # NoOne

(* Permissionless, once the fraud window has passed unslashed. *)
finalizeResolution(i) ==
    /\ decisionRipe(i)
    /\ releaseBonds(i, resolverBondBeneficiary[i],
                    IF challengerWins[i] THEN challenger[i] ELSE Treasury)
    /\ resolveChallenge(i, challengerWins[i], challenger[i])
    /\ settleSlot(i, challengerWins[i])

challengeOverdue(i) == slot[i] = "open" /\ now >= disputeEndsAt[i]

(* Permissionless, once the dispute window has passed undecided. *)
expireChallenge(i) ==
    /\ challengeOverdue(i)
    /\ claimableCounterBondWei' =
         [claimableCounterBondWei EXCEPT ![challenger[i]] = @ + challengeBondWei[i]]
    /\ deleteChallenge(i)
    /\ resolveChallenge(i, FALSE, NoOne)
    /\ UNCHANGED <<resolverBondVars, challengeBalance, challengePaused>>

(* By the resolver, on proof that the decision was dishonest. *)
slashResolverBond(i) ==
    /\ slot[i] = "pending"
    /\ resolverBondWei[i] # 0
    /\ now < resolverBondReleaseAt[i]
    /\ releaseBonds(i, Treasury, challenger[i])
    /\ deleteChallenge(i)
    /\ cancelChallenge(i)

(* By the resolver, on a verified proof that the verdict is wrong. *)
applyObjectiveResolution(i, correctedChallengerWins, proofBeneficiary) ==
    /\ slot[i] = "pending"
    /\ proofBeneficiary # NoOne
    /\ correctedChallengerWins # challengerWins[i]
    /\ resolverBondWei[i] # 0
    /\ now < resolverBondReleaseAt[i]
    /\ releaseBonds(i, proofBeneficiary,
                    IF correctedChallengerWins THEN challenger[i] ELSE Treasury)
    /\ resolveObjectiveChallenge(i, correctedChallengerWins, challenger[i])
    /\ settleSlot(i, correctedChallengerWins)

claimCounterBond(account) ==
    /\ claimableCounterBondWei[account] # 0
    /\ claimableCounterBondWei' = [claimableCounterBondWei EXCEPT ![account] = 0]
    /\ challengeBalance' = challengeBalance - claimableCounterBondWei[account]
    /\ UNCHANGED <<slotVars, resolverBondVars, challengePaused, managerVars>>
=============================================================================
