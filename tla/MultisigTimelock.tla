--------------------------- MODULE MultisigTimelock ---------------------------
(***************************************************************************)
(* P42MultisigTimelock: operations that signers schedule, confirm, cancel  *)
(* and, after a delay, execute; the signer set, the threshold and the      *)
(* guardian change only through operations of the override class.          *)
(*                                                                         *)
(* An operation identifier hashes target, value, calldata and salt; here   *)
(* it is a member of Ops, and Call[id] is the call it makes.  A call to    *)
(* another contract may call execute again before it returns, so execute   *)
(* is a frame that is entered and left.  The pauser list, the pause        *)
(* targets and emergencyPause are left out.                                *)
(***************************************************************************)
EXTENDS Integers, Sequences, FiniteSets

CONSTANTS Ops,        \* operation identifiers
          Call,       \* Call[id]: what the operation calls
          Family,     \* Family[id]: its target and calldata, without the salt
          Signers0, Threshold0, Guardian0,   \* constructor arguments
          delay, operationGracePeriod,
          Lost,       \* signers who never act again
          Opposed,    \* the guardian cancels whatever it may and approves no recovery
          Prompt,     \* a pending operation is dealt with before it expires
          Contested,  \* the operations some signers try to cancel
          MaxTime,    \* bound: the clock
          MaxDepth    \* bound: nested execute calls

overrideThresholdOf(t, n) ==
    LET twoThirds == (2 * n + 2) \div 3 IN IF t + 1 > twoThirds THEN t + 1 ELSE twoThirds

validThreshold(t, n) ==
    /\ n >= 3 /\ t # 0 /\ t <= n /\ 2 * t > n
    /\ overrideThresholdOf(t, n) <= n

ASSUME TimelockAssumption ==
    /\ IsFiniteSet(Signers0)
    /\ Threshold0 \in Nat
    /\ validThreshold(Threshold0, Cardinality(Signers0))
    /\ delay \in Nat \ {0}
    /\ operationGracePeriod \in Nat
    /\ \A id \in Ops : Call[id].kind = "setThreshold" => Call[id].threshold \in Nat
    /\ MaxTime \in Nat

VARIABLES signers, threshold, guardian, governanceEpoch,
          ops,          \* per identifier, its record
          cancelledFamilies, \* guardianCancelledFamily
          now,
          frames,       \* the execute calls under way, innermost last
          executingOverride,
          before        \* the state a failing transaction falls back to

gov == <<signers, threshold, guardian, governanceEpoch>>
tlVars == <<signers, threshold, guardian, governanceEpoch, ops, cancelledFamilies, now,
            frames, executingOverride, before>>

fresh == [state |-> "none", eta |-> 0, overrideClass |-> FALSE, confirmedBy |-> {},
          cancelConfirmedBy |-> {}, confirmations |-> 0, recoveryEpoch |-> 0, approvedUnder |-> <<>>]

TimelockInit ==
    /\ signers = Signers0
    /\ threshold = Threshold0
    /\ guardian = Guardian0
    /\ governanceEpoch = 0
    /\ ops = [id \in Ops |-> fresh]
    /\ cancelledFamilies = {}
    /\ now = 0
    /\ frames = <<>>
    /\ executingOverride = FALSE
    /\ before = <<>>

Idle == frames = <<>>
expiresAt(id) == ops[id].eta + operationGracePeriod
pending(id) == ops[id].state = "pending" /\ now <= expiresAt(id)
overrideThreshold == overrideThresholdOf(threshold, Cardinality(signers))
currentConfirmations(id) == Cardinality(ops[id].confirmedBy \cap signers)
isSignerRecovery(id) == Call[id].kind = "swapSigner"

keepAccounts == UNCHANGED <<gov, cancelledFamilies, now, frames, executingOverride, before>>

\* schedule and scheduleOverride.
schedule(s, id, override) ==
    /\ Idle /\ s \in signers
    /\ ops[id].state = "none"
    /\ ops' = [ops EXCEPT ![id] = [fresh EXCEPT !.state = "pending",
                                                !.eta = now + (IF override THEN 2 * delay ELSE delay),
                                                !.overrideClass = override,
                                                !.confirmedBy = {s},
                                                !.confirmations = 1]]
    /\ keepAccounts

confirm(s, id) ==
    /\ Idle /\ s \in signers
    /\ pending(id)
    /\ s \notin ops[id].confirmedBy
    /\ ops' = [ops EXCEPT ![id].confirmedBy = @ \cup {s}, ![id].confirmations = @ + 1]
    /\ keepAccounts

\* Mutant: the approval is not tied to a governance epoch.
approvalLasts(id) == ops[id].recoveryEpoch # 0

\* The guardian's approval counts while no governance change has followed it.
approvalCounts(id) == ops[id].recoveryEpoch = governanceEpoch + 1

\* approvedUnder records for the properties which governance the approval was given under.
approveSignerRecovery(id) ==
    /\ Idle
    /\ pending(id)
    /\ ops[id].overrideClass /\ isSignerRecovery(id)
    /\ ~approvalCounts(id)
    /\ ops' = [ops EXCEPT ![id].recoveryEpoch = governanceEpoch + 1,
                          ![id].approvedUnder = <<signers, threshold, guardian>>]
    /\ keepAccounts

\* The guardian's cancellation: never of an override, and once per family.
cancel(id) ==
    /\ Idle
    /\ pending(id)
    /\ ~ops[id].overrideClass
    /\ Family[id] \notin cancelledFamilies
    /\ cancelledFamilies' = cancelledFamilies \cup {Family[id]}
    /\ ops' = [ops EXCEPT ![id].state = "cancelled"]
    /\ UNCHANGED <<gov, now, frames, executingOverride, before>>

confirmCancel(s, id) ==
    /\ Idle /\ s \in signers
    /\ pending(id)
    /\ id \in Contested
    /\ s \notin ops[id].cancelConfirmedBy
    /\ LET given == ops[id].cancelConfirmedBy \cup {s}
       IN ops' = [ops EXCEPT ![id].cancelConfirmedBy = given,
                             ![id].state = IF Cardinality(given \cap signers) >= threshold
                                           THEN "cancelled" ELSE @]
    /\ keepAccounts

expire(id) ==
    /\ Idle
    /\ ops[id].state = "pending"
    /\ now > expiresAt(id)
    /\ ops' = [ops EXCEPT ![id].state = "expired"]
    /\ keepAccounts

\* A signer replacement that the guardian approved takes the base threshold.
overrideExecutionThreshold(id) ==
    IF isSignerRecovery(id) /\ approvalCounts(id) THEN threshold ELSE overrideThreshold

\* Mutant: the counter kept with the operation is trusted, whoever it counted.
enoughEver(id) ==
    ops[id].confirmations >= (IF ops[id].overrideClass THEN overrideExecutionThreshold(id) ELSE threshold)

enoughConfirmations(id) ==
    currentConfirmations(id) >= (IF ops[id].overrideClass THEN overrideExecutionThreshold(id) ELSE threshold)

executable(id) ==
    /\ ops[id].state = "pending"
    /\ now <= expiresAt(id)
    /\ now >= ops[id].eta
    /\ enoughConfirmations(id)

\* Mutant: an override stays in force for whatever runs inside it.
classInherited(id) == executingOverride \/ ops[id].overrideClass

\* The class of the operation whose call is about to be made.
overrideDuringCall(id) == ops[id].overrideClass

Innermost == frames[Len(frames)]

\* execute up to its call; anybody may call it, also from within the call of another contract.
execute(id) ==
    /\ Len(frames) < MaxDepth
    /\ ~Idle => Call[Innermost.id].kind = "external"
    /\ executable(id)
    /\ ops' = [ops EXCEPT ![id].state = "executed"]
    /\ frames' = Append(frames, [id |-> id, previous |-> executingOverride, called |-> Call[id].kind = "external"])
    /\ executingOverride' = overrideDuringCall(id)
    /\ before' = IF Idle THEN <<gov, ops>> ELSE before
    /\ UNCHANGED <<gov, cancelledFamilies, now>>

\* The timelock's call of itself: onlySelfOverride, then the change.
selfCall(kind) ==
    /\ ~Idle /\ ~Innermost.called
    /\ Call[Innermost.id].kind = kind
    /\ executingOverride
    /\ frames' = [frames EXCEPT ![Len(frames)].called = TRUE]
    /\ governanceEpoch' = governanceEpoch + 1
    /\ UNCHANGED <<ops, cancelledFamilies, now, executingOverride, before>>

Larger(a, b) == IF a > b THEN a ELSE b

addSigner ==
    /\ selfCall("addSigner")
    /\ LET s == Call[Innermost.id].signer
           n == Cardinality(signers) + 1
           t == Larger(threshold, n \div 2 + 1)
       IN /\ s \notin signers
          /\ validThreshold(t, n)
          /\ signers' = signers \cup {s}
          /\ threshold' = t
    /\ UNCHANGED guardian

\* Mutant: the threshold stays as it is.
removeSignerOnly ==
    /\ selfCall("removeSigner")
    /\ Call[Innermost.id].signer \in signers
    /\ signers' = signers \ {Call[Innermost.id].signer}
    /\ UNCHANGED <<threshold, guardian>>

removeSigner ==
    /\ selfCall("removeSigner")
    /\ LET s == Call[Innermost.id].signer
           n == Cardinality(signers) - 1
           t == Larger(IF threshold < n THEN threshold ELSE n - 1, n \div 2 + 1)
       IN /\ s \in signers
          /\ validThreshold(t, n)
          /\ signers' = signers \ {s}
          /\ threshold' = t
    /\ UNCHANGED guardian

swapSigner ==
    /\ selfCall("swapSigner")
    /\ LET c == Call[Innermost.id]
       IN /\ c.signer \in signers /\ c.replacement \notin signers
          /\ signers' = (signers \ {c.signer}) \cup {c.replacement}
    /\ UNCHANGED <<threshold, guardian>>

setThreshold ==
    /\ selfCall("setThreshold")
    /\ validThreshold(Call[Innermost.id].threshold, Cardinality(signers))
    /\ threshold' = Call[Innermost.id].threshold
    /\ UNCHANGED <<signers, guardian>>

setGuardian ==
    /\ selfCall("setGuardian")
    /\ guardian' = Call[Innermost.id].guardian
    /\ UNCHANGED <<signers, threshold>>

SelfCalls == addSigner \/ removeSigner \/ swapSigner \/ setThreshold \/ setGuardian

\* The call returned: execute restores the flag and ends.
return ==
    /\ ~Idle /\ Innermost.called
    /\ executingOverride' = Innermost.previous
    /\ frames' = SubSeq(frames, 1, Len(frames) - 1)
    /\ before' = IF Len(frames) = 1 THEN <<>> ELSE before
    /\ UNCHANGED <<gov, ops, cancelledFamilies, now>>

\* The call failed: the transaction has no effect.
callFailed ==
    /\ ~Idle
    /\ signers' = before[1][1] /\ threshold' = before[1][2]
    /\ guardian' = before[1][3] /\ governanceEpoch' = before[1][4]
    /\ ops' = before[2]
    /\ frames' = <<>>
    /\ executingOverride' = FALSE
    /\ before' = <<>>
    /\ UNCHANGED <<cancelledFamilies, now>>

\* With Prompt, the clock waits for the first schedule, which stands at any time.
Tick ==
    /\ Idle
    /\ now < MaxTime
    /\ Prompt => /\ \E id \in Ops : ops[id].state = "pending"
                 /\ \A id \in Ops : ~(ops[id].state = "pending" /\ now = expiresAt(id))
    /\ now' = now + 1
    /\ UNCHANGED <<gov, ops, cancelledFamilies, frames, executingOverride, before>>

Acting == signers \ Lost

\* What the signers in agreement do to get an operation through.
Pursue(id) == \E s \in Acting : schedule(s, id, Call[id].kind # "external") \/ confirm(s, id)

\* Anything the contract allows anybody.
TimelockNext ==
    \/ \E s \in Acting, id \in Ops :
          \/ \E override \in BOOLEAN : schedule(s, id, override)
          \/ confirm(s, id) \/ confirmCancel(s, id)
    \/ \E id \in Ops : approveSignerRecovery(id) \/ cancel(id) \/ expire(id) \/ execute(id)
    \/ SelfCalls \/ return \/ callFailed
    \/ Tick

TimelockSpec == TimelockInit /\ [][TimelockNext]_tlVars

\* The signers agree, and only the guardian may stand against them.
AgreedNext ==
    \/ \E id \in Ops :
          \/ Pursue(id)
          \/ ~Opposed /\ approveSignerRecovery(id)
          \/ Opposed /\ cancel(id)
          \/ Idle /\ execute(id)
    \/ SelfCalls \/ return
    \/ Tick

\* Signers who agree schedule, confirm and execute in time, a guardian who cooperates approves
\* a pending recovery, and time passes.
AgreedSpec ==
    /\ TimelockInit
    /\ [][AgreedNext]_tlVars
    /\ WF_tlVars(SelfCalls \/ return)
    /\ WF_tlVars(Tick)
    /\ \A id \in Ops : /\ WF_tlVars(Pursue(id))
                       /\ WF_tlVars(Idle /\ execute(id))
                       /\ WF_tlVars(~Opposed /\ approveSignerRecovery(id))
-----------------------------------------------------------------------------
TimelockTypeOK ==
    /\ IsFiniteSet(signers)
    /\ threshold \in Nat
    /\ validThreshold(threshold, Cardinality(signers))
    /\ governanceEpoch \in Nat
    /\ \A id \in Ops : ops[id].state \in {"none", "pending", "executed", "cancelled", "expired"}
    /\ now \in 0..MaxTime
    /\ executingOverride \in BOOLEAN

\* Nothing is executed, and nothing but the guardian's veto cancelled, without the word of a
\* strict majority of those who are signers at that moment: the confirmation of a signer who was
\* removed since does not count (execute, currentConfirmations, confirmCancel).
PresentMajorityDecides ==
    [][\A id \in Ops :
        /\ (ops[id].state # "executed" /\ ops'[id].state = "executed")
           => 2 * Cardinality(ops[id].confirmedBy \cap signers) > Cardinality(signers)
        /\ (ops[id].state # "cancelled" /\ ops'[id].state = "cancelled")
           => \/ Family[id] \in cancelledFamilies' \ cancelledFamilies
              \/ 2 * Cardinality(ops'[id].cancelConfirmedBy \cap signers) > Cardinality(signers)]_tlVars

\* However execute calls are nested, signers, threshold and guardian change only in the call of an
\* operation that was itself scheduled as an override, so in public for twice the delay and out of
\* the guardian's veto: a standard operation run from inside an override gains nothing.
GovernanceByOverride ==
    [][(<<signers, threshold, guardian>> # <<signers', threshold', guardian'>> /\ frames' # <<>>)
        => ops[Innermost.id].overrideClass]_tlVars

\* A replacement of a signer that fewer than the override quorum confirmed was approved by the
\* guardian of today under the signers and the threshold of today, whatever was executed between
\* the approval and the execution (approveSignerRecovery, governanceEpoch).
RecoveryApprovedUnderPresentGovernance ==
    [][\A id \in Ops :
        (/\ ops[id].state # "executed" /\ ops'[id].state = "executed"
         /\ ops[id].overrideClass
         /\ currentConfirmations(id) < overrideThreshold)
        => ops[id].approvedUnder = <<signers, threshold, guardian>>]_tlVars

\* The guardian can delay an ordinary operation, never prevent it: signers who insist get one
\* operation of the family executed, under another salt if they have to (cancel).
GuardianOnlyDelays ==
    \A f \in {Family[id] : id \in Ops} :
        <>(\E id \in Ops : Family[id] = f /\ ops[id].state = "executed")

\* As many signers as toleratedSignerLoss() says may be lost for ever, and the rest together with
\* the guardian still replace every one of them, though each replacement voids the approvals given
\* for the others.
LostSignersReplaced == <>(signers \cap Lost = {})
=============================================================================
