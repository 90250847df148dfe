------------------------- MODULE CensorshipFallback -------------------------
(***************************************************************************)
(* Forced inclusion of a challenge: two L1 deposits, the first installing  *)
(* an exact call policy on the L2 wallet and the second spending the bond  *)
(* through it (agent/censorship-fallback-runtime.mjs), each a signed       *)
(* transaction that is journaled, broadcast under the shared wallet lock,  *)
(* reconciled on L1 and observed on L2.  A supervisor runs the one-step    *)
(* command again and again, and systemd restarts the supervisor.           *)
(*                                                                         *)
(* Every chain read of the code is taken from two providers at a common    *)
(* finalized block and refused when they differ; here it reads that block. *)
(* Latest heads count for nonces and timestamps only.  Time advances in    *)
(* coarse units and L2 executes a deposit within Window of its inclusion.  *)
(***************************************************************************)
EXTENDS WalletNonce, Sequences

CONSTANTS Window,        \* forced-inclusion window of one deposit
          Safety,        \* safetySeconds
          Deadline,      \* challengeDeadline
          AuthExpires,   \* expiresAt of the execution authorization
          MaxRpcRetries, \* of the supervisor
          MaxStarts,     \* StartLimitBurst of the systemd unit
          PrimaryLags,   \* whether the primary L1 provider may miss a transaction
          Interference,  \* what others may do on L2 and to the controller
          MaxTime, MaxFaults, MaxReorgs,
          None

Kinds == {"policy", "challenge"}

\* The plan's own arithmetic, and the independent authorization that covers it.
validateFallbackPlan == Window \in Nat \ {0} /\ Safety \in Nat /\ Deadline \in Nat
validateFallbackAuthorization == AuthExpires >= Deadline

FallbackAssumption ==
    /\ Kinds \subseteq Actions
    /\ validateFallbackPlan /\ validateFallbackAuthorization
    /\ MaxRpcRetries \in Nat \ {0} /\ MaxStarts \in Nat \ {0}

VARIABLES
    stage,     \* the journal's stage, an index into STATE_STAGES
    record,    \* the journal's signed transactions: the nonce of each action
    pc,        \* where the running step stands
    holder,    \* who holds the wallet lock
    sup, rpcFailures, starts, alerts,
    now,
    pool,      \* transactions the L1 network has and has not mined
    l1,        \* the operator account's mined transactions, by nonce
    final,     \* how many of them are final
    l2,        \* what the deposits did on finalized L2
    policy, slot, challenged,  \* the wallet's policy, the manager's slot and log
    rotated,   \* the guardian replaced the controller's operator
    faults, reorgs,
    signedAt   \* history: when the bytes were journaled

runVars == <<stage, record, pc, holder>>
supVars == <<sup, rpcFailures, starts, alerts>>
l1Vars == <<pool, l1, final>>
l2Vars == <<l2, policy, slot, challenged, rotated>>
vars == <<runVars, supVars, l1Vars, l2Vars, signedAt, now, faults, reorgs, nonceVars>>

-----------------------------------------------------------------------------
(* STATE_STAGES: planned, then signed, broadcast, l1_final and l2_confirmed *)
(* of the policy and of the challenge.                                      *)
base(a) == IF a = "policy" THEN 0 ELSE 4
signedStage(a) == base(a) + 1
broadcastStage(a) == base(a) + 2
l1FinalStage(a) == base(a) + 3
l2ConfirmedStage(a) == base(a) + 4
complete == l2ConfirmedStage("challenge")
actionForStage == IF stage < l2ConfirmedStage("policy") THEN "policy" ELSE "challenge"

requiredSeconds(a) == IF a = "policy" THEN 2 * Window + Safety ELSE Window + Safety

Transaction(a, n) == [action |-> a, nonce |-> n]
accountNonce == Len(l1)
pendingNonce ==
    CHOOSE k \in accountNonce .. accountNonce + Cardinality(pool) :
        /\ \A n \in accountNonce .. k - 1 : \E t \in pool : t.nonce = n
        /\ ~\E t \in pool : t.nonce = k
onL1(a, n) == n < Len(l1) /\ l1[n + 1].action = a
onWire(a, n) == Transaction(a, n) \in pool \/ onL1(a, n)

(* initialState, and the chains before the plan.  The planner has checked   *)
(* the deadline against the two windows (buildForcedChallengePlan).         *)
Init ==
    /\ NonceInit
    /\ stage = 0 /\ record = [a \in Kinds |-> None] /\ pc = "idle" /\ holder = None
    /\ sup = "running" /\ rpcFailures = 0 /\ starts = 1 /\ alerts = 0
    /\ now = 0 /\ Deadline - now >= requiredSeconds("policy")
    /\ pool = {} /\ l1 = <<>> /\ final = 0
    /\ l2 = [a \in Kinds |-> None] /\ policy = "none" /\ slot = "none" /\ challenged = {}
    /\ rotated = FALSE
    /\ faults = 0 /\ reorgs = 0
    /\ signedAt = [a \in Kinds |-> None]

-----------------------------------------------------------------------------
(* The supervisor and systemd.                                              *)
alert == alerts' = alerts + 1
exhausted == starts >= MaxStarts

\* Exit 70: systemd restarts the unit unless its start limit is reached.
supervisorFails ==
    IF exhausted THEN /\ sup' = "failed" /\ alert
                      /\ UNCHANGED <<rpcFailures, starts>>
    ELSE /\ starts' = starts + 1 /\ rpcFailures' = 0
         /\ UNCHANGED <<sup, alerts>>

\* Exit 75 with awaiting-finalized-chain-evidence.
awaiting == pc' = "idle" /\ rpcFailures' = 0 /\ UNCHANGED <<sup, starts, alerts>>

\* Exit 75 with rpc-unavailable.
rpcUnavailable ==
    /\ pc' = "idle"
    /\ IF rpcFailures + 1 > MaxRpcRetries THEN supervisorFails
       ELSE rpcFailures' = rpcFailures + 1 /\ UNCHANGED <<sup, starts, alerts>>

\* Exit 64: never restarted, one alert.
refuse == pc' = "idle" /\ sup' = "refused" /\ alert /\ UNCHANGED <<rpcFailures, starts>>

exitComplete == pc' = "idle" /\ sup' = "complete" /\ UNCHANGED <<rpcFailures, starts, alerts>>

goto(p) == pc' = p /\ UNCHANGED supVars

free == holder' = None
chains == <<l1Vars, l2Vars, now, faults, reorgs>>

-----------------------------------------------------------------------------
(* advanceFallbackRun, one step of it at a time.                            *)
deadlineOK(a) == now <= Deadline /\ Deadline - now >= requiredSeconds(a)
authorized == now < AuthExpires
bindingsOK == ~rotated

\* What finalized L2 says of the policy.
observePolicy ==
    CASE policy = "none" -> "pending"
      [] policy = "other" -> "conflict"
      [] policy = "used" -> "conflict"
      [] policy = "ours" -> "confirmed"

\* forcedDepositSourceHash: the L1 receipt the L2 transaction must derive from.
depositSource(a) == record[a] # None /\ onL1(a, record[a]) /\ l1[record[a] + 1].ok

\* assertForcedDepositTransaction: the event comes from our own L1 deposit.
fromDeposit == depositSource("challenge") /\ slot = "forced"

observeChallenge ==
    CASE slot = "none" -> "pending"
      [] slot = "other" -> "conflict"
      [] slot \in {"forced", "plain"} -> IF fromDeposit THEN "confirmed" ELSE "conflict"

\* revalidateHistoricalDeposit and the L1 receipts of a completed run.
historicalDeposit(a) == l2[a] = "done" /\ (a = "challenge" => "forced" \in challenged)
revalidateComplete == \A a \in Kinds : depositSource(a) /\ record[a] < final /\ historicalDeposit(a)

slotOpen == record[actionForStage] = None

\* validateFallbackRunState: what the stage promises is in the journal.
validState == \A a \in Kinds : stage >= signedStage(a) => record[a] # None

\* The observer's command, which needs no key.
verifyCompletedFallbackRun == validState /\ stage = complete /\ bindingsOK /\ revalidateComplete

mayPrepare == deadlineOK(actionForStage) /\ authorized /\ bindingsOK

start ==
    /\ sup = "running" /\ pc = "idle"
    /\ UNCHANGED <<stage, record, holder, nonceVars, chains, signedAt>>
    /\ IF ~validState \/ ~bindingsOK THEN refuse
       ELSE IF stage = complete THEN (IF revalidateComplete THEN exitComplete ELSE refuse)
       ELSE IF slotOpen /\ ~mayPrepare THEN refuse
       ELSE IF slotOpen \/ stage <= broadcastStage(actionForStage) THEN goto("lock")
       ELSE goto("observe")

\* reserveWalletNonceLocked under the wallet lock.
reserve ==
    /\ pc = "lock" /\ holder = None
    /\ LET a == actionForStage IN
       /\ IF slotOpen THEN \E pending \in accountNonce .. pendingNonce : reserveNonce(a, final, pending)
          ELSE recoverNonce(a, record[a])
    /\ holder' = "fallback" /\ goto("reserved")
    /\ UNCHANGED <<stage, record, chains, signedAt>>

maySign(a) ==
    /\ a = "challenge" => observePolicy = "confirmed"
    /\ deadlineOK(a) /\ authorized

allocated(a) == CHOOSE n \in 0 .. next_nonce : \E x \in reservedOf(a) : x.nonce = n

signedRecord(a, n) == record' = [record EXCEPT ![a] = n] /\ stage' = signedStage(a)

signAndJournal ==
    /\ pc = "reserved" /\ slotOpen
    /\ UNCHANGED <<chains, nonceVars>>
    /\ LET a == actionForStage IN
       IF maySign(a)
       THEN /\ signedRecord(a, allocated(a))
            /\ signedAt' = [signedAt EXCEPT ![a] = now]
            /\ goto("journaled") /\ UNCHANGED holder
       ELSE /\ refuse /\ free /\ UNCHANGED <<stage, record, signedAt>>

recordWalletNonceSigned ==
    /\ \/ pc = "journaled"
       \/ pc = "reserved" /\ ~slotOpen
    /\ LET a == actionForStage IN
       \/ recordSigned(a, record[a]) /\ goto("recorded") /\ UNCHANGED holder
       \/ ~activeRow(a, record[a]) /\ refuse /\ free /\ UNCHANGED nonceVars
    /\ UNCHANGED <<stage, record, chains, signedAt>>

\* walletNonceBroadcastDecisionLocked, and broadcastL1 when it says so.
broadcast ==
    /\ pc = "recorded"
    /\ LET a == actionForStage
           n == record[a]
       IN \/ /\ onWire(a, n)
             /\ goto("sent") /\ UNCHANGED <<pool, holder, nonceVars>>
          \/ \E pending \in accountNonce .. pendingNonce :
             /\ onWire(a, n) => PrimaryLags
             /\ IF advanced(n, final, pending)
                THEN fence(a, n) /\ refuse /\ free /\ UNCHANGED pool
                ELSE /\ pool' = pool \cup {Transaction(a, n)}
                     /\ goto("sent") /\ UNCHANGED <<holder, nonceVars>>
    /\ UNCHANGED <<stage, record, l1, final, l2Vars, now, faults, reorgs, signedAt>>

recordWalletNonceBroadcast ==
    /\ pc = "sent"
    /\ recordBroadcast(actionForStage, record[actionForStage])
    /\ goto("marked")
    /\ UNCHANGED <<stage, record, holder, chains, signedAt>>

persistBroadcast ==
    /\ pc = "marked"
    /\ stage' = broadcastStage(actionForStage) /\ free /\ goto("reconcile")
    /\ UNCHANGED <<record, nonceVars, chains, signedAt>>

\* Mutant: one receipt is enough, final or not.
receiptFinalAtOnce(n) == TRUE
receiptFinal(n) == n < final

reconcileL1 ==
    /\ pc = "reconcile"
    /\ LET a == actionForStage
           n == record[a]
       IN IF ~onL1(a, n) THEN awaiting /\ UNCHANGED stage
          ELSE IF ~l1[n + 1].ok THEN refuse /\ UNCHANGED stage
          ELSE IF ~receiptFinal(n) THEN awaiting /\ UNCHANGED stage
          ELSE stage' = l1FinalStage(a) /\ goto("observe")
    /\ UNCHANGED <<record, holder, nonceVars, chains, signedAt>>

observe ==
    /\ pc = "observe"
    /\ LET a == actionForStage
           seen == IF a = "policy" THEN observePolicy ELSE observeChallenge
       IN CASE seen = "pending" -> awaiting /\ UNCHANGED stage
            [] seen = "conflict" -> refuse /\ UNCHANGED stage
            [] seen = "confirmed" ->
                 /\ stage' = l2ConfirmedStage(a)
                 /\ IF a = "challenge" THEN exitComplete ELSE awaiting
    /\ UNCHANGED <<record, holder, nonceVars, chains, signedAt>>

\* A call to a provider fails while the step is under way.
rpcFails ==
    /\ pc \in {"idle", "lock", "reserved", "recorded", "reconcile", "observe"} /\ sup = "running"
    /\ faults < MaxFaults /\ faults' = faults + 1
    /\ rpcUnavailable /\ holder' = IF holder = "fallback" THEN None ELSE holder
    /\ UNCHANGED <<stage, record, nonceVars, l1Vars, l2Vars, now, reorgs, signedAt>>

\* The child dies or overruns its step; its locks are reclaimed.
crash ==
    /\ pc # "idle" /\ faults < MaxFaults /\ faults' = faults + 1
    /\ pc' = "idle" /\ supervisorFails
    /\ holder' = IF holder = "fallback" THEN None ELSE holder
    /\ UNCHANGED <<stage, record, nonceVars, l1Vars, l2Vars, now, reorgs, signedAt>>

-----------------------------------------------------------------------------
(* Another board's run of the same operator, under the same wallet lock.    *)
Others == Actions \ Kinds
otherRun(b) ==
    /\ holder = None /\ rowsOf(b) = {}
    /\ LET n == freshNonce(final, pendingNonce)
       IN /\ allocations' = allocations \cup {[action_id |-> b, nonce |-> n, state |-> "broadcast"]}
          /\ next_nonce' = maxOf(n + 1, next_nonce)
          /\ pool' = pool \cup {Transaction(b, n)}
    /\ UNCHANGED <<runVars, supVars, l1, final, l2Vars, now, faults, reorgs, signedAt>>

(* The chains.                                                              *)
rest == <<runVars, supVars, faults, signedAt, nonceVars>>

Mine ==
    /\ \E t \in pool :
         /\ t.nonce = accountNonce
         /\ l1' = Append(l1, [action |-> t.action, ok |-> (t.action \in Kinds => ~rotated), at |-> now])
         /\ pool' = pool \ {t}
    /\ UNCHANGED <<final, l2Vars, now, reorgs, rest>>

Finalize == final < Len(l1) /\ final' = final + 1 /\ UNCHANGED <<pool, l1, l2Vars, now, reorgs, rest>>

Reorg ==
    /\ final < Len(l1) /\ reorgs < MaxReorgs /\ reorgs' = reorgs + 1
    /\ l1' = SubSeq(l1, 1, final)
    /\ pool' = pool \cup {Transaction(l1[i].action, i - 1) : i \in final + 1 .. Len(l1)}
    /\ UNCHANGED <<final, l2Vars, now, rest>>

finalDeposit(a) == \E i \in 1 .. final : l1[i].action = a /\ l1[i].ok
includedAt(a) == l1[CHOOSE i \in 1 .. final : l1[i].action = a].at

\* P42AgentWallet and P42ChallengeManager run a deposit once.
executeDeposit(a) ==
    /\ finalDeposit(a) /\ l2[a] = None
    /\ IF a = "policy"
       THEN /\ policy' = "ours" /\ l2' = [l2 EXCEPT ![a] = "done"] /\ UNCHANGED <<slot, challenged>>
       ELSE IF policy = "ours" /\ slot = "none" /\ now <= Deadline
            THEN /\ policy' = "used" /\ slot' = "forced" /\ challenged' = challenged \cup {"forced"}
                 /\ l2' = [l2 EXCEPT ![a] = "done"]
            ELSE l2' = [l2 EXCEPT ![a] = "reverted"] /\ UNCHANGED <<policy, slot, challenged>>
    /\ UNCHANGED <<rotated, l1Vars, now, reorgs, rest>>

\* The owner replaces the policy; the wallet's session key challenges through it;
\* somebody else challenges; the dispute is settled; the guardian acts.
interferes(what) == what \in Interference /\ UNCHANGED <<l1Vars, now, reorgs, rest>>
OverwritePolicy == interferes("overwrite") /\ policy # "other" /\ policy' = "other"
                   /\ UNCHANGED <<l2, slot, challenged, rotated>>
SessionChallenge == interferes("session") /\ policy = "ours" /\ slot = "none" /\ now <= Deadline
                    /\ policy' = "used" /\ slot' = "plain" /\ challenged' = challenged \cup {"plain"}
                    /\ UNCHANGED <<l2, rotated>>
OtherChallenge == interferes("other") /\ slot = "none" /\ now <= Deadline /\ challenged = {}
                  /\ slot' = "other" /\ UNCHANGED <<l2, policy, challenged, rotated>>
Settle == interferes("settle") /\ slot # "none" /\ slot' = "none" /\ UNCHANGED <<l2, policy, challenged, rotated>>
RotateOperator == interferes("rotate") /\ ~rotated /\ rotated' = TRUE /\ UNCHANGED <<l2, policy, slot, challenged>>

\* The sequencer may hold a deposit back for Window and no longer; after the
\* start-limit interval systemd forgets old starts.
Tick ==
    /\ now < MaxTime
    /\ \A a \in Kinds : finalDeposit(a) /\ l2[a] = None => now < includedAt(a) + Window
    /\ now' = now + 1 /\ starts' = IF sup = "running" THEN 1 ELSE starts
    /\ UNCHANGED <<runVars, sup, rpcFailures, alerts, l1Vars, l2Vars, faults, reorgs, signedAt, nonceVars>>

step == start \/ reserve \/ signAndJournal \/ recordWalletNonceSigned \/ broadcast
        \/ recordWalletNonceBroadcast \/ persistBroadcast \/ reconcileL1 \/ observe

environment ==
    \/ rpcFails \/ crash
    \/ \E b \in Others : otherRun(b)
    \/ Mine \/ Finalize \/ Reorg \/ Tick
    \/ \E a \in Kinds : executeDeposit(a)
    \/ OverwritePolicy \/ SessionChallenge \/ OtherChallenge \/ Settle \/ RotateOperator

Next == step \/ environment

Spec == Init /\ [][Next]_vars

(* The supervisor keeps running steps; the chains mine and finalize what    *)
(* they are given and L2 executes the deposits.                             *)
FairSpec == /\ Spec /\ WF_vars(step) /\ WF_vars(Mine) /\ WF_vars(Finalize)
            /\ \A a \in Kinds : WF_vars(executeDeposit(a))

-----------------------------------------------------------------------------
\* The journal, the allocator, the supervisor and the chains have their types.
TypeOK ==
    /\ stage \in 0 .. complete /\ record \in [Kinds -> 0 .. next_nonce \cup {None}]
    /\ allocations \subseteq [action_id : Actions, nonce : 0 .. next_nonce, state : States]
    /\ validateJournal(allocations, next_nonce)
    /\ validState
    /\ sup \in {"running", "complete", "refused", "failed"} /\ alerts \in 0 .. 1
    /\ pool \subseteq [action : Actions, nonce : 0 .. next_nonce] /\ final <= Len(l1)

\* What is on the wire is in the journal: a restart after a crash at any point
\* sends the bytes that are out already, and no action has two transactions.
OneTransactionPerAction ==
    \A a \in Kinds : \A n \in 0 .. next_nonce : onWire(a, n) => record[a] = n

\* Runs of several boards under one operator never sign at one nonce.
NoncesNeverShared ==
    /\ \A t, u \in pool : t.nonce = u.nonce => t = u
    /\ \A t \in pool : t.nonce >= Len(l1)
    /\ \A a \in Kinds : \A x \in allocations :
         record[a] # None /\ x.nonce = record[a] => x.action_id = a

\* The bond is not deposited before the policy stands on finalized L2, and the
\* journal is never ahead of the chains.
EvidenceBeforeProgress ==
    /\ record["challenge"] # None => l2["policy"] = "done"
    /\ \A a \in Kinds :
         /\ stage >= l1FinalStage(a) => finalDeposit(a)
         /\ stage >= l2ConfirmedStage(a) => l2[a] = "done"

\* A run that reports completion forced the challenge itself, and a later
\* settlement of the dispute does not take that away: the independent verifier
\* agrees as long as the controller keeps its operator.
CompletionIsProvable == stage = complete /\ bindingsOK => verifyCompletedFallbackRun

\* Bytes are journaled only while the deposit can still land in time: a deposit
\* that goes out at once and is mined within Safety runs before the deadline.
SignedInTime ==
    \A a \in Kinds : signedAt[a] # None => signedAt[a] + requiredSeconds(a) <= Deadline

\* A policy that took no more than its window leaves room for the second deposit.
SecondDepositFits ==
    (/\ stage = l2ConfirmedStage("policy") /\ record["challenge"] = None
     /\ now <= signedAt["policy"] + Window) => deadlineOK("challenge")

\* Only faults end a run early: an unfinished run that has failed met at least
\* one crash, or a full series of RPC failures, for each of its starts.
WaitingIsFree == sup = "failed" => faults >= MaxStarts

\* The allocator never gives up a transaction of ours that is on L1.
OwnTransactionNeverFenced ==
    \A x \in allocations : x.state = "fenced" => ~onWire(x.action_id, x.nonce)

\* A forced challenge that stands is recorded and reported.
ForcedChallengeReported ==
    (slot = "forced" /\ sup = "running") ~> (sup # "running" \/ slot # "forced")
=============================================================================
