--------------------------- MODULE SignedDeployment ---------------------------
(***************************************************************************)
(* The signed deployment journal (contracts/scripts/                       *)
(* signed-deployment-journal.js) and the runners that execute it           *)
(* (executeSignedDeploymentPlan in deploy-base-sepolia.js).  A plan fixes  *)
(* one nonce per step.  A runner signs a step, journals the bytes, sends   *)
(* them, and journals the inclusion; each look at the chain is taken under *)
(* a lock that is never reclaimed.  Signing and journaling are outside     *)
(* that lock.  A step's nonce is its index; a transaction is <<step, k>>,  *)
(* k being the number of the signature, because two signatures of one step *)
(* carry different fees and have different hashes.                         *)
(***************************************************************************)
EXTENDS Integers, Sequences, FiniteSets

CONSTANTS Runners,        \* processes running the deploy command
          StepCount,      \* deployments in the plan
          GateStep,       \* the first challenge-manager deployment
          Confirmations,  \* config.finalityPolicy.confirmations
          PauseInUpdate,  \* may a process stand still between reading and
                          \* replacing the journal file?
          ReorgDepth,     \* the deepest block a reorganization replaces
          Strangers,      \* does the deployer account send anything else?
          MaxSignatures, MaxFaults, MaxReorgs, None

VARIABLES journal,    \* the journal file; ver is its inode, 0 before it exists
          lock,       \* None, the runner holding it, or "abandoned"
          entries,    \* the deployments of the manifest reservation
          gate,       \* has the governance phase been executed?
          chain,      \* the account's transactions by nonce
          mempool,
          sent,       \* every transaction ever handed to a provider
          run,        \* the runners
          signatures, faults, reorgs

fileVars == <<journal, lock, entries>>
chainVars == <<chain, mempool, sent, gate>>
vars == <<fileVars, chainVars, run, signatures, faults, reorgs>>

Steps == 1..StepCount
Transactions == Steps \X (1..MaxSignatures)
stranger == <<0, 0>>
STATES == [planned |-> 0, signed |-> 1, broadcast |-> 2, mined |-> 3]
STEP == [state |-> "planned", raw |-> None, block |-> None]
idle == [pc |-> "idle", i |-> 1, raw |-> None, snap |-> None, pin |-> 0,
         block |-> None, to |-> None, second |-> FALSE]

Init ==
  /\ journal = [ver |-> 0, steps |-> [i \in Steps |-> STEP]]
  /\ lock = None
  /\ entries = [i \in Steps |-> [state |-> "absent", raw |-> None]]
  /\ gate = FALSE
  /\ chain = <<>> /\ mempool = {} /\ sent = {}
  /\ run = [r \in Runners |-> idle]
  /\ signatures = 0 /\ faults = 0 /\ reorgs = 0

-----------------------------------------------------------------------------
(* What a provider answers. *)
onChain(t) == \E n \in 1..Len(chain) : chain[n].tx = t
receipt(t) == chain[CHOOSE n \in 1..Len(chain) : chain[n].tx = t]
confirmed(t) == onChain(t) /\ receipt(t).depth >= Confirmations
latestNonce == Len(chain)                            \* nonces 1..latestNonce used
pendingNonce == CHOOSE n \in Len(chain)..StepCount :
                  /\ \A j \in Len(chain)+1..n : \E t \in mempool : t[1] = j
                  /\ ~\E t \in mempool : t[1] = n + 1

-----------------------------------------------------------------------------
(* Journal updates.  `advance` is the new step, None where the update throws. *)
sameEvidence(step, to, raw, block) ==
  CASE to = "signed" -> step.raw = raw
    [] to = "mined" -> step.block = block
    [] OTHER -> TRUE
advanceUnchecked(step, to, raw, block) ==
  IF to = "signed" THEN [step EXCEPT !.state = to, !.raw = raw]
  ELSE IF to = "mined" THEN [step EXCEPT !.state = to, !.block = block]
  ELSE [step EXCEPT !.state = to]
advance(step, to, raw, block) ==
  CASE STATES[to] < STATES[step.state] -> None
    [] STATES[to] > STATES[step.state] + 1 -> None
    [] STATES[to] = STATES[step.state] -> IF sameEvidence(step, to, raw, block) THEN step ELSE None
    [] to = "signed" -> [step EXCEPT !.state = to, !.raw = raw]
    [] to = "mined" -> [step EXCEPT !.state = to, !.block = block]
    [] OTHER -> [step EXCEPT !.state = to]
transition(j, i, to, raw, block) ==
  LET step == advance(j.steps[i], to, raw, block) IN
    CASE step = None -> None
      [] step = j.steps[i] -> j
      [] OTHER -> [j EXCEPT !.steps[i] = step]
(* A step found on chain while still "signed" is first marked as broadcast. *)
recordMinedAtOnce(j, i, block) == transition(j, i, "mined", None, block)
recordDeploymentMined(j, i, block) ==
  IF j.steps[i].state = "signed"
  THEN transition(transition(j, i, "broadcast", None, None), i, "mined", None, block)
  ELSE transition(j, i, "mined", None, block)
updated(j, me) == IF me.to = "mined" THEN recordDeploymentMined(j, me.i, me.block)
                  ELSE transition(j, me.i, me.to, me.raw, None)
written(j) == [j EXCEPT !.ver = journal.ver + 1]

(* The reservation's entry for a step (mergeDeployment). *)
mergeDeployment(old, state, raw) ==
  IF (old.state # "absent" /\ old.raw # raw) \/ (old.state = "mined" /\ state # "mined")
  THEN None ELSE [state |-> state, raw |-> raw]

-----------------------------------------------------------------------------
(* A runner that throws leaves through its finally blocks; one that dies    *)
(* leaves its lock.                                                         *)
released(r) == IF lock = r THEN None ELSE lock
fail(r) == /\ run' = [run EXCEPT ![r] = idle]
           /\ lock' = released(r)
           /\ UNCHANGED <<journal, entries, chainVars, signatures>>
goto(r, pc) == run' = [run EXCEPT ![r].pc = pc]

reserveDeploymentNoncePlan(r) ==
  /\ run[r].pc = "idle"
  /\ journal.ver # 0 \/ (chain = <<>> /\ mempool = {})
  /\ journal' = IF journal.ver = 0 THEN [journal EXCEPT !.ver = 1] ELSE journal
  /\ goto(r, "enter")
  /\ UNCHANGED <<lock, entries, chainVars, signatures, faults, reorgs>>

(* beforeStep, then the first look at the step's journaled state. *)
gateClosed(i) == i = GateStep /\ ~gate
enterStep(r) ==
  LET i == run[r].i IN
  /\ run[r].pc = "enter"
  /\ IF gateClosed(i) THEN fail(r)
     ELSE /\ goto(r, IF journal.steps[i].state = "planned" THEN "sign" ELSE "acquire")
          /\ UNCHANGED <<fileVars, chainVars, signatures>>
  /\ UNCHANGED <<faults, reorgs>>

signTransaction(r) ==
  /\ run[r].pc = "sign"
  /\ signatures < MaxSignatures
  /\ signatures' = signatures + 1
  /\ run' = [run EXCEPT ![r].raw = <<run[r].i, signatures + 1>>, ![r].to = "signed", ![r].pc = "update"]
  /\ UNCHANGED <<fileVars, chainVars, faults, reorgs>>

(* Where a runner goes once an update is on disk. *)
afterUpdate(me) == CASE me.to = "signed" -> "acquire"
                     [] me.to = "mined" -> "finish"
                     [] me.second -> "throw"
                     [] OTHER -> "progress"
pinned(me) == me.to = "signed" \/ journal.ver = me.pin
store(r, j) ==
  /\ journal' = IF j.steps = journal.steps /\ j.ver = journal.ver THEN journal ELSE written(j)
  /\ lock' = released(r)
  /\ run' = [run EXCEPT ![r].pc = afterUpdate(run[r]), ![r].snap = None, ![r].pin = 0]
(* persistSignedDeployment, recordDeploymentBroadcast and                  *)
(* recordDeploymentMined: read, check, replace the file, release the lock. *)
update(r) ==
  LET me == run[r]  j == updated(journal, me) IN
  /\ me.pc = "update"
  /\ IF ~pinned(me) \/ j = None THEN fail(r)
     ELSE /\ IF PauseInUpdate
             THEN run' = [run EXCEPT ![r].snap = j, ![r].pc = "replace"] /\ UNCHANGED <<journal, lock>>
             ELSE store(r, j)
          /\ UNCHANGED <<entries, chainVars, signatures>>
  /\ UNCHANGED <<faults, reorgs>>
durableWrite(r) ==
  /\ run[r].pc = "replace"
  /\ store(r, run[r].snap)
  /\ UNCHANGED <<entries, chainVars, signatures, faults, reorgs>>

(* withDurableJournalLock: mkdir, or refuse. *)
withDurableJournalLock(r) ==
  /\ run[r].pc = "acquire"
  /\ IF lock = None
     THEN lock' = r /\ goto(r, "read") /\ UNCHANGED <<journal, entries, chainVars, signatures>>
     ELSE fail(r)
  /\ UNCHANGED <<faults, reorgs>>

(* reconcileLocked: the journal is read and its inode pinned. *)
reconcileLocked(r) ==
  LET step == journal.steps[run[r].i] IN
  /\ run[r].pc = "read"
  /\ IF step.state = "planned" THEN fail(r)
     ELSE /\ run' = [run EXCEPT ![r].raw = step.raw, ![r].pin = journal.ver, ![r].pc = "query"]
          /\ UNCHANGED <<fileVars, chainVars, signatures>>
  /\ UNCHANGED <<faults, reorgs>>

known(t) == t \in mempool
nonceDrift(i) == latestNonce >= i \/ pendingNonce >= i
(* The answers of both providers to getTransactionReceipt, getTransaction   *)
(* and getTransactionCount.                                                 *)
query(r) ==
  LET me == run[r]  t == me.raw IN
  /\ me.pc = "query"
  /\ IF \/ journal.ver # me.pin
        \/ onChain(t) /\ ~confirmed(t)
        \/ ~onChain(t) /\ ~known(t) /\ nonceDrift(me.i)
        \/ ~onChain(t) /\ ~known(t) /\ me.second
     THEN fail(r)
     ELSE /\ run' = [run EXCEPT
               ![r].pc = IF onChain(t) THEN "recheck"
                         ELSE IF ~known(t) THEN "send"
                         ELSE IF journal.steps[me.i].state = "signed" THEN "update" ELSE "pending",
               ![r].block = IF onChain(t) THEN receipt(t).block ELSE None,
               ![r].to = IF onChain(t) THEN "mined" ELSE "broadcast"]
          /\ UNCHANGED <<fileVars, chainVars, signatures>>
  /\ UNCHANGED <<faults, reorgs>>

(* The receipts are read again after the heads. *)
stillThere(me) == confirmed(me.raw) /\ receipt(me.raw).block = me.block
recheck(r) ==
  /\ run[r].pc = "recheck"
  /\ IF ~stillThere(run[r]) THEN fail(r)
     ELSE goto(r, "update") /\ UNCHANGED <<fileVars, chainVars, signatures>>
  /\ UNCHANGED <<faults, reorgs>>

broadcastTransaction(r) ==
  LET t == run[r].raw IN
  /\ run[r].pc = "send"
  /\ journal.ver = run[r].pin
  /\ mempool' = IF latestNonce >= t[1] \/ \E u \in mempool : u[1] = t[1] THEN mempool ELSE mempool \cup {t}
  /\ sent' = sent \cup {t}
  /\ goto(r, "update")
  /\ UNCHANGED <<fileVars, chain, gate, signatures, faults, reorgs>>
drifted(r) == /\ run[r].pc = "send" /\ journal.ver # run[r].pin /\ fail(r)
              /\ UNCHANGED <<faults, reorgs>>

(* A pending transaction whose broadcast is already journaled. *)
foundPending(r) ==
  LET me == run[r] IN
  /\ me.pc = "pending"
  /\ lock' = released(r)
  /\ goto(r, afterUpdate(me))
  /\ UNCHANGED <<journal, entries, chainVars, signatures, faults, reorgs>>
notMined(r) == run[r].pc = "throw" /\ fail(r) /\ UNCHANGED <<faults, reorgs>>

(* recordProgress: the reservation learns of the broadcast, then of the     *)
(* inclusion.                                                               *)
recordProgress(r, from, state, to) ==
  LET me == run[r]  e == mergeDeployment(entries[me.i], state, me.raw) IN
  /\ me.pc = from
  /\ IF e = None THEN fail(r)
     ELSE /\ entries' = [entries EXCEPT ![me.i] = e]
          /\ run' = [run EXCEPT ![r] = to]
          /\ UNCHANGED <<journal, lock, chainVars, signatures>>
  /\ UNCHANGED <<faults, reorgs>>
nextStep(me) == IF me.i = StepCount THEN [idle EXCEPT !.pc = "done"]
                ELSE [idle EXCEPT !.pc = "enter", !.i = me.i + 1]
progressBroadcast(r) == recordProgress(r, "progress", "broadcast", [run[r] EXCEPT !.pc = "wait"])
progressMined(r) == recordProgress(r, "finish", "mined", nextStep(run[r]))
waitForTransaction(r) ==
  /\ run[r].pc = "wait" /\ confirmed(run[r].raw)
  /\ run' = [run EXCEPT ![r].pc = "acquire", ![r].second = TRUE]
  /\ UNCHANGED <<fileVars, chainVars, signatures, faults, reorgs>>

-----------------------------------------------------------------------------
working(r) == run[r].pc \notin {"idle", "done"}
(* A provider fails, lags or disagrees: the runner throws. *)
rpcFails(r) == /\ run[r].pc \in {"sign", "query", "recheck", "send", "wait", "finish"}
               /\ faults < MaxFaults /\ faults' = faults + 1
               /\ fail(r) /\ UNCHANGED reorgs
(* The broadcast arrived and its answer did not. *)
answerLost(r) == /\ run[r].pc = "send" /\ journal.ver = run[r].pin
                 /\ faults < MaxFaults /\ faults' = faults + 1
                 /\ sent' = sent \cup {run[r].raw}
                 /\ mempool' = IF latestNonce >= run[r].i THEN mempool ELSE mempool \cup {run[r].raw}
                 /\ run' = [run EXCEPT ![r] = idle] /\ lock' = released(r)
                 /\ UNCHANGED <<journal, entries, chain, gate, signatures, reorgs>>
crash(r) == /\ working(r)
            /\ faults < MaxFaults /\ faults' = faults + 1
            /\ run' = [run EXCEPT ![r] = idle]
            /\ lock' = IF lock = r THEN "abandoned" ELSE lock
            /\ UNCHANGED <<journal, entries, chainVars, signatures, reorgs>>
(* waitForTransaction has no timeout: only somebody who stops the runner    *)
(* gets a transaction that vanished sent again.                             *)
interrupt(r) == /\ run[r].pc = "wait" /\ ~onChain(run[r].raw) /\ run[r].raw \notin mempool
                /\ fail(r) /\ UNCHANGED <<faults, reorgs>>
(* Explicit operator recovery, with every runner stopped. *)
removeAbandonedLock == /\ lock = "abandoned" /\ \A r \in Runners : ~working(r)
                       /\ lock' = None
                       /\ UNCHANGED <<journal, entries, chainVars, run, signatures, faults, reorgs>>

buried == [n \in 1..Len(chain) |->
             [chain[n] EXCEPT !.depth = IF @ < Confirmations THEN @ + 1 ELSE @]]
included(t) == /\ chain' = Append(buried, [tx |-> t, block |-> reorgs, depth |-> 1])
               /\ mempool' = {u \in mempool : u[1] # Len(chain) + 1}
               /\ UNCHANGED <<fileVars, sent, gate, run, signatures, faults, reorgs>>
Mine == \E t \in mempool : t[1] = Len(chain) + 1 /\ included(t)
StrangerMined == Strangers /\ journal.ver # 0 /\ Len(chain) < StepCount
                 /\ (\A n \in 1..Len(chain) : chain[n].tx # stranger) /\ included(stranger)
EmptyBlock == /\ buried # chain /\ chain' = buried
              /\ UNCHANGED <<fileVars, mempool, sent, gate, run, signatures, faults, reorgs>>
(* A recent block is replaced; its transaction may or may not survive *)
(* in the mempool.                                                          *)
Reorg == /\ reorgs < MaxReorgs /\ chain # <<>> /\ chain[Len(chain)].depth <= ReorgDepth
         /\ reorgs' = reorgs + 1
         /\ chain' = SubSeq(chain, 1, Len(chain) - 1)
         /\ \E keep \in BOOLEAN :
              mempool' = IF keep /\ chain[Len(chain)].tx # stranger
                         THEN mempool \cup {chain[Len(chain)].tx} ELSE mempool
         /\ UNCHANGED <<fileVars, sent, gate, run, signatures, faults>>
Drop == /\ faults < MaxFaults /\ faults' = faults + 1
        /\ \E t \in mempool : mempool' = mempool \ {t}
        /\ UNCHANGED <<fileVars, chain, sent, gate, run, signatures, reorgs>>
OpenGate == ~gate /\ gate' = TRUE /\ UNCHANGED <<fileVars, chain, mempool, sent, run, signatures, faults, reorgs>>

step(r) == \/ enterStep(r) \/ signTransaction(r) \/ update(r) \/ durableWrite(r)
           \/ withDurableJournalLock(r) \/ reconcileLocked(r) \/ query(r) \/ recheck(r)
           \/ broadcastTransaction(r) \/ drifted(r) \/ foundPending(r) \/ notMined(r)
           \/ progressBroadcast(r) \/ waitForTransaction(r) \/ progressMined(r)
Next == \/ \E r \in Runners : \/ reserveDeploymentNoncePlan(r) \/ step(r)
                              \/ rpcFails(r) \/ answerLost(r) \/ crash(r) \/ interrupt(r)
        \/ removeAbandonedLock
        \/ Mine \/ StrangerMined \/ EmptyBlock \/ Reorg \/ Drop \/ OpenGate

Spec == Init /\ [][Next]_vars
(* Blocks keep coming, the governance phase is executed in the end, and the *)
(* command is run again as long as it has not finished.                     *)
RunnersFair == /\ Spec /\ WF_vars(Mine) /\ WF_vars(EmptyBlock) /\ WF_vars(OpenGate)
               /\ \A r \in Runners : WF_vars(reserveDeploymentNoncePlan(r)) /\ WF_vars(step(r))
(* Somebody removes abandoned locks and stops runners that wait in vain.    *)
FairSpec == /\ RunnersFair /\ SF_vars(removeAbandonedLock)
            /\ \A r \in Runners : WF_vars(interrupt(r))

-----------------------------------------------------------------------------
(* The files, the chain and the runners hold values of their kinds. *)
TypeOK ==
  /\ journal.ver \in Nat
  /\ \A i \in Steps : /\ journal.steps[i].state \in DOMAIN STATES
                      /\ journal.steps[i].raw \in Transactions \cup {None}
                      /\ (journal.steps[i].raw = None) <=> (journal.steps[i].state = "planned")
                      /\ entries[i].state \in {"absent", "broadcast", "mined"}
  /\ lock \in Runners \cup {None, "abandoned"}
  /\ mempool \subseteq Transactions /\ sent \subseteq Transactions
  /\ Len(chain) \in 0..StepCount
  /\ \A r \in Runners : run[r].i \in Steps

(* Whatever was handed to a provider is what the journal holds for that     *)
(* nonce: a restart can only send the same bytes again, and no two signed   *)
(* transactions compete for one nonce (persistSignedDeployment before       *)
(* broadcastTransaction).                                                   *)
WireMatchesJournal == \A t \in sent : journal.steps[t[1]].raw = t

(* No runner issues a transaction that competes with another one's.         *)
NoCompetingTransaction == \A t, u \in sent : t[1] = u[1] => t = u

(* A step is journaled as mined only with the inclusion that stands, as     *)
(* long as no confirmed block is replaced (the second look at both          *)
(* receipts in reconcileLocked).                                            *)
MinedEvidenceStands ==
  \A i \in Steps : journal.steps[i].state = "mined" =>
    /\ Len(chain) >= i
    /\ chain[i].tx = journal.steps[i].raw /\ chain[i].block = journal.steps[i].block

(* Nothing is signed before everything before it is mined                   *)
(* (runPhasedDeploymentSteps, two runners taking turns).                    *)
OrderedDeployment ==
  \A i \in Steps : journal.steps[i].state # "planned" =>
    \A j \in 1..i-1 : journal.steps[j].state = "mined"

(* No challenge manager is sent before governance has executed its phase,   *)
(* even when two runners overwrite each other's journal and a confirmed     *)
(* block is replaced (beforeStep at the first challenge-manager index).     *)
GateRespected == \A t \in sent : t[1] >= GateStep => gate

(* The reservation never runs ahead of the journal, nor names another       *)
(* transaction than the one on the wire (recordProgress after each          *)
(* reconciliation).                                                         *)
ReservationFollowsJournal ==
  \A i \in Steps : entries[i].state # "absent" =>
    /\ entries[i].raw = journal.steps[i].raw /\ entries[i].raw \in sent
    /\ entries[i].state = "mined" => journal.steps[i].state = "mined"

(* Crashes, lost answers, dropped transactions and shallow reorganizations  *)
(* never end the ceremony: rerun, it deploys the whole plan.                *)
DeploymentCompletes == <>(\E r \in Runners : run[r].pc = "done")

(* The lock of a runner that died is reclaimed.                             *)
AbandonedLockReclaimed == (lock = "abandoned") ~> (lock # "abandoned")
=============================================================================
