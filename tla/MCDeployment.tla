---------------------------- MODULE MCDeployment -----------------------------
(****************************************************************************)
(* Deployment for TLC: the ceremony around the manifest                     *)
(* (DeploymentCeremony), the signed deployment journal under it             *)
(* (SignedDeployment, in three settings), and the dual-RPC monitor of what  *)
(* was deployed (ChainMonitor). A behaviour runs one part, chosen in the    *)
(* initial state; the parts share no variable, so the others stay where     *)
(* they start.                                                              *)
(****************************************************************************)
EXTENDS DeploymentCeremony, TLC

CONSTANTS Parts, d1, d2, r1, r2

VARIABLES part,  \* the part this behaviour runs
    \* SignedDeployment
    journal, lock, entries, gate, chain, mempool, sent, run, signatures, faults, reorgs,
    \* ChainMonitor
    view, fin, monitorHead, flips, pc, cur, tip, tophead, anchor, recon, report

\* One runner, with a foreign transaction on the account and updates that pause.
Single == INSTANCE SignedDeployment WITH
    StepCount <- 3, GateStep <- 2, Confirmations <- 2, ReorgDepth <- 1, MaxFaults <- 2,
    MaxReorgs <- 1, Runners <- {r1}, PauseInUpdate <- TRUE, Strangers <- TRUE,
    MaxSignatures <- 4

\* One runner that is started again until it is done.
Rerun == INSTANCE SignedDeployment WITH
    StepCount <- 3, GateStep <- 2, Confirmations <- 2, ReorgDepth <- 1, MaxFaults <- 2,
    MaxReorgs <- 1, Runners <- {r1}, PauseInUpdate <- FALSE, Strangers <- FALSE,
    MaxSignatures <- 5

\* Two runners of one plan.
Pair == INSTANCE SignedDeployment WITH
    StepCount <- 2, GateStep <- 2, Confirmations <- 2, ReorgDepth <- 1, MaxFaults <- 1,
    MaxReorgs <- 1, Runners <- {r1, r2}, PauseInUpdate <- FALSE, Strangers <- FALSE,
    MaxSignatures <- 3

Monitor == INSTANCE ChainMonitor WITH
    MaxHeight <- 3, ForkHeight <- 2, StartBlock <- 1, MaxLag <- 1, Honest <- {"secondary"},
    FlipBound <- 2, head <- monitorHead

ASSUME PartsAssumption == Monitor!MonitorAssumption

monitorVariables == <<view, fin, monitorHead, flips, pc, cur, tip, tophead, anchor, recon,
                      report>>
journalVariables == <<journal, lock, entries, gate, chain, mempool, sent, run, signatures,
                      faults, reorgs>>
allVars == <<part, vars, journalVariables, monitorVariables>>

MCInit ==
    /\ part \in Parts
    /\ Init
    /\ CASE part = "rerun" -> Rerun!Init [] part = "pair" -> Pair!Init [] OTHER -> Single!Init
    /\ Monitor!Init
    \* A part that does not run has one initial state.
    /\ part # "monitor" => \A n \in Monitor!Nodes : fin[n] = 1

deploymentNext ==
    \/ part = "ceremony" /\ Next /\ UNCHANGED journalVariables
    \/ part = "single" /\ Single!Next /\ UNCHANGED vars
    \/ part = "rerun" /\ Rerun!Next /\ UNCHANGED vars
    \/ part = "pair" /\ Pair!Next /\ UNCHANGED vars

MCNext ==
    \/ deploymentNext /\ UNCHANGED <<part, monitorVariables>>
    \/ part = "monitor" /\ Monitor!Next /\ UNCHANGED <<part, vars, journalVariables>>

MCSpec == MCInit /\ [][MCNext]_allVars

\* Blocks keep coming, governance executes its phase, the command is run again as long as
\* it has not finished, and somebody removes an abandoned lock and stops a runner that
\* waits in vain.
MCFairSpec ==
    /\ MCSpec
    /\ WF_journalVariables(part = "rerun" /\ Rerun!Mine)
    /\ WF_journalVariables(part = "rerun" /\ Rerun!EmptyBlock)
    /\ WF_journalVariables(part = "rerun" /\ Rerun!OpenGate)
    /\ WF_journalVariables(part = "rerun" /\ Rerun!reserveDeploymentNoncePlan(r1))
    /\ WF_journalVariables(part = "rerun" /\ Rerun!step(r1))
    /\ WF_journalVariables(part = "rerun" /\ Rerun!interrupt(r1))
    /\ SF_journalVariables(part = "rerun" /\ Rerun!removeAbandonedLock)

-----------------------------------------------------------------------------
(* Whatever was handed to a provider is what the journal holds for that nonce, so a restart
   can only send the same bytes again (persistSignedDeployment before broadcastTransaction);
   and a step is journaled as mined only with the inclusion that stands, as long as no
   confirmed block is replaced (the second look at both receipts in reconcileLocked). *)
JournalTruthful ==
    /\ part = "pair" => Pair!WireMatchesJournal
    /\ part = "single" => Single!MinedEvidenceStands

(* Crashes, lost answers, dropped transactions and shallow reorganizations never end the
   deployment: rerun, it deploys the whole plan (runPhasedDeploymentSteps). *)
DeploymentCompletes == part = "rerun" => Rerun!DeploymentCompletes

(* A green report is worth one honest node: whatever the other one serves, and whenever it
   changes its mind, the anchor is a canonical block, which the honest node has finalized,
   and both reconstructions are the true state at that block (monitorDualRpcChainCore). *)
OkIsTrue == part = "monitor" => Monitor!OkIsTrue
=============================================================================
