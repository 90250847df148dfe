----------------------------- MODULE MCOperator ------------------------------
(****************************************************************************)
(* The agents for TLC: the owner lock (OwnerLock), challenges from the      *)
(* envelope to the final receipt (OperatorActions, in two settings), the    *)
(* ingestion of events and payloads (OperatorIngestion), the runtime        *)
(* supervisor (RuntimeSupervisor) and the censorship fallback               *)
(* (CensorshipFallback). A behaviour runs one part, chosen in the initial   *)
(* state; the parts share no variable, so the others stay where they start. *)
(****************************************************************************)
EXTENDS OwnerLock, RuntimeSupervisor, OperatorActions, TLC

CONSTANTS Parts, h1, p1, p2, p3, c1, c2, b1, b2, s1, IngestionFaults, Interference

VARIABLES part,  \* the part this behaviour runs
    \* OperatorIngestion
    chain, reorgs, faults, ingestionFailures, op, cursor, backfill, specs, payloads,
    refused, queue, tombstones,
    \* CensorshipFallback
    nonces, nonceFloor, stage, escape, step, holder, sup, rpcFailures, fallbackStarts,
    alerts, now, pool, l1, final, l2, policy, slot, challenged, rotated, fallbackFaults,
    fallbackReorgs, signedAt

oneHost == [p \in Pids |-> h1]
anywhere == Points \ {"dead", "idle"}

\* One board with two candidates over two UTC days, bond claims, and a primary provider that is
\* behind the other: the constants of the cfg.
oneBoard == [c \in Candidates |-> b1]

\* Two boards sign with one wallet, transactions from outside, lagging providers.
Wallet == INSTANCE OperatorActions WITH
    BoardOf <- (c1 :> b1 @@ c2 :> b2), MaxFailures <- 1, Staleness <- 1,
    PrimaryLags <- FALSE,
    AutoClaimBond <- FALSE, MaxDay <- 0, globalDay <- 2

Ingestion == INSTANCE OperatorIngestion WITH
    Submissions <- {s1}, finalityConfirmations <- 1, reorgOverlapBlocks <- 1,
    admissionLimit <- 1, Answers <- {"bytes", "retryable", "terminal"}, Window <- 2,
    MaxHead <- 3, MaxReorgs <- 1, MaxDepth <- 2, MaxFaults <- IngestionFaults,
    MaxFailures <- 0, failures <- ingestionFailures

Fallback == INSTANCE CensorshipFallback WITH
    Actions <- {"policy", "challenge", "other"}, Window <- 1, Safety <- 1, Deadline <- 4,
    AuthExpires <- 5, MaxRpcRetries <- 1, MaxStarts <- 2, MaxTime <- 4, MaxFaults <- 1,
    MaxReorgs <- 1, PrimaryLags <- FALSE, starts <- fallbackStarts, faults <- fallbackFaults,
    allocations <- nonces, next_nonce <- nonceFloor, record <- escape, pc <- step,
    reorgs <- fallbackReorgs

ASSUME PartsAssumption ==
    /\ ActionsAssumption /\ Wallet!ActionsAssumption /\ Ingestion!Depths
    /\ Fallback!FallbackAssumption

ingestionVariables == <<chain, reorgs, faults, ingestionFailures, op, cursor, backfill, specs,
                        payloads, refused, queue, tombstones>>
fallbackVariables == <<nonces, nonceFloor, stage, escape, step, holder, sup, rpcFailures,
                       fallbackStarts, alerts, now, pool, l1, final, l2, policy, slot,
                       challenged, rotated, fallbackFaults, fallbackReorgs, signedAt>>
challengerVariables == <<lockVars, operatorVars, ingestionVariables>>
unattendedVariables == <<vars, fallbackVariables>>
allVars == <<part, challengerVariables, unattendedVariables>>

MCInit ==
    /\ part \in Parts
    /\ LockInit
    /\ IF part = "wallet" THEN Wallet!OperatorInit ELSE OperatorInit
    /\ Ingestion!Init
    /\ Init
    /\ Fallback!Init

challengerNext ==
    \/ part = "lock" /\ LockNext /\ UNCHANGED <<operatorVars, ingestionVariables>>
    \/ part = "wallet" /\ Wallet!OperatorNext /\ UNCHANGED <<ingestionVariables, lockVars>>
    \/ part = "days" /\ OperatorNext /\ UNCHANGED <<ingestionVariables, lockVars>>
    \/ part = "ingestion" /\ Ingestion!Next /\ UNCHANGED <<operatorVars, lockVars>>

unattendedNext ==
    \/ part = "supervisor" /\ Next /\ UNCHANGED fallbackVariables
    \/ part = "fallback" /\ Fallback!Next /\ UNCHANGED vars

MCNext ==
    \/ challengerNext /\ UNCHANGED <<part, unattendedVariables>>
    \/ unattendedNext /\ UNCHANGED <<part, challengerVariables>>

MCSpec == MCInit /\ [][MCNext]_allVars

-----------------------------------------------------------------------------
(* A bond in flight or taken by the chain stands in the envelope, also that of an action given up
   as superseded because the primary did not show its transaction (operator.mjs). *)
InFlightCounted ==
    /\ part = "days" => InFlightIsReserved
    /\ part = "wallet" => Wallet!InFlightIsReserved

(* The cursor never passes a finalized event without its job specification or a record of
   why there is none, across reorganizations and crashes (operator.mjs). *)
ScanComplete == Ingestion!ScanComplete

(* The bond is not deposited before the policy stands on finalized L2, and the journal is
   never ahead of the chains (censorship-fallback-runtime.mjs). *)
EvidenceBeforeProgress == part = "fallback" => Fallback!EvidenceBeforeProgress
=============================================================================
