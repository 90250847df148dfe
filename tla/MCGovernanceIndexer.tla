---------------------------- MODULE MCGovernanceIndexer ----------------------------
(****************************************************************************)
(* Two sides of the boards for TLC.  Governance: the multisig timelock      *)
(* (MultisigTimelock, in three settings) and the activation of the boards   *)
(* through it (FundingActivation, with one and with two boards).  The       *)
(* indexer: the checkpoint gate of the portals (CheckpointAcceptance), the  *)
(* scan of the finalized chain (FinalizedScan) and the publication store    *)
(* (GenerationStore).  A behaviour runs one part, chosen in the initial     *)
(* state; the parts share no variable, so the others stay where they start. *)
(****************************************************************************)
EXTENDS MultisigTimelock, CheckpointAcceptance, TLC

CONSTANTS Parts, None,
          s1, s2, s3, s4, g1, g2, work, swap, warden, drop, add, raise, v1, v2, v3, trs, r1,
          p1, p2, c1, c2, f1, f2, f3, Forks, Returns

VARIABLES part,  \* the part this behaviour runs
    \* MultisigTimelock, again
    tlSigners, tlThreshold, tlGuardian, tlGovernanceEpoch, tlOps, tlCancelledFamilies, tlNow,
    tlFrames, tlExecutingOverride, tlBefore,
    \* FundingActivation
    head, final, nonces, mempool, mined, journal, artifact, run, completion, unrelated,
    reorgs, crashes,
    \* FinalizedScan
    chain, visited, scanHead, faults, scanRun, runs, checkpoint, archive, backups,
    \* GenerationStore
    storeHead, storeChain, storeReorgs, storeFaults, hit, lock, proc, generations, quarantine,
    pointer

\* The calls that the operations make.
calls == [id \in {work, swap, warden, drop, add, raise} |->
    CASE id = work -> [kind |-> "external"]
      [] id = swap -> [kind |-> "swapSigner", signer |-> s3, replacement |-> s4]
      [] id = warden -> [kind |-> "setGuardian", guardian |-> g2]
      [] id = drop -> [kind |-> "removeSigner", signer |-> s3]
      [] id = add -> [kind |-> "addSigner", signer |-> s4]
      [] id = raise -> [kind |-> "setThreshold", threshold |-> 3]]
families == [id \in {work, swap, warden, drop, add, raise} |-> id]

\* Signers are added and removed, and the threshold is raised.
Members == INSTANCE MultisigTimelock WITH
    Signers0 <- {s1, s2, s3}, Threshold0 <- 2, operationGracePeriod <- 1, MaxTime <- 2,
    MaxDepth <- 2, Ops <- {add, raise, drop}, Contested <- {}, signers <- tlSigners,
    threshold <- tlThreshold, guardian <- tlGuardian, governanceEpoch <- tlGovernanceEpoch,
    ops <- tlOps, cancelledFamilies <- tlCancelledFamilies, now <- tlNow, frames <- tlFrames,
    executingOverride <- tlExecutingOverride, before <- tlBefore

\* The call of an operation executes another operation.
Nested == INSTANCE MultisigTimelock WITH
    Signers0 <- {s1, s2, s3}, Threshold0 <- 2, operationGracePeriod <- 1, MaxTime <- 3,
    MaxDepth <- 2, Ops <- {work, warden}, Contested <- {work}, signers <- tlSigners,
    threshold <- tlThreshold, guardian <- tlGuardian, governanceEpoch <- tlGovernanceEpoch,
    ops <- tlOps, cancelledFamilies <- tlCancelledFamilies, now <- tlNow, frames <- tlFrames,
    executingOverride <- tlExecutingOverride, before <- tlBefore

\* One board through every phase, with a reorganization.
Single == INSTANCE FundingActivation WITH
    Governors <- {v1, v2, v3}, Treasury <- trs, Threshold <- 2, Delay <- 1, Grace <- 1,
    ExpiresAt <- 2, TTL <- 1, Runs <- {r1}, Active <- {trs, v1, v2}, MaxTime <- 2,
    MaxCrashes <- 1, NBoards <- 1, MaxUnrelated <- 0, MaxReorgs <- 1

\* Two boards.
Pair == INSTANCE FundingActivation WITH
    Governors <- {v1, v2, v3}, Treasury <- trs, Threshold <- 2, Delay <- 1, Grace <- 1,
    ExpiresAt <- 2, TTL <- 1, Runs <- {r1}, Active <- {trs, v1, v2}, MaxTime <- 2,
    MaxCrashes <- 1, NBoards <- 2, MaxUnrelated <- 0, MaxReorgs <- 0

\* Three forks of five blocks that place the same transactions in other blocks, or leave
\* one out.
at(tx, block) == [tx |-> tx, block |-> block]
forkedLogs ==
    [f \in {f1, f2, f3} |->
        [s \in {"shared", "b1"} |->
            CASE s = "shared" -> {at("problem", 1)}
              [] s = "b1" /\ f = f1 -> {at("commit", 2), at("reveal", 3)}
              [] s = "b1" /\ f = f2 -> {at("commit", 3), at("reveal", 4)}
              [] s = "b1" /\ f = f3 -> {at("commit", 2)}]]

\* Two identities of one chain, one of another chain, and one that would bring the first
\* chain back.
identityOf(r, a, network, config) ==
    [release |-> r, authorization |-> a, chain |-> network, config |-> config]
i1 == identityOf("r1", "a1", "base", "k1")
i2 == identityOf("r2", "a1", "base", "k1")
i3 == identityOf("r3", "a3", "other", "k3")
i4 == identityOf("r4", "a4", "base", "k4")

checkpointOf(identity, block, hash, time) ==
    [identity |-> identity, block |-> block, hash |-> hash, time |-> time, armed |-> TRUE,
     accepting |-> TRUE, closed |-> FALSE, remaining |-> 1, expiresAt |-> time]
someCheckpoints ==
    {checkpointOf(i1, 1, "x", 0), checkpointOf(i1, 1, "y", 0), checkpointOf(i1, 2, "x", 1),
     checkpointOf(i2, 1, "x", 2), checkpointOf(i2, 3, "x", 2), checkpointOf(i3, 1, "z", 3),
     checkpointOf(i4, 4, "x", 4), checkpointOf(i1, 5, "x", 4)}

Scan == INSTANCE FinalizedScan WITH
    ForkPoint <- 2, Boards <- <<"b1">>, LogsOf <- forkedLogs, Reveals <- {"reveal"},
    GoodCode <- {f1, f2, f3}, GoodConfig <- {f1, f2}, MaxHead <- 5, MaxFailures <- 1,
    MaxRuns <- 2, confirmations <- 1, startBlock <- 1, logChunkSize <- 2,
    reorgOverlapBlocks <- 1, maxRetries <- 2, maxScanRestarts <- 2, head <- scanHead,
    run <- scanRun

Store == INSTANCE GenerationStore WITH
    Procs <- {p1, p2}, Contents <- {c1, c2}, MaxHead <- 2, MaxReorgs <- 1, MaxFaults <- 2,
    MaxDamage <- 1, maxConsecutiveFailures <- 2, head <- storeHead, chain <- storeChain,
    faults <- storeFaults, reorgs <- storeReorgs

ASSUME PartsAssumption ==
    /\ Members!TimelockAssumption /\ Nested!TimelockAssumption
    /\ Single!ActivationAssumption /\ Pair!ActivationAssumption
    /\ Scan!FinalityPolicy /\ Store!Budget

otherTimelock == <<tlSigners, tlThreshold, tlGuardian, tlGovernanceEpoch, tlOps,
                   tlCancelledFamilies, tlNow, tlFrames, tlExecutingOverride, tlBefore>>
activationVariables == <<head, final, nonces, mempool, mined, journal, artifact, run,
                         completion, unrelated, reorgs, crashes>>
governanceVariables == <<tlVars, otherTimelock, activationVariables>>
scanVariables == <<chain, visited, scanHead, faults, scanRun, runs, checkpoint, archive, backups>>
storeVariables == <<storeHead, storeChain, storeReorgs, storeFaults, hit, lock, proc,
                    generations, quarantine, pointer>>
indexerVariables == <<vars, scanVariables, storeVariables>>
allVars == <<part, governanceVariables, indexerVariables>>

MCInit ==
    /\ part \in Parts
    /\ TimelockInit
    /\ IF part = "nested" THEN Nested!TimelockInit ELSE Members!TimelockInit
    /\ IF part = "pair" THEN Pair!Init ELSE Single!Init
    /\ Init
    /\ Scan!Init
    /\ Store!Init
    \* A part that does not run has one initial state.
    /\ part # "scan" => chain = f1 /\ scanHead = 1

governanceNext ==
    \/ part = "timelock" /\ TimelockNext /\ UNCHANGED <<otherTimelock, activationVariables>>
    \/ part = "members" /\ Members!TimelockNext /\ UNCHANGED <<activationVariables, tlVars>>
    \/ part = "nested" /\ Nested!TimelockNext /\ UNCHANGED <<activationVariables, tlVars>>
    \/ part = "single" /\ Single!Next /\ UNCHANGED <<otherTimelock, tlVars>>
    \/ part = "pair" /\ Pair!Next /\ UNCHANGED <<otherTimelock, tlVars>>

indexerNext ==
    \/ part = "acceptance" /\ Next /\ UNCHANGED <<scanVariables, storeVariables>>
    \/ part = "scan" /\ Scan!Next /\ UNCHANGED <<storeVariables, vars>>
    \/ part = "store" /\ Store!Next /\ UNCHANGED <<scanVariables, vars>>

MCNext ==
    \/ governanceNext /\ UNCHANGED <<part, indexerVariables>>
    \/ indexerNext /\ UNCHANGED <<part, governanceVariables>>

MCSpec == MCInit /\ [][MCNext]_allVars

\* Signers, the governors of the activation and the processes of the indexer appear in different
\* parts: exchanging two of each at once exchanges two of any.
exchanged == (v1 :> v2) @@ (v2 :> v1) @@ (s1 :> s2) @@ (s2 :> s1) @@ (p1 :> p2) @@ (p2 :> p1)
Symmetry == {exchanged} \cup Permutations({c1, c2})

-----------------------------------------------------------------------------
(* However signers come and go, the threshold stays a strict majority of the signers and
   leaves the override quorum within reach (_requireValidThreshold). *)
ThresholdStaysValid ==
    /\ TimelockTypeOK
    /\ part = "members" => Members!TimelockTypeOK

(* GovernanceByOverride where an operation's call executes another operation. *)
NestedByOverride == Nested!GovernanceByOverride

(* The activation of the boards, on the chain itself and whatever the reorganizations,
   crashes, stale snapshots and restarts: no arming operation exists before every board is
   authorized, no opening operation before every board is armed
   (nextFundingActivationAction), and an action has one signed transaction, the one the
   journal holds, over all runs and signers (signAndBroadcastActivationAction). *)
ActivationSafe ==
    /\ part = "single" => Single!GlobalBarriers /\ Single!OneTransactionPerAction
    /\ part = "pair" => Pair!GlobalBarriers /\ Pair!OneTransactionPerAction

(* A VERIFIED checkpoint was read from one chain, the one its anchor hash names: its events
   are that chain's, and that chain runs the manifest's code and configuration
   (runIndexer, collectRuntimeConfigChecks, the recheck of the anchor). *)
OneChain == part = "scan" => Scan!OneChain

(* current.json names a whole generation, unless something other than the service damaged
   that very directory: no order of renames, crashes and retries points it at a missing one
   (publishGenerationSync). *)
PointerBacked == part = "store" => Store!PointerBacked

(* The accepted generation only changes to one of a greater height whose predecessor it is,
   although processes overlap, RPC endpoints lag and crashed cycles are repeated; a repair
   changes the storage alone (monotonicCheckpointDecision). *)
GenerationsAdvance ==
    [][(part = "store" /\ pointer # None /\ pointer' # pointer) =>
         \/ pointer'.id = pointer.id /\ Store!Damaged
         \/ pointer'.id.height > pointer.id.height /\ pointer'.prev = pointer.id]_pointer
=============================================================================
