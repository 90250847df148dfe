---------------------------- MODULE FinalizedScan ----------------------------
(***************************************************************************)
(* One run of the indexer (agent/indexer.mjs: runIndexer and what it       *)
(* calls): pick the finalized range, scan the logs of every contract in    *)
(* overlapping chunks, replay them, read the contracts at the same block,  *)
(* compare, read the anchor block again, archive the posted data and write *)
(* the checkpoint.  The reads are separate requests to a provider whose    *)
(* canonical chain may change between any two of them.                     *)
(*                                                                         *)
(* A log is the transaction that made it with the block it is in; the      *)
(* contracts' state on a chain is the set of its transactions.             *)
(***************************************************************************)
EXTENDS Integers, FiniteSets, SequencesExt, TLC

CONSTANTS
    None,               \* no value
    Forks,              \* the chains the provider may follow
    ForkPoint,          \* the first block on which any two of them differ
    Boards,             \* the boards of the manifest, in registry order
    LogsOf,             \* [fork -> [stream -> set of [tx, block]]]
    Reveals,            \* the transactions whose calldata is archived
    GoodCode,           \* the forks on which every runtime code hash is the manifest's
    GoodConfig,         \* the forks on which every configuration check passes
    MaxHead,            \* bound: the highest block
    Returns,            \* TRUE: the provider may go back to a chain it left
    MaxFailures,        \* bound: the RPC and file-system errors
    MaxRuns,            \* bound: the runs of the indexer
    confirmations, startBlock, logChunkSize, reorgOverlapBlocks,
    maxRetries, maxScanRestarts

\* validateFinalityPolicy: the chunk is longer than the overlap, so the cursor moves.
FinalityPolicy ==
    /\ reorgOverlapBlocks \in 1 .. logChunkSize - 1
    /\ maxRetries \in Nat \ {0} /\ maxScanRestarts \in Nat \ {0}
    /\ confirmations \in Nat \ {0} /\ startBlock \in Nat

\* boardManifestView: a board is the shared contracts, scanned first, and its own.
Streams == <<"shared">> \o Boards

VARIABLES
    chain,      \* the fork the provider follows
    visited,    \* the forks it has followed
    head,       \* the height of every fork
    faults,     \* the failures so far
    run,        \* the process: program counter and locals
    runs,       \* the runs started
    checkpoint, \* the checkpoint file
    archive,    \* the archive directory
    backups     \* the .backup- directories, each with the run that made it

vars == <<chain, visited, head, faults, run, runs, checkpoint, archive, backups>>

Idle == [pc |-> "idle"]
-----------------------------------------------------------------------------
\* The provider.
BlockHash(f, b) == IF b < ForkPoint THEN <<"common", b>> ELSE <<f, b>>
Log(f, l) == [tx |-> l.tx, block |-> l.block, hash |-> BlockHash(f, l.block)]
queryFilter(f, s, from, to) ==
    {Log(f, l) : l \in {k \in LogsOf[f][s] : k.block \in from .. to}}
getTransaction(f, tx) ==
    \E s \in DOMAIN LogsOf[f] : \E l \in LogsOf[f][s] : l.tx = tx /\ l.block <= head
Txs(logs) == {l.tx : l \in logs}
\* What a board's contracts and the shared ones hold on a fork at a block.
Views(f, b, to) == Txs(queryFilter(f, "shared", 0, to) \cup queryFilter(f, b, 0, to))
-----------------------------------------------------------------------------
\* The helpers of queryHistoricalLogs.
logIdentity(l) == l.tx
compareLogCanonicality(l, k) == l.block = k.block /\ l.hash = k.hash
Overlap(logs, start, end) == {l \in logs : l.block \in start .. end}
\* What the overlap of two chunks must show: nothing gone, moved or new.
SameOverlap(expected, observed) ==
    /\ \A l \in expected : \E k \in observed : logIdentity(k) = logIdentity(l) /\ compareLogCanonicality(l, k)
    /\ \A k \in observed : \E l \in expected : logIdentity(k) = logIdentity(l)
\* The merge into byIdentity refuses an identity that changed its block.
Mergeable(known, logs) ==
    \A l \in known, k \in logs : logIdentity(l) = logIdentity(k) => compareLogCanonicality(l, k)

\* The locals of a scan attempt.
Attempt(n, to) ==
    [pc |-> "anchor", attempt |-> n, toBlock |-> to, errors |-> 0, anchor |-> None,
     stream |-> 1, start |-> startBlock, previousEnd |-> None, logs |-> {},
     shared |-> {}, events |-> <<>>, count |-> 0, checks |-> <<>>]

board == run.stream - 1
Throw == run' = Idle

\* ReorgDetectedError: the next attempt, or the error once the attempts are used.
ReorgDetected ==
    run' = IF run.attempt = maxScanRestarts THEN Idle ELSE Attempt(run.attempt + 1, run.toBlock)

disk == <<checkpoint, archive, backups>>
world == <<chain, visited, head>>
-----------------------------------------------------------------------------
\* buildMultiBoardCheckpoint and its refresh: the conjunction of every board's checks.
reconstructionOk(checks) == \A b \in DOMAIN checks : checks[b]

\* A board's logs list no log twice; the rest of its projection is computed from them.
validateCanonicalPortalProjection(logs) ==
    \A l, k \in logs : logIdentity(l) = logIdentity(k) => l = k

\* What a checkpoint must be when it is written, and when the next run finds it.
validateMultiBoardCheckpoint(c) ==
    /\ c.toBlock >= startBlock
    /\ DOMAIN c.events = DOMAIN Boards /\ DOMAIN c.checks = DOMAIN Boards
    /\ \A b \in DOMAIN Boards : validateCanonicalPortalProjection(c.events[b])
    /\ c.ok = reconstructionOk(c.checks)

\* A file that is no checkpoint ends the run.
loadPriorCheckpoint == checkpoint = None \/ validateMultiBoardCheckpoint(checkpoint)

\* runIndexer: the range and the prior checkpoint; one whose block was reorganised away is
\* only reported.
runIndexer ==
    /\ run.pc = "idle" /\ runs < MaxRuns
    /\ head - confirmations >= startBlock
    /\ runs' = runs + 1
    /\ IF loadPriorCheckpoint THEN run' = Attempt(1, head - confirmations) ELSE Throw
    /\ UNCHANGED <<world, faults, disk>>

\* The finality anchor of collect(MultiBoard)FinalizedReconciliation.
ReadAnchor ==
    /\ run.pc = "anchor"
    /\ run' = [run EXCEPT !.anchor = BlockHash(chain, run.toBlock), !.pc = "identity", !.errors = 0]
    /\ UNCHANGED <<world, faults, runs, disk>>

verifyRuntimeIdentity ==
    /\ run.pc = "identity"
    /\ IF chain \in GoodCode THEN run' = [run EXCEPT !.pc = "scan"] ELSE Throw
    /\ UNCHANGED <<world, faults, runs, disk>>

\* One chunk of queryHistoricalLogs.  The next chunk reads the last blocks of this one again.
NextStart(end) == end - reorgOverlapBlocks + 1
queryHistoricalLogs ==
    /\ run.pc = "scan"
    /\ LET Smaller(a, b) == IF a < b THEN a ELSE b
           end == Smaller(run.start + logChunkSize - 1, run.toBlock)
           current == queryFilter(chain, Streams[run.stream], run.start, end)
           overlapEnd == Smaller(run.previousEnd, end)
           stable == run.previousEnd # None =>
                       SameOverlap(Overlap(run.logs, run.start, overlapEnd),
                                   Overlap(current, run.start, overlapEnd))
       IN IF ~stable \/ ~Mergeable(run.logs, current) THEN ReorgDetected
          ELSE run' = [run EXCEPT
                 !.errors = 0, !.logs = @ \cup current,
                 !.pc = IF end = run.toBlock THEN "scanned" ELSE "scan",
                 !.previousEnd = end, !.start = NextStart(end)]
    /\ UNCHANGED <<world, faults, runs, disk>>

\* The end of scanEventCatalog: the shared contracts' logs are kept for every board.
scanEventCatalog ==
    /\ run.pc = "scanned"
    /\ run' = [run EXCEPT
         !.start = startBlock, !.previousEnd = None, !.logs = {},
         !.shared = IF run.stream = 1 THEN run.logs ELSE @,
         !.stream = IF run.stream = 1 THEN 2 ELSE @,
         !.events = IF run.stream = 1 THEN @ ELSE Append(@, run.shared \cup run.logs),
         !.pc = IF run.stream = 1 THEN "scan" ELSE "hydrate"]
    /\ UNCHANGED <<world, faults, runs, disk>>

\* Every event's block is read by its hash.  A node may still answer for a block that it no
\* longer follows; without an answer the block is known to be gone.
hydrateEventTimestamps ==
    /\ run.pc = "hydrate"
    /\ \/ run' = [run EXCEPT !.pc = "counters", !.errors = 0]
       \/ /\ \E l \in Last(run.events) : l.hash # BlockHash(chain, l.block)
          /\ ReorgDetected
    /\ UNCHANGED <<world, faults, runs, disk>>

\* collectOnchainSnapshot: the counters first, then every record they announce.
SnapshotCounters ==
    /\ run.pc = "counters"
    /\ run' = [run EXCEPT !.pc = "records",
                          !.count = Cardinality(Views(chain, Boards[board], run.toBlock))]
    /\ UNCHANGED <<world, faults, runs, disk>>

collectOnchainSnapshot ==
    /\ run.pc = "records"
    /\ LET replayed == Txs(Last(run.events))
       IN run' = [run EXCEPT
            !.pc = "config",
            !.checks = Append(@, /\ replayed = Views(chain, Boards[board], run.toBlock)
                                 /\ run.count = Cardinality(replayed))]
    /\ UNCHANGED <<world, faults, runs, disk>>

\* collectRuntimeConfigChecks, then the next board or the second look at the anchor.
collectRuntimeConfigChecks ==
    /\ run.pc = "config"
    /\ run' = [run EXCEPT
         !.checks[board] = @ /\ chain \in GoodConfig,
         !.pc = IF run.stream = Len(Streams) THEN "recheck" ELSE "scan",
         !.stream = IF run.stream = Len(Streams) THEN @ ELSE @ + 1]
    /\ UNCHANGED <<world, faults, runs, disk>>

AnchorIgnored == TRUE
AnchorUnchanged == BlockHash(chain, run.toBlock) = run.anchor

\* `afterAllReads'.
RecheckAnchor ==
    /\ run.pc = "recheck"
    /\ IF AnchorUnchanged THEN run' = [run EXCEPT !.pc = "archive", !.errors = 0] ELSE ReorgDetected
    /\ UNCHANGED <<world, faults, runs, disk>>
-----------------------------------------------------------------------------
\* archiveMultiBoardGeneration: every reveal's calldata is fetched from the chain as it now
\* is; one that is missing fails its board and keeps the archive as it was.
RevealsOf(b) == Txs(run.events[b]) \cap Reveals
Available(b) == \A tx \in RevealsOf(b) : getTransaction(chain, tx)

\* archiveFinalizedResolverTranscripts: the boards whose transcripts two endpoints serve.
Retrievals == SUBSET DOMAIN run.checks

archiveMultiBoardGeneration ==
    /\ run.pc = "archive"
    /\ \E retrieved \in Retrievals :
         LET archived(b) == Available(b) /\ b \in retrieved
         IN run' = [run EXCEPT
              !.checks = [b \in DOMAIN run.checks |-> run.checks[b] /\ archived(b)],
              !.pc = IF \A b \in DOMAIN run.checks : archived(b) THEN "backup" ELSE "write"]
    /\ UNCHANGED <<world, faults, runs, disk>>

generation == UNION {RevealsOf(b) : b \in DOMAIN run.events}

MoveToBackup ==
    /\ run.pc = "backup"
    /\ backups' = IF archive = None THEN backups ELSE backups \cup {<<runs, archive>>}
    /\ archive' = None
    /\ run' = [run EXCEPT !.pc = "swap"]
    /\ UNCHANGED <<world, faults, runs, checkpoint>>

Own == {d \in backups : d[1] = runs}

SwapIn ==
    /\ run.pc = "swap"
    /\ archive' = generation /\ backups' = backups \ Own
    /\ run' = [run EXCEPT !.pc = "write"]
    /\ UNCHANGED <<world, faults, runs, checkpoint>>

\* A rename that fails: the old archive is put back and the run ends.
SwapFails ==
    /\ run.pc = "swap" /\ faults < MaxFailures
    /\ faults' = faults + 1
    /\ archive' = IF Own = {} THEN None ELSE (CHOOSE d \in Own : TRUE)[2]
    /\ backups' = backups \ Own
    /\ Throw
    /\ UNCHANGED <<world, runs, checkpoint>>

newCheckpoint ==
    [ok |-> reconstructionOk(run.checks), checks |-> run.checks, toBlock |-> run.toBlock,
     toBlockHash |-> run.anchor, events |-> run.events]

\* The file is replaced whole, and only by a checkpoint that is valid.
writeCheckpoint ==
    /\ run.pc = "write"
    /\ checkpoint' = IF validateMultiBoardCheckpoint(newCheckpoint) THEN newCheckpoint ELSE checkpoint
    /\ Throw
    /\ UNCHANGED <<world, faults, runs, archive, backups>>
-----------------------------------------------------------------------------
\* retryRead: the reads that are retried give up after maxRetries errors in a row; those
\* of the runtime identity, the snapshot, the configuration and the archive are not retried.
RpcError ==
    /\ run.pc \in {"anchor", "scan", "hydrate", "recheck", "identity", "counters", "records", "config", "archive"}
    /\ faults < MaxFailures
    /\ faults' = faults + 1
    /\ run' = IF run.pc \in {"anchor", "scan", "hydrate", "recheck"} /\ run.errors + 1 < maxRetries
              THEN [run EXCEPT !.errors = @ + 1] ELSE Idle
    /\ UNCHANGED <<world, runs, disk>>

\* The process dies: what is on disk stays, a backup directory included.
Crash ==
    /\ run.pc # "idle" /\ faults < MaxFailures
    /\ faults' = faults + 1
    /\ Throw
    /\ UNCHANGED <<world, runs, disk>>

\* The provider follows another chain.
Reorg(f) ==
    /\ f # chain /\ (Returns \/ f \notin visited)
    /\ chain' = f /\ visited' = visited \cup {f}
    /\ UNCHANGED <<head, faults, run, runs, disk>>

Mine ==
    /\ head < MaxHead
    /\ head' = head + 1
    /\ UNCHANGED <<chain, visited, faults, run, runs, disk>>
-----------------------------------------------------------------------------
Init ==
    /\ chain \in Forks /\ visited = {chain}
    /\ head \in startBlock .. MaxHead
    /\ faults = 0 /\ runs = 0 /\ run = Idle
    /\ checkpoint = None /\ archive = None /\ backups = {}

Step ==
    \/ runIndexer \/ ReadAnchor \/ verifyRuntimeIdentity \/ queryHistoricalLogs
    \/ scanEventCatalog \/ hydrateEventTimestamps \/ SnapshotCounters
    \/ collectOnchainSnapshot \/ collectRuntimeConfigChecks \/ RecheckAnchor
    \/ archiveMultiBoardGeneration \/ MoveToBackup \/ SwapIn \/ SwapFails
    \/ writeCheckpoint \/ RpcError \/ Crash

Next == Step \/ Mine \/ \E f \in Forks : Reorg(f)

Spec == Init /\ [][Next]_vars

\* The process is scheduled; nothing is assumed of the chain.
FairSpec == Spec /\ WF_vars(Step)
-----------------------------------------------------------------------------
TypeOK ==
    /\ chain \in visited /\ visited \subseteq Forks /\ head \in startBlock .. MaxHead
    /\ runs \in 0 .. MaxRuns /\ faults \in 0 .. MaxFailures
    /\ run.pc # "idle" => /\ run.attempt \in 1 .. maxScanRestarts /\ run.errors \in 0 .. maxRetries - 1
                          /\ run.start \in startBlock .. head /\ run.stream \in DOMAIN Streams

\* What a fork holds of a board in the range of a checkpoint.
EventsOn(f, b, to) == queryFilter(f, "shared", startBlock, to) \cup queryFilter(f, b, startBlock, to)

\* A VERIFIED checkpoint was read from one chain, the one its anchor hash names: its events
\* are that chain's, and that chain runs the manifest's code and configuration.
OneChain ==
    checkpoint # None /\ checkpoint.ok =>
        \E f \in GoodCode \cap GoodConfig :
            /\ BlockHash(f, checkpoint.toBlock) = checkpoint.toBlockHash
            /\ \A b \in DOMAIN Boards :
                  checkpoint.events[b] = EventsOn(f, Boards[b], checkpoint.toBlock)

\* While the chain of a VERIFIED checkpoint is still followed, the calldata of every reveal
\* it lists is in the archive, or in a backup that a crash between two renames left.
RevealsKept ==
    checkpoint # None /\ checkpoint.ok /\ BlockHash(chain, checkpoint.toBlock) = checkpoint.toBlockHash =>
        LET kept == {d[2] : d \in backups} \cup (IF archive = None THEN {} ELSE {archive})
        IN \E dir \in kept \cup {{}} :
               \A b \in DOMAIN Boards : Txs(checkpoint.events[b]) \cap Reveals \subseteq dir

\* Every run comes to an end, whatever the chain does: chunks move on and restarts run out.
RunEnds == (run.pc # "idle") ~> (run.pc = "idle")
=============================================================================
