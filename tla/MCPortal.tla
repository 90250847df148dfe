------------------------------ MODULE MCPortal -------------------------------
(****************************************************************************)
(* The submitting side for TLC: the transfer of the portal's state to       *)
(* another database (PortalTransfer), its store (PortalStore, in two        *)
(* settings), the ownership of its tables (PortalDatabase) and the solver,  *)
(* which submits without the portal (SolverAgent, in two settings). A       *)
(* behaviour runs one part, chosen in the initial state; the parts share no *)
(* variable, so the others stay where they start.                           *)
(****************************************************************************)
EXTENDS PortalTransfer, TLC

CONSTANTS Parts, a, b, x, y, r1, r2, r3, k1, k2, h1, h2, c1, c2

VARIABLES part,  \* the part this behaviour runs
    \* PortalStore
    now, storeDb, req, issued, nextCommit, storeFaults, granted, executed,
    \* PortalDatabase
    ownedDb, ownedAdvisory, prov, mig, applies, drift, crashes,
    \* SolverAgent
    chain, mempool, mined, file, proc, solverFaults

ask(kind, key, hash) == [kind |-> kind, key |-> key, hash |-> hash]

\* A commit under a key, and the same key with another body.
Keys == INSTANCE PortalStore WITH
    CidOf <- (h1 :> c1 @@ h2 :> c2), ScoreOf <- (c1 :> 1 @@ c2 :> 1), seedBest <- 3,
    minImprovement <- 1, commitTtl <- 3, revealLease <- 1, idempotencyLease <- 1,
    maxSubmissions <- 2, maxEvents <- 2, MaxTries <- 2, Persistent <- FALSE,
    Faults <- {"rollback", "lost"}, LastFault <- 9, Attempts <- {r1, r2},
    Plan <- (r1 :> ask("commit", k1, h1) @@ r2 :> ask("commit", k1, h2)),
    terminalRetention <- 1, idempotencyRetention <- 1, maxCommits <- 2, maxIdempotency <- 1,
    MaxTime <- 3, MaxFaults <- 2, db <- storeDb, faults <- storeFaults

\* One commit and two reveals of it that compete, under two keys.
Reveals == INSTANCE PortalStore WITH
    CidOf <- (h1 :> c1 @@ h2 :> c2), ScoreOf <- (c1 :> 1 @@ c2 :> 1), seedBest <- 3,
    minImprovement <- 1, commitTtl <- 3, revealLease <- 1, idempotencyLease <- 1,
    maxSubmissions <- 2, maxEvents <- 2, MaxTries <- 2, Persistent <- FALSE,
    Faults <- {"rollback", "lost"}, LastFault <- 9, Attempts <- {r1, r2, r3},
    Plan <- (r1 :> ask("commit", None, h1) @@ r2 :> ask("reveal", k1, h1) @@ r3 :> ask("reveal", k2, h1)),
    terminalRetention <- 10, idempotencyRetention <- 10, maxCommits <- 1, maxIdempotency <- 2,
    MaxTime <- 3, MaxFaults <- 1, db <- storeDb, faults <- storeFaults

Database == INSTANCE PortalDatabase WITH
    Provisioners <- {a, b}, Runners <- {x, y}, MaxApplies <- 2, MaxDrift <- 1,
    MaxCrashes <- 1, db <- ownedDb, advisory <- ownedAdvisory

\* The wallet funds, uploads and commits; transactions are dropped.
Funding == INSTANCE SolverAgent WITH
    Armed0 <- TRUE, MayArm <- FALSE, MayPause <- FALSE, MayRelease <- FALSE,
    SubmitOnly <- {FALSE}, Cap <- 2, MinBond <- 1, AlphaBps <- 10000, FundLeft0 <- 1,
    CloseLeft0 <- 2, MaxChallenges <- 1, MaxCrashes <- 1, MaxFaults <- 1, FundWei <- 1,
    Arweave <- TRUE, CloseRequested <- FALSE, Donate <- FALSE, Patient <- FALSE, Window <- 1,
    ClaimWindow <- 2, FallbackWindow <- 1, MaxErrors <- 2, MaxDrops <- 1, MaxFlaps <- 0,
    faults <- solverFaults, receipts <- mined

\* Windows that are long against a pass, and a donation target that comes and goes.
Windows == INSTANCE SolverAgent WITH
    Armed0 <- TRUE, MayArm <- FALSE, MayPause <- FALSE, MayRelease <- FALSE,
    SubmitOnly <- {FALSE}, Cap <- 2, MinBond <- 1, AlphaBps <- 10000, FundLeft0 <- 1,
    CloseLeft0 <- 2, MaxChallenges <- 1, MaxCrashes <- 1, MaxFaults <- 1, FundWei <- 0,
    Arweave <- FALSE, CloseRequested <- TRUE, Donate <- TRUE, Patient <- TRUE, Window <- 2,
    ClaimWindow <- 3, FallbackWindow <- 2, MaxErrors <- 4, MaxDrops <- 0, MaxFlaps <- 1,
    faults <- solverFaults, receipts <- mined

ASSUME PartsAssumption ==
    /\ Keys!PortalAssumption /\ Reveals!PortalAssumption /\ Database!DatabaseAssumption
    /\ Funding!SolverConstants /\ Windows!SolverConstants

storeVariables == <<now, storeDb, req, issued, nextCommit, storeFaults, granted, executed>>
ownedVariables == <<ownedDb, ownedAdvisory, prov, mig, applies, drift, crashes>>
solverVariables == <<chain, mempool, mined, file, proc, solverFaults>>
portalVariables == <<vars, storeVariables, ownedVariables>>
allVars == <<part, portalVariables, solverVariables>>

MCInit ==
    /\ part \in Parts
    /\ Init
    /\ IF part = "reveals" THEN Reveals!Init ELSE Keys!Init
    /\ Database!Init
    /\ IF part = "windows" THEN Windows!Init ELSE Funding!Init
    \* A part that does not run has one initial state.
    /\ part # "transfer" => db.row.L.revision = 0
    /\ part # "database" => ownedDb.defaults = {}
    /\ part \notin {"funding", "windows"} => ~chain.dup /\ ~chain.others

portalNext ==
    \/ part = "transfer" /\ Next /\ UNCHANGED <<storeVariables, ownedVariables>>
    \/ part = "keys" /\ Keys!Next /\ UNCHANGED <<ownedVariables, vars>>
    \/ part = "reveals" /\ Reveals!Next /\ UNCHANGED <<ownedVariables, vars>>
    \/ part = "database" /\ Database!Next /\ UNCHANGED <<storeVariables, vars>>

MCNext ==
    \/ portalNext /\ UNCHANGED <<part, solverVariables>>
    \/ part = "funding" /\ Funding!Next /\ UNCHANGED <<part, portalVariables>>
    \/ part = "windows" /\ Windows!Next /\ UNCHANGED <<part, portalVariables>>

MCSpec == MCInit /\ [][MCNext]_allVars

Symmetry == Permutations({a, b}) \cup Permutations({x, y})

-----------------------------------------------------------------------------
(* Under one idempotency key an operation is done once, whatever crashes, lost replies,
   expired leases and retries there are, until the retention of the record, which counts
   from the reservation, has passed (beginIdempotentRequest, completeCommit); and a commit
   is revealed at most once, although its lease may run out while the verifier is still at
   work and another reveal takes over (reserveReveal, completeReveal). *)
DoneOnce ==
    /\ part = "keys" => Keys!IdempotentOnce
    /\ part = "reveals" => Reveals!RevealedOnce

(* Nobody but the owner can ever write the checkpoint tables: not even between the migration
   that creates them and the statements that close their grants
   (closePortalObjectPrivileges). *)
NoForeignWriter == part = "database" => Database!NoForeignWriter

(* However often the process dies, the wallet funds once, commits once and never holds more
   than the bond the cap asks for: what was sent is found again (sendPersistent). *)
PaysOnce == part = "funding" => Funding!PaysOnce

(* With windows long against a pass, and no governance action, a solver that is restarted
   after every crash never lets its bond lapse to the treasury (advance in solver.mjs). *)
BondNotForfeited == part = "windows" => Windows!BondNotForfeited
=============================================================================
