# TLA+ models of P42 Prizes

P42 Prizes is a bounty protocol for mathematical records. A *board* is one
problem: solvers commit to a solution, reveal it, survive a challenge window and
finalize; each finalize moves the public frontier and earns credit; when the
board closes, the pool is divided among the credits. Around the contracts run
unattended processes: an indexer and its monitor, the operator that challenges,
the resolver that decides, the solver, the fallback that goes round a censoring
sequencer, a portal, and the scripts that deploy and activate the boards. These
modules model the contracts of one board, the timelock that governs them, and
the processes around them.

Paths below are relative to the repository root (`src/` in `PROJECT.json`).

## Inventory

| Part | State | Operations | Interacts with | What must hold |
|---|---|---|---|---|
| `P42PayoutLedger` | credit atoms, close record, claims, pause | recordCredit, voidCredit, close, consumeClaim, sweepRollover | submission manager, pool | every award is covered; a close is final |
| `P42BountyPool` | accounted balance, principal, outflow counters | fund, claimTo, donateClaimToPool, sponsorRefundTo, claimFees, payRollover, recoverForcedEth | ledger, funding gate, registry | books balance; refunds and awards exclude each other |
| Funding gate of `P42SubmissionManager` | digest, expiry, nonce, armed flag | authorizeFunding, cancelFundingAuthorization, armFunding | three off-chain signers, pool | armed only by a whole, standing set of signatures |
| `P42SubmissionManager` | submissions, frontier, counters, priority, bonds, full pause | commit, topUpBond, reveal, finalize, expire*, claimBond, voidFinalize, recoverPausedAll, challenge hooks | ledger, challenge manager | counters count; outcomes are final; copies never overtake |
| `P42ChallengeManager` | a dispute slot per submission, bonds | challenge, resolve, finalizeResolution, expireChallenge, slashResolverBond, applyObjectiveResolution | submission manager, resolver quorum | agrees with the submission manager; no dispute outlives its horizon |
| `P42MultisigTimelock` | signers, threshold, guardian, operations | schedule, confirm, cancel, expire, execute, signer changes, recovery | owner of the contracts | a present majority decides; governance changes by override alone |
| indexer (`agent/indexer.mjs`, `indexer-service.mjs`) | cursor, archive, checkpoint, generations | scan, replay, compare, publish | chain RPC, portal | one chain per checkpoint; the replay is the contracts' state |
| chain monitor | report | reconstruct twice and compare | two RPC nodes | a green report is true if one node is honest |
| operator (`agent/operator.mjs`, `challenge-envelope.mjs`, `wallet-nonce-coordinator.mjs`) | cursor, queue, envelope, nonces, signed journals, locks | ingest, reserve, sign, broadcast, reconcile | runner queue, chain | nothing finalized is skipped; one nonce one action; the caps hold |
| resolver (`agent/resolver*.mjs`, `da-arweave.mjs`) | actions, stake ledger, packets, reruns, publication journals | prepare, sign, post, attest, publish | quorum contract, Arweave | stake promised once; no equivocation; one paid upload |
| solver, supervisor | signed records, failure journal | advance, send, restart | board, systemd | pays once; restarts end |
| censorship fallback | journal, policy, deposit | step, reconcile, alert | L1, L2 | evidence before progress |
| funding activation, deployment scripts | journals, reservation, manifest, archive | sign, broadcast, reconcile, continue, complete | timelock, chain | phases in order; completion is backed |
| portal (`web/`) | rows under advisory locks, idempotency records, accepted checkpoint | commit, reveal, transfer, provision, migrate, accept | PostgreSQL, indexer | an operation is done once; nothing left behind; history advances |
| `P42ResolverQuorum`, agent wallet, forced inclusion, registry, vault, factories, runner workers, evidence validation | | | | not modelled or only as their callers see them; reasons in `PROJECT.json` |

What is hard in this code, and where it bites, is the `hazards` list of
`PROJECT.json`. In short: two contracts keep separate records of one dispute and
must agree after every exit path; deadlines run on two clocks, of which one stops
during a full pause; governance reverses finalizes while others stand on top of
them; money leaves the pool through six doors in any order; a replay recomputes
from events what the contracts never emit; processes crash between any two
durable writes, share wallets, stakes and locks, and read chains that reorganize
under them; requests outlive their leases; SERIALIZABLE snapshots are older than
the locks their transactions wait for; and `execute` of the timelock re-enters.

## Modules

A Solidity transaction, a database transaction, an atomic rename or a step
between two awaits is one step. Where contracts call each other the operations
are conjoined, as the call runs inside its caller's transaction. A revert is a
step that is not taken, unless something records it.

| Module | Models | State and actions |
|---|---|---|
| `PayoutLedger` | the ledger and its arithmetic | `ledgerVars`; one operator per function |
| `FundingAuthorization` | the OPEN-to-PAID gate | `gateVars`; `signed` is every message an authority ever signed, so any signature may come late |
| `BountyPool` | the pool | `rawBalance` is its ETH, `accountedBalance` what it accounts for |
| `Settlement` | ledger, gate and pool under an *abstract* credit recorder that may record, void and close whenever the ledger lets it | the abstract specification of a board's money |
| `SubmissionManager`, `ChallengeManager` | the managers | `managerVars`, `disputeVars`; each operation of the latter together with the hook it calls |
| `Board` | all of the above wired together | the real managers take the recorder's place |
| `IndexerReplay`, `IndexedBoard` | the replay of `agent/indexer.mjs`; the board with every event it emits fed to the replay | `replay` is the fold's state, `compareReplayToSnapshot` the code's comparison |
| `FinalizedScan` | the scan of finalized blocks | chunks, overlap, anchor, archive swap, checkpoint |
| `GenerationStore` | the publication of `indexer-service.mjs` | renames, pointer, quarantine, flock |
| `CheckpointAcceptance` | the portal's checkpoint gate | serialized transition, exact read, freshness |
| `ChainMonitor` | the dual-RPC monitor | every read of either node is a step |
| `Mutex`, `OwnerLock` | a lock; the directory lock of agents and portal | every file operation is a step, `Incarnations` the refinement mapping |
| `WalletNonce`, `OperatorActions` | shared nonces; the caps and a challenge from admission to receipt | every durable write and RPC call is a step |
| `OperatorIngestion` | cursor, specifications, queue | |
| `ResolverAgent`, `ResolverRerun`, `TranscriptPublication` | decisions and signers; attested reruns; uploads | |
| `SolverAgent`, `RuntimeSupervisor` | the solver's lifecycle; the loop around a runtime | |
| `CensorshipFallback` | deposits over L1 and their inclusion | |
| `MultisigTimelock` | the timelock | `frames` is the stack of `execute` calls, `before` what a failing transaction falls back to |
| `FundingActivation` | the activation executor and the part of the timelock it drives | |
| `SignedDeployment`, `DeploymentCeremony` | the signed journal; reservation, manifest, archive and completion around it | |
| `PortalStore`, `PortalTransfer`, `PortalDatabase` | the portal's store; the transfer of its state; the ownership of its tables | SERIALIZABLE snapshots, lock queues and lost acknowledgments are explicit |
| `MC*` | instances for TLC | |
| `*_proofs` | see Proofs | |

Definitions keep the names of the code. A definition that a comment calls a
mutant, or whose name carries a suffix (`settleSlot_alwaysKept`), is a plausible
slip in the definition that follows it; no specification uses it, and it shows
that the run would notice.

### How the code is abstracted

* Hashes, commitments, transcripts, signatures, URIs and documents are model
  values or the thing they bind to. A commitment is its CID; a call bound to the
  wrong fingerprint reverts, so only matching calls are steps.
* Integers are unbounded. Where checked arithmetic would revert on a reachable
  underflow the guard is in the model; elsewhere the type invariants, proved for
  the money side, show that none is reachable.
* `block.number` and `block.timestamp` are the one variable `now`.
* Wiring calls have been made before `Init`; both managers have the same
  challenge window, as `P42ChallengeManagerFactory` requires.
* `GateStarts` says whether a run starts from the fresh gate or from one just
  authorized or armed. All three are reachable with nothing else having happened.
* `CarefulGovernance` is an assumption about the owner, not about the code: voids
  are used only on finalizes that moved the frontier, which the contract does not
  enforce (see Findings). With the two submissions of `board_frontier` every void
  the contract admits is such a one; `frontier_voids` has three and drops the
  assumption. No theorem rests on it.
* What a process does when it crashes is what its files, its database and the
  chain keep; everything else is lost. Each off-chain module names the points
  where it may crash and bounds their number.

### Boundaries of single modules

* `OwnerLock`: a `.reclaim` directory left by a crash blocks until it is removed
  by hand; the run has the agents' lock (`IdentityProbe = FALSE`), which a reused
  pid makes wait for ever but never robs; the theorems hold for the portal's too.
* `IndexedBoard`: `portalStateFacts` is the projection that the portal shows, and
  `ReplayRebuilds` asks that it be what the contracts would give. It speaks of boards
  that rejected no duplicate and were first funded at least the minimum competition
  before the promised earliest close (`fundedInTime`); the two other cases are
  `replay_duplicate` and `late_funding`. The passing runs fund at time 0.
* `OperatorActions`: gaps below a nonce given up, superseded actions that keep
  the slot, and health generations that skip are modelled as the code has them.
  Receipts and transactions are asked of the primary provider alone (`shown`): with
  `PrimaryLags`, in the part with one board, it may be any distance behind the chain,
  though on no other fork, so that a pending or mined challenge is fenced and recorded
  superseded and still lands; `InFlightCounted` says that its bond stays counted. The
  part with two boards asks a primary that does not lag. Nonce observations may lag in both.
* `OperatorIngestion`: reorganizations reach as deep as finality plus overlap;
  the job of a block that leaves the chain and returns stays cancelled;
  the order of archived jobs and `.pid.tmp` leftovers are left out.
* `FinalizedScan` is the multi-board path. The run's provider does not come back
  to a fork it left (`Returns = FALSE`). A checkpoint is written only if it passes
  `validateMultiBoardCheckpoint`, and a run ends if the one before it does not;
  `validateCanonicalPortalProjection` compares the facts of the stored board with
  those of the logs it was built from.
* `GenerationStore`: a damaged accepted generation is repaired only by the same
  bytes at the same height.
* `CheckpointAcceptance`: `activatedProvenanceFromArtifacts`
  (`web/src/lib/indexer-provenance.ts:940`) always throws at this commit, so chain
  rows pass the gate in tests only; the gate is modelled as the tests drive it.
  `loadActivatedIndexerSnapshot` may find any snapshot or none;
  `attestRuntimeAuthority` finds the database's schema and grants whole or not.
* `ChainMonitor`: two dishonest nodes are outside its promise; finality that moves
  more than the lag bound during a reconstruction is reported as a reorganization.
* `ResolverAgent`: one wallet-policy slot serializes the boards; `broadcast_reverted`
  is terminal; direct local transport is left out. `ResolverRerun` has one signer
  and one board; the passing run does not let two commands of a signer overlap;
  `rerun_race` does, and checks `TombstonesClean`.
* `TranscriptPublication`: the runtime directory is lost only after an upload is
  indexed; accepted transactions that are dropped are never posted again.
* `SolverAgent`: `bondShortfall` is always 0 at this commit; `Patient` says that
  windows are long against one pass; `pending.wait()` has no timeout.
* `RuntimeSupervisor`: a failed append of the failure journal exits 70; a SIGTERM
  after a failure in the same cycle hides it from the budget; one supervisor only.
* `CensorshipFallback`: a policy phase started at exactly twice the window plus the
  safety bound refuses its second deposit; a refusal after reserving leaves a gap;
  systemd's start limit forgets at each `Tick`; rotation of the operator after
  completion makes the journal unverifiable.
* `FundingActivation`: one board at a time, so twenty delays must fit the
  authorization; assembly of the signatures and migration are left out.
* `SignedDeployment`, `DeploymentCeremony`: `waitForTransaction` has no timeout; an
  abandoned lock is removed by hand; reruns need their inputs still valid. What a
  snapshot reports of a board's objective is the constant `ObjectiveChecks`:
  `deployment` adds the name `programId` to those of the code, as without it no
  ceremony completes (see Disagreements) and nothing could be said of completion.
* `PortalStore`: an update is one step, as it runs under the row lock.
  `PortalTransfer` runs with the ceremony's precondition, a paused legacy portal
  (`Paused = TRUE`). `PortalDatabase`: grants lapse for a moment at every start.
* `MultisigTimelock`: pausers and `emergencyPause` are left out.

## Runs

Modules share a run: an `MC` module instantiates each of them, `part`
(chosen in the initial state) says which of them a behaviour runs, and the other
parts stay where they start. The state space of a run is therefore the sum, not
the product, of its parts; an invariant of one part is checked in the behaviours
of that part and in the initial state of the others. Assumptions of the modules
that are instantiated are evaluated through `PartsAssumption`.

| Run | Question | Instance |
|---|---|---|
| `board_lifecycle` | Is money ever missing, spent twice or paid in the wrong mode; does the board implement `Settlement`; does the indexer's replay follow? | part `board`: funding at the start, one submission from the authorized gate to the sweep, its disputes, three pause switches, a sponsor; part `settlement`: a recorder that credits two solvers up to 3 atoms (thirds, so dust remains), a 250 bps fee, 1 wei of forced ETH |
| `board_disputes` | Do both managers agree on every dispute, through duplicates, decisions, slashes, corrections and timeouts, and does the replay rebuild the deadlines? | 2 submissions, 2 actors, 2 CIDs, window 2, fraud window 2, horizon 6, clock 6: disputes are opened, lost, cancelled and opened again |
| `board_frontier` | Do voids, pauses and the close leave ledger, frontier and counters consistent, with credit only for what was committed after arming? | 2 submissions, 2 CIDs, scores 1 and 2 under a seed of 3, full pauses, fresh and armed gate, clock 5 |
| `governance_indexer` | Who decides, as signers change and calls nest? One chain per checkpoint? Is what is published and served backed and current? | 3 or 4 signers, an override operation beside an ordinary, contested or nested one; the activation of one board with a reorganization and of two without; 3 forks of 5 blocks, chunks of 2, overlap 1; 2 services and 2 contents; 2 portals and 8 checkpoints of 4 identities |
| `operator` | Is the lock never stolen, a nonce never used for two actions, a cap never passed, a bond under way always counted, a finalized reveal never skipped; do restarts end, and is the fallback's journal ahead of nothing? | 3 processes of one host with one restart; 2 boards on one wallet; one board over two UTC days with a primary provider that lags; one submission on a chain of 3 blocks with one reorganization and one fault; a supervisor with a budget of 2; a policy and a challenge deposit beside a foreign transaction |
| `resolver` | Is the stake promised once, a decision signed once, an upload paid once? | 2 boards over a stake of one bond with one crash, rotation, hold, dropped transaction, slash or deep reorganization; 1 challenge with any transcript and any one fault, reorganized decisions and outside relays among them; 1 signer's reruns; 6 uploads with decoys, faults and a wipe |
| `deployment` | Is completion backed, the journal truthful, does a rerun deployment end, and is a green report of the monitor true? | 2 deployers around one manifest; 3 steps by one runner with strangers, by one that is started again, 2 steps by two runners; 3 blocks seen through one honest and one dishonest node |
| `portal` | Is nothing lost by a transfer, nothing done twice, and nobody else a writer; does the solver's wallet pay once, and is its bond kept? | 2 ceremonies and an unrelated table change; 3 requests over 2 keys, with leases that expire; 2 provisioners and 2 migrations; a solver that funds and uploads, and one whose windows are long |
| `replay_duplicate`, `late_funding`, `frontier_voids`, `rerun_race` | violations, see Findings | as `board_disputes`, clock 7; a board that can be funded a second after it opens, two seconds before the promised close; 3 submissions and voids of any finalize; the reruns with overlapping commands |

Deadlock is not checked in any of them: a closed, swept and empty board, an
executed operation, a spent budget of crashes and a clock at its bound have
nothing left to do.

### Bounds

`MaxTime`, `MaxDay`, `MaxHead`, `MaxBlock` and `MaxCycles` end the clock, the chain
or the loop; each is long enough for the latest deadline the run's properties
speak of, once. `MaxSubmissions`, `MaxBond`, `MaxForcedEth`, `MaxNonce`,
`MaxChallengeBalance` (how often a dispute is reopened), `MaxSignatures`,
`MaxUploads` and `MaxDepth` (nested `execute` calls) bound counters.
`MaxCrashes`, `MaxFaults`, `MaxFailures`, `MaxReorgs`, `MaxDrops`, `MaxFlaps`,
`MaxWipes`, `MaxDDL` and `MaxRestarts` bound how often the environment misbehaves:
mostly once, as the properties relate a state before to a state after *one* such
event, and twice where an exchange of two processes needs it. Two is the number
of processes, boards, submissions or keys almost everywhere, because every hazard
listed is about a pair; the lock has three, since a thief needs a judge, a victim
and a newcomer. Periods are scaled to 1..3 steps with the order of the real ones
kept: fraud window <= challenge window, horizon = 3 windows.

### Fairness

`deployment` checks liveness under `MCFairSpec`: `DeploymentCompletes` says that a
deployment whose runner is started again ends. It assumes that a runner which
can take its next step takes it, that a runner is started again (the operator
reruns the documented command), that what is in the mempool is mined, and that the
lock a crash left behind is removed by hand whenever a runner keeps meeting it
(strong fairness: the code never reclaims it). Faults and reorganizations are
bounded and nothing is assumed of them. `Board` states
`FairSpec` with the same idea (time passes, and each call that the contracts
leave open to anyone is eventually made; nothing is assumed of solvers,
challengers, resolver and owner) and with it that disputes end and a board
closes. Those and the liveness properties of the other modules are stated beside
the specifications they need, and are not part of the listed runs.

## Findings

* `replay_duplicate`: the contract emits `DuplicateSubmissionRejected` when a copy
  loses to an earlier commit of the same solution; the indexer's event catalog
  does not query it, so the replay keeps the copy as revealed for ever and its
  comparison with the contracts fails.
* `late_funding`: the pool's `Funded` event carries the effective earliest close,
  which moves with the first funding (`contracts/src/P42PayoutLedger.sol:272`); the
  replay demands the constant of the deployment (`agent/indexer.mjs:1872`) and throws
  for good on a board that was funded late.
* `frontier_voids`: `voidFinalize` (`contracts/src/P42SubmissionManager.sol:1056`) is
  to refuse a finalize that advanced nothing, but compares only scores: finalize B at 2,
  A at 1, C at 2, void A, and C can be voided too, which restores the score of the
  voided A while B stands at 2.
* `rerun_race`: a rerun receipt is verified just before its challenge expires and
  bound after the renewal wrote the tombstone which says that there was none.

### Disagreements

Other places where the code departs from what its comments or documents say,
met while modelling. The modules keep the behaviour of the code; the runs above
assume it away where a property would otherwise fail (the constants are named),
or the property leaves it out.

* Board. With a minimum improvement of 2 the check of `frontier_voids` fails on claims
  that differ, too, against the comment at `P42SubmissionManager.sol:1034`: seed 12, A claims 10, B claims 9 (too little to move
  the best), A is voided, C claims 9; B can now be voided, as 10 is not 9, and restores
  10 while C stands. The re-armed window of a prevailing solver (`:1492`) is capped at the
  horizon, so a dispute settled a window after it returns a submission whose bond is
  already forfeitable, against the comment at `:1124` (`ReturnIsNeverForfeitable` is false).
* Operator. A reservation of a later UTC day is never released
  (`agent/challenge-envelope.mjs:460`); after a restart an exception releases a
  reservation whose journal is durable (`:501`); `claimBond` takes its nonce outside
  lock and allocator (`:570`); after a crash between specification and queue a
  moved head wedges the ingestion (`agent/operator.mjs:1282`).
* Resolver. Decision expiry must equal two deadlines that agree only for a
  challenge in the second of its reveal (`agent/resolver-signer.mjs:208`); waiting
  actions leave the scanned range and are not prepared again
  (`agent/resolver.mjs:1865`), or leak their stake (`:1942`); a reorganized decision
  lets its stake be reserved twice (`:1128`), and so does a crash between packet and
  state (`:2023`): the signers answer the packet, anybody may relay it, and its
  reservation is gone at the next reconciliation (`Faults = {"crash", "elsewhere"}` with
  two faults violates `PromisesBacked`); a dispatcher that dies after
  installing a first request wedges its board
  (`agent/resolver-rerun-dispatcher.mjs:262`). The quorum contract slashes the
  present epoch for an equivocation of a retired one (`P42ResolverQuorum.sol:464`).
* Indexer. A provider that leaves a fork and returns gets a mixed checkpoint
  accepted (`agent/indexer.mjs:3950`; `Returns = TRUE` violates `OneChain`); the
  payout monitor rejects a credited solver who has not claimed
  (`agent/chain-monitor.mjs:383`).
* Solver and fallback. The commit's value is recomputed at every start, so arming
  in between wedges the solver (`agent/solver.mjs:538`); a label keeps its first
  nonce (`:231`); the retained bond of a paid finalize is never released (`:445`); a
  donation that reverted is retried for ever (`:421`); when the primary provider
  lags, the fallback fences its own deposit
  (`agent/wallet-nonce-coordinator.mjs:208`; `PrimaryLags = TRUE`).
* Activation and deployment. Completion of a multi-board ceremony requires a check called
  `objective.board/N.programId` (`contracts/scripts/deployment-ceremony-helper.js:1506`);
  the continuation reports the value as `objective.board/N.programVKey`
  (`contracts/scripts/deploy-base-sepolia.js:1287`), and a check that is not reported
  counts as failed. So `npm run continue:base-sepolia` never completes a multi-board
  manifest, whatever was executed (`ObjectiveChecks` without `programId` violates
  `EvidencedCeremonyCompletes`); the tests build their snapshot from the list of required
  names and do not notice. A signed record whose nonce was spent by another
  transaction cannot be renewed (`agent/funding-activation-executor.mjs:1055`); the
  journal is replaced outside its lock, so two runners can send two transactions
  (`contracts/scripts/signed-deployment-journal.js:329`); its lock refuses dead
  owners (`:478`); a cancelled primary never lets its fallback open the gate
  (`contracts/scripts/governance-operation-journal.js:311`); a rerun between
  archive and retirement conflicts with its own archive
  (`contracts/scripts/deploy-base-sepolia.js:1146`); the manifest write is not
  exclusive (`:236`).
* Portal. Priority is forgotten with the retention of terminal commits
  (`web/src/lib/portal-state.ts:251`) and two local reveals get the same delta
  (`:262`); the transfer's snapshot is older than the lock it waits for
  (`web/scripts/transfer-legacy-portal-state.mjs:46`; `Paused = FALSE`), and so is
  the provisioning's (`web/scripts/provision-portal-db.mjs:49`).

## Proofs

Constants are assumed to be what the constructors and configuration checks
demand (`BoardAssumption` and the assumptions of the modules it extends,
`LockAssumption`, `Policy` of the checkpoint gate, `TimelockAssumption`,
`PublicationConstants`, `TransferAssumption`, `CeremonyAssumption`, and
`ActionsAssumption` and `AgentAssumption`, hypotheses of the theorems about operators and
resolvers); TLC evaluates
each of them in the runs. That `Actors` is finite is one of them (an address has 160
bits): the sums would have no meaning otherwise. Nothing else is assumed, but for
`NeverLeftBehind`, whose statement has the hypothesis `Paused`,
`CloseAlwaysSafe`, which has `minImprovementAtoms <= 1`, `FrontierRestsOnVoids`, which has
`VoidUndoesAdvance`, and `PromisesAlwaysBacked`, which
has `OwnDecisionsStay` (and `NoneIsNothing`: the model value for "nothing" is no policy
and no action). Numbers of processes, rows, faults and crashes,
lengths of windows and the bounds of the runs are arbitrary in every theorem.

**Money** (`Board_proofs`, first part). For every set of actors, every amount, schedule
and fee rate: type correctness, `BooksBalance`, `CustodyCovered`,
`ModesExclusive`, `PaidOnlyWhenArmed`, `CloseIsFinal`, and the three gate
properties. The inductive invariant `SettlementInv` joins them because none is
inductive alone: `rawBalance` stays natural only under custody; `ModesExclusive`
needs the closing mode that each payment counter implies (`ModeOfPayments`); a fee
never exceeds its award because `feeBps <= 250` (`FeeWithinGross`).

**The board implements it** (`Board_proofs`, second part). `BoardSpec => SettlementSpec`:
whatever the two managers do, ledger, gate and pool see only a recorder that
`Settlement` allows. `BoardInv` adds what that needs (`Linked`): unused submission
ids are blank, used ones have a solver, a paid submission was committed on an
armed board, and the ledger's total is within its bound. Every theorem about
`SettlementSpec` thereby holds of `BoardSpec`; `BoardMoneySafe` states the money
ones again. It rests on `1..MAX_TOTAL_CREDIT_ATOMS` being a subset of
`CreditAmounts`: the abstract recorder may record any credit the ledger takes.

**Disputes and outcomes** (`Board_proofs`, third part). `DisputeAgrees`, `WithinHorizon`,
`NoStuckDispute`, `PriorityHeld` and `ClearedStaysClear` follow from `DisputeInv`,
their conjunction with the types they need. They lean on one another: that a
dispute which ends returns a submission within the horizon needs both managers
to agree that there is a dispute, and `ClearedInv` strengthens
`ClearedStaysClear` by the statuses a cleared submission can have, or else a fresh
commit could inherit the mark. `NoStuckDispute` is a predicate on guards, not a
liveness claim. `CountersAgree` counts: each operation moves at most two
submissions between statuses, and a counter is the size of a set that gains or
loses exactly them (`CountMoves`, `CountMovesTwice`). `OutcomesFinal` is an action
property, `PaidStaysBonded` follows through `BondInv`, and `DisputesAlwaysSafe`
joins the invariants.

**Sums** (`Board_proofs`, fourth part). What is said of a sum over all actors or all
submissions rests on a small theory of `SumFunctionOnSet`: it exists and is unique, is
zero on nothing, takes out any element first (`SumSplit`), moves by the difference
when one summand does (`SumUpdate`), and is ordered as its summands are
(`SumMonotone`). The fold of the library chooses an order of the set; that the order
does not matter is proved on a smallest counterexample, since the set is finite
(`SmallestFailing`), instead of by an induction theorem that takes an operator.

* `AwardsCovered`: `AwardsInv` adds `CreditsAddUp`, that the denominator of the shares is
  the sum of the credits. A close then awards at most what it found, as each share is
  rounded down, and a claim takes out of the sum what it takes out of the pool.
  `SponsorsCovered` is inductive beside `SettlementInv`. Both hold of the whole board
  through `BoardImplementsSettlement`.
* `ManagersSolvent`: `SolvencyInv` is one half for each manager (`ManagerHalf`,
  `ChallengeHalf`). Each operation moves at most two summands and the balance by the
  difference; an id that was never used must hold no bond, or a commit would lose it.
* `CreditsMatchFinalizes`: `CreditInv` says that a standing finalize carries credit only
  for what it moved and only if paid at commit (`CreditLinks`), and that the ledger's
  sums are those of the standing ones (`CreditSums`).
* `CloseIsSafe`: `Chain` says of the finalizes that stand that no claim which moved the
  frontier is below the best, no two of them are equal, each started at or below every
  claim above its own, and each remembers a recovery deadline that covers those above
  it. It survives every void the contract admits, one of a finalize that moved nothing
  included (`ChainOutlivesVoids`), as long as every least improvement counts
  (`minImprovementAtoms <= 1`); with a larger one the deadlines of a void may not cover.
  `WindowsOver` carries the deadline through the close; that nothing opens afterwards
  is `NothingOpen`, from the counters. So `CloseAlwaysSafe` assumes nothing of the owner.
* `FrontierSafe` is more: that the advances which stand sum to the distance from the seed
  (`Telescopes`) is false once a finalize that moved nothing is voided, as
  `frontier_voids` shows. `FrontierRestsOnVoids` reduces it to that one promise of the
  contract's comment: wherever `VoidUndoesAdvance` holds, `FrontierSafe` does, for any
  minimum improvement. It is a conditional statement, not a guarantee of the code.

**The lock** (`Runtime_proofs`, first part). For any processes, hosts, crashes and restarts,
with or without the identity probe: `LockInv` says what each position in the code
lets a process rely on: a holder's own record is the one in the lock directory
(`HolderRecorded`), `.reclaim` excludes a second reclaimer (`OneReclaimer`), and
what a reclaimer is about to rename is the record it judged, whose process is gone
for good (`JudgedIsThere`). From it `NeverStolen`, mutual exclusion, and `ImplementsMutex`:
each file operation is an acquisition, a release, a crash or a stutter of `Mutex`
over incarnations. It is needed because the theft it excludes takes three
processes: one judges, one replaces the lock, the first then moves it away.

**The checkpoint gate** (`CheckpointAcceptance_proofs`). `AcceptanceInv`: each
acceptance names the epoch of its identity, no identity is accepted twice, and
what a request carries was fresh when it was loaded, in a history that has only
grown since. Hence `HistoryAdvances`, `ServedIsCurrent`, and that what is served
was fresh within the time one call may take.

**The timelock** (`MultisigTimelock_proofs`). For any signers, operations, calls,
delays and depth of nesting. `TimelockInv` has four parts: the governance data
stays legal (`_requireValidThreshold` after any change of signers); the flag that
admits signer changes is the class of the innermost frame
(`FlagFollowsFrames`: `execute` restores on return what it found, for each frame of the stack); an approval of a recovery is of the present signers, threshold and
guardian whenever the epoch says so (`ApprovalsCurrent`); and `before`, what a
failing transaction falls back to, satisfies the same. Without the second,
`SelfCalls` inside a nested ordinary operation could not be excluded; without the
fourth no invariant survives a failing call. It gives `PresentMajorityDecides`,
`RecoveryApprovedUnderPresentGovernance` and `GovernanceByOverride` (whose
instance with nested calls the run checks as `NestedByOverride`). The strict
majority is arithmetic on `validThreshold`, `overrideThresholdOf` and cardinalities
(`ExecutableIsMajority`).

**The operators' wallet** (`OperatorActions_proofs`). For any boards, candidates, days and
limits, crashes, exceptions, providers that lag without bound, and dropped, reorganized
or foreign transactions. `WalletInv` says of each candidate what holds at the program
point its operator is at (`PlaceInv`) and what holds wherever that operator died
(`RestInv`): a signed record has a row in the journal, and the journal gives a nonce
one row, hence `OneNonceOneAction`; and what can still cost a bond is in the envelope or a final reverted transaction, so that
releasing a slot on an exception is safe exactly because it happens before the
action is recorded (`InFlightIsReserved`). This holds with a primary that lags: a fenced
transaction may then be pending or mined, and its action is recorded superseded
although it lands, but nothing releases its slot. What is true of fenced bytes is
`FencedNeverReturns`: when they are nowhere, they stay nowhere and fenced, as no
operator sends bytes whose row is fenced and no crash leads back to a send. `CapsHeld` counts entries: finalizing maps the
reservations of a day onto its spends, and an image is no larger than its set
(`FinalizeKeepsEntries`). That `pendingCount` exists and is no lower than the mined
nonces (`PendingCounts`), on which foreign transactions rely, is a pigeonhole argument
with a smallest element. `MCOperator` extends the module for one board over
two days and instantiates it again for two boards, and checks `OneNonceOneAction`,
`CapsHeld` and `InFlightIsReserved` (as `InFlightCounted`) in both; `FencedStaysAway`,
`JournalBacksRecords` and `SettledInEnvelope` are theorems only.

**Promises and signers** (`Resolver_proofs`, second part). `PromisesBacked` counts the boards that have
reserved a bond of the shared stake for a decision still to come. A board
reserves under the lock, after adding up what the others hold, so the promise
is covered then; the rest is that no step afterwards spends what another board
counts on. `AgentInv` says why: a transaction that can still be mined belongs to
the action of its board, which is `broadcast` and not terminal (`PendingInv`), and
such an action of an open dispute keeps its ledger entry through crashes,
reconciliations and rotations (`BoardInv`), so a mined decision takes one unit of
stake and one promise away together (`MineKeeps`). An entry is `onchain` only for a
transaction the chain has taken. `OwnDecisionsStay` excludes the two faults under
which this is false (see Disagreements): a mined decision that is reorganized, and a relay by
somebody else. `NeverEquivocates` assumes nothing: a signer's signature names the epoch
of the one authorization it has for the challenge (`SignerInv`), and `Authorize` never
replaces one.

**Transcript publication** (`Resolver_proofs`, first part). `PublicationInv`: before the
signed upload is journaled nothing it could compete with is accepted anywhere;
from then on it alone is posted; and what the network took without the
journal's knowing is in the index, where the search finds it (`JournalBinds`).
`PublisherKnows` says which of these the publisher has established at each of its steps.
`PaidOnce` is a cardinality, so it needs that any two accepted uploads are one.

**The transfer** (`PortalTransfer_proofs`). `TransferInv` says of each ceremony what its
stage may rely on: which locks it holds (and that nobody else does), that its
snapshot shows the legacy table as it is while the writers are paused, that the
grants it is about to commit close that table, and that what it will insert goes
into an empty target (`CopyReady`). `Settled` is what a committed transfer leaves:
the legacy table closed for good and the reviewed import in the target. `ReceiptHolds`, `NeverOverwritten` and `LegacyFrozen` hold paused or
not. `NothingLeftBehind` is proved under `Paused`, and only so: without it the
snapshot is older than the table lock it waits for (see Disagreements), and TLC
finds the write that is lost.

**The deployment ceremony** (`DeploymentCeremony_proofs`). The gates compare what was
observed at an anchor, perhaps long ago, with what is journaled. `CeremonyInv`
therefore relates four views of the timelock: the head, the finalized block,
each run's snapshot, and the journals. An executed candidate stays executed and its
alternative never is (`ExecutedOnce`), so acceptance and its evidence carry over
from an older view to a newer one (`AcceptedStays`), and two runs that write
the same journal entry write the same (`SeenIsFinal`). Hence
`ChallengesBehindGovernance` and `CompletionIsBacked`, with any number of deployers
that crash, and with the continue command run at any time.

**The failure budget** (`Runtime_proofs`, second part). `BudgetHolds` is about the failures that
really happened, the code counts those it wrote down. `SupervisorInv` ties them: the
counter in memory is the journal's, or, while an outcome is on its way to the
file, one outcome ahead of it (`CounterFollowsJournal`); the real failures never exceed
what is counted plus what is known to have missed the journal
(`FailuresAccounted`). A kill or a failed write between the two moves exactly that
one outcome to the missed ones, and `WithinBudget` keeps a cycle from starting on a
spent budget, which is also `SpentStaysSpent`.

**Only model-checked.** `ReplayRebuilds` and `BoardReplayRebuilds` compare two folds of one
event log. All liveness properties. Of the ceremony, `OneCeremony` and the archive's
properties; of the board, `ActiveClockTolls` and `PromptReturnLeavesWindow`. The
invariants of the modules that have no theorems: the resolvers' reruns,
operator ingestion, activation, the signed deployment journal, the
portal's store and database ownership, solver and fallback, and the indexer's scan,
store and monitor. `CloseIsSafe` on boards
whose minimum improvement is above 1, and `FrontierSafe` without a hypothesis, which is
no invariant of the code (`frontier_voids`).

## Not modelled

The resolver quorum contract, agent wallet and forced inclusion are seen through
their callers only; the registry, vault, factories and verifier gateway are
stateless, fixed before `Init`, or receive what a modelled contract sends. The
runner queue appears as the operator's bridge uses it. Validation of governance,
admission and launch evidence, the rate limiter, the portal's pages, the problem
data, the zero-knowledge guest programs and the Python verifiers keep no state
that another part races with, or are sequential arithmetic that unit tests reach.
`mulDiv` is its exact quotient. The reason for each is in `PROJECT.json`.

## Plan

1. `SignatureRests` of `ResolverRerun`, and `TombstonesClean` for commands that do not overlap.
2. The fields of `ReplayRebuilds` one at a time, from the invariants of the board.
3. The quorum contract in front of the challenge manager, with fingerprints as
   values.
4. `mulDiv` at a small word width against its exact quotient.
