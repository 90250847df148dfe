---------------------------- MODULE SolverAgent ----------------------------
(***************************************************************************)
(* agent/solver.mjs: the process that carries one submission from commit   *)
(* to bond reclaim.  It keeps a state file with one signed transaction per *)
(* label, may die anywhere, and goes on from the file and from what it     *)
(* reads on chain.  The board is reduced to the one submission, its        *)
(* challenge slot and its ledger; deadlines are timers counting down.      *)
(***************************************************************************)
EXTENDS Integers, FiniteSets, TLC

CONSTANTS
    FundWei,        \* --fund, 0 for none
    Arweave,        \* --arweave
    CloseRequested, \* --close
    Donate,         \* --donate-winnings-to-pool
    SubmitOnly,     \* the values of --submit-only a start may have
    Armed0,         \* is the board armed at the start
    MayArm,         \* may the board be armed while the solver runs
    MayPause,       \* may the owner pause everything, and void while paused
    MayRelease,     \* may strangers release the bond of a paid finalization
    Patient,        \* windows are long against one pass of the loop
    Cap, MinBond, AlphaBps, \* the pool's cap and the bond rule
    Window,         \* ticks of a challenge, dispute or finality window
    FundLeft0, CloseLeft0,  \* ticks to fundingDeadline and to closeBy
    ClaimWindow, FallbackWindow,
    MaxErrors, MaxChallenges, MaxCrashes, MaxFaults, MaxDrops, MaxFlaps

SolverConstants ==
    /\ {FundWei, Cap, MinBond, AlphaBps, FundLeft0, CloseLeft0, ClaimWindow, FallbackWindow,
        MaxChallenges, MaxCrashes, MaxFaults, MaxDrops, MaxFlaps} \subseteq Nat
    /\ {Window, MaxErrors} \subseteq Nat \ {0}
    /\ {Arweave, CloseRequested, Donate, Armed0, MayArm, MayPause, MayRelease, Patient} \subseteq BOOLEAN
    /\ SubmitOnly \subseteq BOOLEAN /\ SubmitOnly # {}

VARIABLES
    chain,    \* the submission, its slot, the board's ledger and the wallet's nonce
    mempool,  \* the wallet's pending transactions
    receipts, \* the mined ones, each with its outcome
    file,     \* the state file
    proc,     \* the process
    faults    \* crashes, network faults and flaps spent

vars == <<chain, mempool, receipts, file, proc, faults>>

NoStatus == 0
Committed == 1
Revealed == 2
Challenged == 3
Finalized == 4
Rejected == 5
Voided == 6

Ended == {"complete", "terminated"}

----------------------------------------------------------------------------
\* The contracts as the solver calls them.

requiredPostingBondForPool(poolWei) ==
    LET scaled == (poolWei * AlphaBps) \div 10000
    IN  IF scaled > MinBond THEN scaled ELSE MinBond

requiredPostingBondNow(c) == requiredPostingBondForPool(IF c.armed THEN Cap ELSE c.funded)

\* Would this call succeed now.
executes(c, tx) ==
    LET kind == tx.label[1]
    IN  CASE kind = "pool.fund" -> c.armed /\ ~c.closed /\ c.fundLeft > 0 /\ c.funded + tx.value <= Cap
          [] kind = "commit" -> ~c.paused /\ ~c.closed /\ c.fundLeft > 0 /\ tx.value >= requiredPostingBondNow(c)
          [] kind = "reveal" -> ~c.paused /\ c.status = Committed /\ c.left > 0
          [] kind = "topUpBond" -> c.status \in Committed .. Challenged
          [] kind = "finalize" ->
               /\ ~c.paused /\ c.status = Revealed /\ c.left <= 0
               /\ ~c.dup /\ c.paid /\ c.credit => c.bond >= requiredPostingBondForPool(Cap)
          [] kind = "expireChallenge" ->
               c.status = Challenged /\ c.slot = "open" /\ c.left <= 0 /\ tx.label[2] = c.instance
          [] kind = "finalizeResolution" ->
               c.status = Challenged /\ c.slot = "pending" /\ c.left <= 0 /\ tx.label[2] = c.instance
          [] kind = "claimBond" -> c.claimable > 0
          [] kind = "ledger.close" ->
               ~c.closed /\ c.closeLeft <= 0 /\ c.status \notin Committed .. Challenged /\ ~c.others /\ ~c.paused
          [] kind = "pool.claim" -> c.closed /\ c.payout > 0 /\ c.claimLeft > 0
          [] kind = "donateClaimToPool" -> c.closed /\ c.payout > 0 /\ c.claimLeft > 0 /\ c.ready

rearmed(c) ==
    IF c.dup
    THEN [c EXCEPT !.status = Rejected, !.slot = "none", !.claimable = @ + c.bond, !.bond = 0]
    ELSE [c EXCEPT !.status = Revealed, !.slot = "none", !.left = Window, !.round = @ + 1]

settled(c) ==
    IF c.uphold THEN [c EXCEPT !.status = Rejected, !.slot = "resolved", !.bond = 0] ELSE rearmed(c)

closedOn(c) == [c EXCEPT !.closed = TRUE, !.claimLeft = ClaimWindow,
                         !.payout = IF c.status = Finalized /\ c.paid /\ c.credit THEN 1 ELSE 0]

applied(c, tx) ==
    LET kind == tx.label[1]
    IN  CASE kind = "pool.fund" -> [c EXCEPT !.funded = @ + tx.value, !.funds = @ + 1]
          [] kind = "commit" -> [c EXCEPT !.status = Committed, !.left = Window, !.bond = tx.value,
                                          !.paid = c.armed, !.commits = @ + 1]
          [] kind = "reveal" -> [c EXCEPT !.status = Revealed, !.left = Window, !.round = @ + 1]
          [] kind = "topUpBond" -> [c EXCEPT !.bond = @ + tx.value]
          [] kind = "finalize" ->
               IF c.dup \/ ~(c.paid /\ c.credit)
               THEN [c EXCEPT !.status = IF c.dup THEN Rejected ELSE Finalized,
                              !.claimable = @ + c.bond, !.bond = 0]
               ELSE [c EXCEPT !.status = Finalized]
          [] kind = "expireChallenge" -> rearmed(c)
          [] kind = "finalizeResolution" -> settled(c)
          [] kind = "claimBond" -> [c EXCEPT !.claimable = 0]
          [] kind = "ledger.close" -> closedOn(c)
          [] kind \in {"pool.claim", "donateClaimToPool"} -> [c EXCEPT !.payout = 0]

----------------------------------------------------------------------------
Init ==
    /\ chain \in [status: {NoStatus}, left: {0}, round: {0}, bond: {0}, paid: {FALSE}, credit: {TRUE}, dup: BOOLEAN,
                  instance: {0}, slot: {"none"}, uphold: {FALSE}, claimable: {0}, closed: {FALSE}, payout: {0},
                  claimLeft: {0}, fundLeft: {FundLeft0}, closeLeft: {CloseLeft0}, others: BOOLEAN,
                  armed: {Armed0}, funded: {0}, paused: {FALSE}, ready: {TRUE}, nonce: {0},
                  commits: {0}, funds: {0}, forfeited: {FALSE}, lapsed: {FALSE}]
    /\ mempool = {} /\ receipts = {}
    /\ file = [made |-> FALSE, tx |-> <<>>, id |-> FALSE, phase |-> "initialized", arweave |-> FALSE]
    /\ proc = [pc |-> "off", label |-> <<"none">>, value |-> 0, errors |-> 0, submitOnly |-> FALSE,
               status |-> NoStatus, left |-> 0, round |-> 0, bond |-> 0, polled |-> FALSE]
    /\ faults = [crash |-> 0, net |-> 0, drop |-> 0, flap |-> 0]

TxOf(label) == [label |-> label, value |-> file.tx[label].value, nonce |-> file.tx[label].nonce]
Known(label) == label \in DOMAIN file.tx

\* The node's pending nonce: the first that neither the chain nor the pool has used.
pendingNonce ==
    CHOOSE n \in chain.nonce .. chain.nonce + Cardinality(mempool) :
        /\ \A tx \in mempool : tx.nonce # n
        /\ \A k \in chain.nonce .. n - 1 : \E tx \in mempool : tx.nonce = k

Looping(label) == label[1] \notin {"none", "pool.fund", "commit"}

\* A throw: main exits, the loop counts it and goes round again.
threw(p) ==
    LET over == ~Looping(p.label) \/ p.errors + 1 >= MaxErrors
    IN  [p EXCEPT !.pc = IF over THEN "off" ELSE "snap", !.errors = IF over THEN 0 ELSE @ + 1,
                  !.polled = over]

Fails == proc' = threw(proc) /\ UNCHANGED <<chain, mempool, receipts, file, faults>>

----------------------------------------------------------------------------
\* main

afterFund == IF file.id THEN "snap" ELSE "commit"

loadState ==
    /\ proc.pc = "off" /\ file.phase \notin Ended
    /\ file' = [file EXCEPT !.made = TRUE]
    /\ \E s \in SubmitOnly :
         proc' = [proc EXCEPT !.pc = "da", !.label = <<"none">>, !.errors = 0, !.submitOnly = s, !.polled = FALSE]
    /\ UNCHANGED <<chain, mempool, receipts, faults>>

\* The upload returns once it is confirmed and replicated, and is then recorded.
prepareDataAvailability ==
    /\ proc.pc = "da"
    /\ file' = [file EXCEPT !.arweave = Arweave]
    /\ proc' = [proc EXCEPT !.pc = "frontier"]
    /\ UNCHANGED <<chain, mempool, receipts, faults>>

\* A claim that no longer beats the frontier is not committed.
CheckFrontier ==
    /\ proc.pc = "frontier"
    /\ IF ~file.id /\ ~Known(<<"commit">>) /\ ~chain.credit
       THEN Fails
       ELSE /\ proc' = IF FundWei # 0
                       THEN [proc EXCEPT !.pc = "send", !.label = <<"pool.fund">>, !.value = FundWei]
                       ELSE [proc EXCEPT !.pc = afterFund, !.label = IF file.id THEN <<"loop">> ELSE <<"none">>]
            /\ UNCHANGED <<chain, mempool, receipts, file, faults>>

Commit ==
    /\ proc.pc = "commit"
    /\ proc' = [proc EXCEPT !.pc = "send", !.label = <<"commit">>, !.value = requiredPostingBondNow(chain)]
    /\ UNCHANGED <<chain, mempool, receipts, file, faults>>

\* The id comes from the one Committed log of the receipt.
submissionIdFromCommittedReceipt ==
    /\ proc.pc = "record"
    /\ file' = [file EXCEPT !.id = TRUE, !.phase = "committed"]
    /\ proc' = [proc EXCEPT !.pc = "snap", !.label = <<"loop">>]
    /\ UNCHANGED <<chain, mempool, receipts, faults>>

----------------------------------------------------------------------------
\* sendPersistent

signed(label, value) == [status |-> "signed", value |-> value, nonce |-> pendingNonce]

buildSignedTransactionRecord ==
    /\ executes(chain, [label |-> proc.label, value |-> proc.value])
    /\ file' = [file EXCEPT !.tx = proc.label :> signed(proc.label, proc.value) @@ @]
    /\ proc' = [proc EXCEPT !.pc = "receipt"]
    /\ UNCHANGED <<chain, mempool, receipts, faults>>

matches == file.tx[proc.label].value = proc.value

\* Signing whatever the file says.
sendPersistent_resign ==
    /\ proc.pc = "send"
    /\ buildSignedTransactionRecord

sendPersistent ==
    /\ proc.pc = "send"
    /\ IF Known(proc.label)
       THEN IF file.tx[proc.label].status = "reverted" \/ ~matches
            THEN Fails
            ELSE /\ proc' = [proc EXCEPT !.pc = "receipt"]
                 /\ UNCHANGED <<chain, mempool, receipts, file, faults>>
       ELSE \/ ~executes(chain, [label |-> proc.label, value |-> proc.value]) /\ Fails
            \/ buildSignedTransactionRecord

receiptOf(tx) == {r \in receipts : r.tx = tx}

\* The outcome is persisted; a revert throws.
persisted(ok) == [file EXCEPT !.tx[proc.label].status = IF ok THEN "confirmed" ELSE "reverted"]

backToLoop ==
    [proc EXCEPT !.pc = CASE proc.label[1] = "pool.fund" -> afterFund
                          [] proc.label[1] = "commit" -> "record"
                          [] OTHER -> "after",
                 !.label = IF proc.label[1] = "pool.fund" /\ file.id THEN <<"loop">> ELSE @,
                 !.errors = IF Looping(proc.label) THEN 0 ELSE @]

Outcome(r) ==
    /\ file' = persisted(r.ok)
    /\ proc' = IF r.ok THEN backToLoop ELSE threw(proc)
    /\ UNCHANGED <<chain, mempool, receipts, faults>>

receiptFor ==
    /\ proc.pc = "receipt"
    /\ LET tx == TxOf(proc.label)
       IN  IF receiptOf(tx) # {}
           THEN \E r \in receiptOf(tx) : Outcome(r)
           ELSE /\ tx \in mempool
                /\ proc' = [proc EXCEPT !.pc = "mark"]
                /\ UNCHANGED <<chain, mempool, receipts, file, faults>>

\* A node takes a transaction whose nonce is neither mined nor pending.
broadcastTransaction ==
    /\ proc.pc = "receipt"
    /\ LET tx == TxOf(proc.label)
       IN  /\ receiptOf(tx) = {} /\ tx \notin mempool
           /\ IF tx.nonce < chain.nonce \/ \E other \in mempool : other.nonce = tx.nonce
              THEN Fails
              ELSE /\ mempool' = mempool \cup {tx}
                   /\ proc' = [proc EXCEPT !.pc = "mark"]
                   /\ UNCHANGED <<chain, receipts, file, faults>>

MarkBroadcast ==
    /\ proc.pc = "mark"
    /\ file' = [file EXCEPT !.tx[proc.label].status = "broadcast"]
    /\ proc' = [proc EXCEPT !.pc = "wait"]
    /\ UNCHANGED <<chain, mempool, receipts, faults>>

\* pending.wait() has no time limit.
wait == proc.pc = "wait" /\ \E r \in receiptOf(TxOf(proc.label)) : Outcome(r)

----------------------------------------------------------------------------
\* runLifecycle

lifecycleSnapshot ==
    /\ proc.pc = "snap"
    /\ proc' = [proc EXCEPT !.pc = "decide", !.label = <<"loop">>, !.status = chain.status,
                            !.left = chain.left, !.round = chain.round, !.bond = chain.bond]
    /\ UNCHANGED <<chain, mempool, receipts, file, faults>>

bondShortfall ==
    LET required == requiredPostingBondForPool(Cap)
    IN  IF chain.paid /\ chain.credit /\ required > proc.bond THEN required - proc.bond ELSE 0

\* The slot is read after the submission, so it may be gone or settled by then.
challengedDecision ==
    CASE chain.slot = "pending" -> IF chain.left > 0 THEN "wait_resolution_finality" ELSE "finalize_resolution"
      [] chain.slot = "resolved" -> "refresh_chain_state"
      [] chain.slot = "open" /\ chain.left > 0 -> "wait_resolution"
      [] OTHER -> "expire_challenge"

\* Finalizing only once the grace after the window is over as well.
solverLifecycleDecision_late ==
    IF proc.status = Revealed /\ proc.left > -Window THEN "wait_challenge_window"
    ELSE IF proc.status = Revealed THEN "finalize"
    ELSE IF proc.status = Committed THEN "reveal"
    ELSE IF proc.status = Challenged THEN challengedDecision
    ELSE IF chain.claimable > 0 THEN "claim_bond"
    ELSE IF proc.status = Finalized /\ ~chain.closed THEN "wait_close" ELSE "done"

solverLifecycleDecision ==
    LET status == proc.status
    IN  CASE status = Committed -> "reveal"
          [] status = Revealed ->
               IF proc.left > 0 THEN "wait_challenge_window"
               ELSE IF bondShortfall > 0 THEN "top_up_bond" ELSE "finalize"
          [] status = Challenged -> challengedDecision
          [] status \in {Finalized, Rejected, Voided} /\ chain.claimable > 0 -> "claim_bond"
          [] status = Finalized /\ ~chain.closed ->
               IF CloseRequested /\ chain.status \notin Committed .. Challenged /\ ~chain.others
               THEN "close" ELSE "wait_close"
          [] status = Finalized /\ chain.closed /\ chain.payout > 0 /\ chain.claimLeft > 0 -> "claim_payout"
          [] status \in {Finalized, Rejected, Voided} -> "done"
          [] OTHER -> "refresh_chain_state"

Waits == {"wait_challenge_window", "wait_resolution", "wait_resolution_finality", "refresh_chain_state", "wait_close"}

labelFor(action) ==
    CASE action = "reveal" -> <<"reveal">>
      [] action = "top_up_bond" -> <<"topUpBond", proc.bond, bondShortfall>>
      [] action = "finalize" -> <<"finalize", proc.round>>
      [] action = "expire_challenge" -> <<"expireChallenge", IF chain.slot = "none" THEN 0 ELSE chain.instance>>
      [] action = "finalize_resolution" -> <<"finalizeResolution", chain.instance>>
      [] action = "claim_bond" -> <<"claimBond", chain.claimable>>
      [] action = "close" -> <<"ledger.close">>

sends(label, phase) ==
    /\ proc' = [proc EXCEPT !.pc = "send", !.label = label,
                            !.value = IF label[1] = "topUpBond" THEN label[3] ELSE 0]
    /\ file' = [file EXCEPT !.phase = phase]

\* The preflight of the destination: armed, open, below its cap and in time.
donationDestinationReady == Donate /\ chain.ready

\* An award goes to the other pool while that one is ready, to the solver in the
\* last stretch before the deadline, and otherwise waits.
claimPayout ==
    IF ~Donate THEN sends(<<"pool.claim">>, "claim_payout")
    ELSE IF donationDestinationReady THEN sends(<<"donateClaimToPool">>, "claim_payout")
    ELSE IF chain.claimLeft <= FallbackWindow THEN sends(<<"pool.claim">>, "claim_payout")
    ELSE /\ proc' = [proc EXCEPT !.pc = "snap", !.polled = TRUE]
         /\ file' = [file EXCEPT !.phase = "waiting_for_donation_destination"]

runLifecycle ==
    /\ proc.pc = "decide"
    /\ LET action == solverLifecycleDecision
       IN  IF proc.submitOnly /\ proc.status >= Revealed
           THEN /\ file' = [file EXCEPT !.phase = "submit_only"]
                /\ proc' = [proc EXCEPT !.pc = "off", !.polled = TRUE]
           ELSE CASE action \in Waits ->
                       /\ proc' = [proc EXCEPT !.pc = "after", !.errors = 0]
                       /\ file' = [file EXCEPT !.phase = action]
                  [] action = "done" ->
                       /\ file' = [file EXCEPT !.phase = IF proc.status = Finalized THEN "complete" ELSE "terminated"]
                       /\ proc' = [proc EXCEPT !.pc = "off", !.polled = TRUE]
                  [] action = "claim_payout" -> claimPayout
                  [] OTHER -> sends(labelFor(action), action)
    /\ UNCHANGED <<chain, mempool, receipts, faults>>

\* The end of a pass; --submit-only looks again.
PassEnds ==
    /\ proc.pc = "after"
    /\ LET stops == proc.submitOnly /\ chain.status >= Revealed
       IN  /\ file' = IF stops THEN [file EXCEPT !.phase = "submit_only"] ELSE file
           /\ proc' = [proc EXCEPT !.pc = IF stops THEN "off" ELSE "snap", !.polled = TRUE, !.label = <<"loop">>]
    /\ UNCHANGED <<chain, mempool, receipts, faults>>

----------------------------------------------------------------------------
\* The network and the wallet's node

Mine ==
    /\ \E tx \in mempool :
         /\ tx.nonce = chain.nonce
         /\ LET ok == executes(chain, tx)
            IN  /\ receipts' = receipts \cup {[tx |-> tx, ok |-> ok]}
                /\ chain' = [IF ok THEN applied(chain, tx) ELSE chain EXCEPT !.nonce = @ + 1]
         /\ mempool' = {other \in mempool : other.nonce # tx.nonce}
    /\ UNCHANGED <<file, proc, faults>>

Drop ==
    /\ faults.drop < MaxDrops /\ faults' = [faults EXCEPT !.drop = @ + 1]
    /\ \E tx \in mempool : mempool' = mempool \ {tx}
    /\ UNCHANGED <<chain, receipts, file, proc>>

RpcFails ==
    /\ faults.net < MaxFaults
    /\ proc.pc \in {"commit", "send", "receipt", "snap", "decide"}
    /\ faults' = [faults EXCEPT !.net = @ + 1]
    /\ proc' = threw(proc)
    /\ UNCHANGED <<chain, mempool, receipts, file>>

Crash ==
    /\ proc.pc # "off" /\ faults.crash < MaxCrashes
    /\ faults' = [faults EXCEPT !.crash = @ + 1]
    /\ proc' = [proc EXCEPT !.pc = "off", !.polled = FALSE]
    /\ UNCHANGED <<chain, mempool, receipts, file>>

----------------------------------------------------------------------------
\* Everybody else on the board

Others(c) == chain' = c /\ UNCHANGED <<mempool, receipts, file, proc, faults>>

down(n) == IF n > 0 THEN n - 1 ELSE 0

Tick ==
    /\ Patient => \/ file.phase \in Ended
                  \/ proc.pc \in {"snap", "off"} /\ proc.polled /\ mempool = {}
    /\ ~chain.paused
    /\ chain' = [chain EXCEPT !.left = IF @ > -Window THEN @ - 1 ELSE @,
                              !.fundLeft = down(@), !.closeLeft = down(@), !.claimLeft = down(@),
                              !.lapsed = @ \/ (chain.claimLeft = 1 /\ chain.payout > 0)]
    /\ chain' # chain
    /\ proc' = [proc EXCEPT !.polled = FALSE]
    /\ UNCHANGED <<mempool, receipts, file, faults>>

Arm == MayArm /\ ~chain.armed /\ Others([chain EXCEPT !.armed = TRUE])

Supersede == chain.credit /\ chain.status < Finalized /\ Others([chain EXCEPT !.credit = FALSE])

Challenge ==
    /\ chain.status = Revealed /\ chain.left > 0 /\ chain.instance < MaxChallenges
    /\ Others([chain EXCEPT !.status = Challenged, !.slot = "open", !.instance = @ + 1, !.left = Window])

Resolve ==
    /\ chain.slot = "open" /\ chain.left > 0
    /\ \E u \in BOOLEAN : Others([chain EXCEPT !.slot = "pending", !.uphold = u, !.left = Window])

SettleDispute ==
    /\ chain.left <= 0
    /\ \/ chain.slot = "open" /\ Others(rearmed(chain))
       \/ chain.slot = "pending" /\ Others(settled(chain))

Expire ==
    /\ ~chain.paused
    /\ \/ chain.status = Committed /\ chain.left <= 0
       \/ chain.status = Revealed /\ chain.left <= -Window
    /\ Others([chain EXCEPT !.status = Rejected, !.bond = 0, !.forfeited = TRUE])

OthersSettle == chain.others /\ Others([chain EXCEPT !.others = FALSE])

CloseByOthers ==
    executes(chain, [label |-> <<"ledger.close">>, value |-> 0]) /\ Others(closedOn(chain))

\* Permissionless, and the only way a paid finalization's bond comes free.
releaseFinalizedBond ==
    /\ MayRelease /\ chain.closed /\ chain.status = Finalized /\ chain.bond > 0
    /\ Others([chain EXCEPT !.claimable = @ + chain.bond, !.bond = 0])

DestinationChanges ==
    /\ Donate /\ chain.closed /\ faults.flap < MaxFlaps
    /\ chain' = [chain EXCEPT !.ready = ~@]
    /\ faults' = [faults EXCEPT !.flap = @ + 1]
    /\ UNCHANGED <<mempool, receipts, file, proc>>

Pause == MayPause /\ ~chain.paused /\ faults.flap < MaxFlaps
         /\ chain' = [chain EXCEPT !.paused = TRUE]
         /\ faults' = [faults EXCEPT !.flap = @ + 1]
         /\ UNCHANGED <<mempool, receipts, file, proc>>

Unpause == chain.paused /\ Others([chain EXCEPT !.paused = FALSE])

voidFinalize ==
    /\ chain.paused /\ chain.status = Finalized /\ chain.credit /\ ~chain.closed
    /\ Others([chain EXCEPT !.status = Voided, !.bond = 0])

----------------------------------------------------------------------------
Main == loadState \/ prepareDataAvailability \/ CheckFrontier \/ Commit \/ submissionIdFromCommittedReceipt
Send == sendPersistent \/ receiptFor \/ broadcastTransaction \/ MarkBroadcast \/ wait
Loop == lifecycleSnapshot \/ runLifecycle \/ PassEnds
Solver == Main \/ Send \/ Loop
Board == \/ Tick \/ Arm \/ Supersede \/ Challenge \/ Resolve \/ SettleDispute \/ Expire \/ OthersSettle
         \/ CloseByOthers \/ releaseFinalizedBond \/ DestinationChanges \/ Pause \/ Unpause \/ voidFinalize
Network == Mine \/ Drop \/ RpcFails \/ Crash

Next == Solver \/ Board \/ Network

Spec == Init /\ [][Next]_vars

\* The process runs and is started again, nodes mine, time passes, open
\* submissions of others settle, missed windows are expired and, where the solver
\* was not asked to, somebody closes.
FairSpec ==
    /\ Spec
    /\ WF_vars(Solver) /\ WF_vars(Mine) /\ WF_vars(Tick)
    /\ WF_vars(OthersSettle) /\ WF_vars(Expire) /\ WF_vars(~CloseRequested /\ CloseByOthers)

----------------------------------------------------------------------------
TypeOK ==
    /\ proc.pc \in {"off", "da", "frontier", "commit", "record", "send", "receipt", "mark", "wait",
                    "snap", "decide", "after"}
    /\ proc.errors \in 0 .. MaxErrors - 1
    /\ chain.status \in NoStatus .. Voided /\ chain.bond >= 0 /\ chain.nonce >= 0
    /\ \A label \in DOMAIN file.tx :
         file.tx[label].status \in {"signed", "broadcast", "confirmed", "reverted"}
    /\ \A tx \in mempool : Known(tx.label)

\* However often the process dies, the wallet funds once, commits once and
\* never holds more than the bond the cap asks for: what was sent is found again
\* (solver.mjs sendPersistent).
PaysOnce ==
    /\ chain.commits <= 1 /\ chain.funds <= 1
    /\ chain.bond + chain.claimable <= requiredPostingBondForPool(Cap)

\* A process that says it is finished has left nothing it could collect: no
\* claimable bond, and no award that can still be claimed (solver.mjs "done").
FinishedMeansSettled ==
    /\ file.phase = "complete" => /\ chain.status \in {Finalized, Voided} /\ chain.closed
                                  /\ chain.payout > 0 => chain.claimLeft = 0
    /\ file.phase = "terminated" => chain.status \in {Rejected, Voided} /\ chain.claimable = 0

\* The transaction the process is about to use can still be mined: no later one
\* took its nonce, though another label may have been signed after it was
\* (solver.mjs:231, a label keeps its first nonce for ever).
NeededRecordsUsable ==
    proc.pc \in {"receipt", "mark", "wait"} =>
        LET tx == TxOf(proc.label) IN receiptOf(tx) # {} \/ tx.nonce >= chain.nonce

\* agent/README.md:135: the upload is confirmed and recorded before the commit
\* is signed.
CommitAfterUpload == Arweave /\ Known(<<"commit">>) => file.arweave

\* With windows long against a pass, and no governance action, a solver that is
\* restarted after every crash never lets its bond lapse to the treasury.
BondNotForfeited == ~chain.forfeited

\* Nor does it let an award lapse at the claim deadline (agent/README.md:559-562
\* says so even of a donation target that comes and goes).
AwardNotDestroyed == ~chain.lapsed

\* What the header and agent/README.md:5-6 promise of the last stage: the bond
\* is reclaimed before the process calls itself complete.
BondReclaimed == file.phase = "complete" => chain.bond = 0 /\ chain.claimable = 0

\* Every submission the process committed is carried to an end.
LifecycleEnds == chain.commits > 0 ~> file.phase \in Ended

\* A mined commit is found again after a crash.
CommitIsRecovered == chain.commits > 0 ~> file.id
=============================================================================
