--------------------------- MODULE ResolverAgent ---------------------------
(***************************************************************************)
(* agent/resolver.mjs, agent/resolver-quorum.mjs and the signing policy of *)
(* agent/resolver-signer.mjs: how a finalized Challenged event becomes one *)
(* quorum decision on chain.                                               *)
(*                                                                         *)
(* Every board runs its own resolver process, with its own cursor, state   *)
(* file and action journals; all of them share one coordination lock and   *)
(* one ledger of reserved decision bonds.  A pass of a board reconciles    *)
(* the ledger, scans the finalized range, prepares an action for the event *)
(* it finds, and moves the action on: decision packet, collected           *)
(* signatures, call policy, signed transaction, broadcast, receipt.        *)
(* Independent signers each answer a packet at most once per challenge.    *)
(* Chain, quorum contract and agent wallet are here as the agent sees      *)
(* them; one challenge per board.                                          *)
(***************************************************************************)
EXTENDS Integers, FiniteSets

CONSTANTS
    Challenges,       \* the boards; each has one challenge
    Signers,          \* the signers of every epoch of the quorum
    Threshold,        \* signatures a decision needs
    Stake,            \* the quorum's stake, in decision bonds
    Evidence,         \* the transcripts a runner may deliver
    Truth,            \* what an honest rerun of a challenge finds
    ChallengeWindow,  \* the dispute window, in ticks
    ChallengeDelay,   \* ticks between a reveal and its challenge
    Overlap,          \* blocks every scan repeats
    MaxBlock,         \* bound on the finalized height
    MaxEpoch,         \* bound on signer rotations
    Faults,           \* the disturbances that may happen
    MaxFaults,        \* bound on their number
    None

AgentAssumption ==
    /\ Threshold \in 1 .. Cardinality(Signers)
    /\ {Stake, Overlap, MaxBlock, MaxFaults, ChallengeDelay} \subseteq Nat
    /\ {MaxEpoch, ChallengeWindow} \subseteq Nat \ {0}
    /\ Truth \in [Challenges -> Evidence]
    /\ IsFiniteSet(Challenges) /\ IsFiniteSet(Signers)
    /\ None \notin Challenges \cup {"reserved", "onchain"}

Epochs == 1 .. MaxEpoch

\* A call policy is named by its challenge, its epoch and its signatures.
Policies == [c : Challenges, e : Epochs, s : {S \in SUBSET Signers : Cardinality(S) >= Threshold}]

VARIABLES
    head,         \* the finalized height
    ch,           \* challenge -> its state on chain and its event's block
    reorged,      \* challenges whose event block has lost its old hash
    stake,        \* bonds the quorum holds
    hold,         \* "none", "paused" (quorum), "unbound" (registry binding)
    epoch,        \* the quorum's signer epoch
    slot,         \* the exact call the agent wallet allows
    transcripts,  \* challenge -> transcripts in the runner's directory
    published,    \* challenges whose transcript both gateways serve
    next,         \* challenge -> resolver-cursor.json
    act,          \* challenge -> the action in resolver-state.json
    ledger,       \* challenge -> its entry in the shared reservation file
    packets,      \* decision packets written: <<challenge, epoch>>
    decided,      \* challenge -> the transcript its packets decide from
    tx,           \* policy -> its journal and its transaction
    auth,         \* signer -> challenge -> the epoch it has authorized, or 0
    sigs,         \* signature artifacts: <<signer, challenge, epoch>>
    lock, pc,     \* who runs a pass, and where it is
    faults

chainVars == <<head, ch, reorged, stake, hold, epoch, slot>>
inputVars == <<transcripts, published>>
signerVars == <<auth, sigs>>
agentVars == <<next, act, ledger, packets, decided>>
vars == <<chainVars, inputVars, signerVars, agentVars, tx, lock, pc, faults>>

TERMINAL_ACTIONS == {"confirmed", "broadcast_reverted", "superseded",
                     "onchain_observed", "orphaned_reorg"}
RETRYABLE == {"awaiting_transcript", "invalid_transcript", "ambiguous_transcript",
              "awaiting_registry_binding", "awaiting_publication",
              "awaiting_quorum_epoch_refresh", "awaiting_quorum_stake",
              "awaiting_quorum_unpause"}
Statuses == TERMINAL_ACTIONS \cup RETRYABLE \cup
            {"awaiting_quorum_signatures", "prepared", "signed", "broadcast",
             "submitted", "reorged"}

Action == [st : Statuses, quorum : BOOLEAN, e : 0 .. MaxEpoch, pol : Policies \cup {None}]
NoneIsNothing == None \notin Policies \cup Action

(* What PromisesBacked rests on beside the code: a decision that was mined   *)
(* stays on chain, and nobody but the resolvers relays one.                  *)
OwnDecisionsStay == Faults \cap {"reorg", "elsewhere"} = {}

\* An action made by prepareAction alone has no transport: quorum is FALSE.
bareAction(st) == [st |-> st, quorum |-> FALSE, e |-> 0, pol |-> None]

----------------------------------------------------------------------------
\* Evidence

(* validateDecisionEvidence: who wins by a transcript, or a refusal.        *)
validateDecisionEvidence(t) ==
    CASE t.action = "quarantine" -> "refused"
      [] t.action = "none" ->
            IF t.report = "accepted" /\ t.relation \in {"exact", "claimed_worse_than_verified"}
            THEN "solver" ELSE "refused"
      [] t.action = "score_underclaimed" ->
            IF t.report = "accepted" /\ t.relation = "claimed_better_than_verified"
            THEN "challenger" ELSE "refused"
      [] t.action = "verifier_rejected" ->
            IF t.report = "rejected" THEN "challenger" ELSE "refused"
      [] t.action = "da" -> IF t.report = "none" THEN "challenger" ELSE "refused"
      [] OTHER -> "refused"

(* What a transcript says of itself has to be this event's and this board's:*)
(* its chain claim, its board identity, its candidate; and it has to decide.*)
validateChainClaim(t) == t.wrong # "claim"
validateBoardIdentity(t) == t.wrong # "identity"
validateCandidate(t) == t.wrong # "candidate"
verifyResolverTranscript(t) ==
    /\ validateChainClaim(t) /\ validateBoardIdentity(t) /\ validateCandidate(t)
    /\ validateDecisionEvidence(t) # "refused"

(* findTranscriptForEvent: exactly one matching transcript, none invalid.   *)
transcriptStatus(c) ==
    IF \E t \in transcripts[c] : ~verifyResolverTranscript(t) THEN "invalid_transcript"
    ELSE IF transcripts[c] = {} THEN "awaiting_transcript"
    ELSE IF Cardinality(transcripts[c]) > 1 THEN "ambiguous_transcript"
    ELSE "found"

\* The packet expires with the dispute; the claim in the transcript still has
\* the deadline of the reveal.
challengeEndsAt == ChallengeWindow
disputeEndsAt == ChallengeDelay + ChallengeWindow

----------------------------------------------------------------------------
\* The shared reservations

(* sharedReservedStakeWei, in bonds.                                        *)
sharedReservedOwnBoard(c) == 0
sharedReservedStake(c) == Cardinality({d \in Challenges \ {c} : ledger[d] = "reserved"})

phaseOf(a) == IF a.st = "submitted" THEN "onchain" ELSE "reserved"

(* syncSharedQuorumReservation: the entry after its action became a.        *)
syncedEntry(entry, a) ==
    IF entry = None \/ ~a.quorum THEN entry
    ELSE IF a.st \in TERMINAL_ACTIONS THEN None ELSE phaseOf(a)

(* reconcileSharedQuorumReservations: every entry against the state file of *)
(* its board.                                                               *)
reconciledLedger ==
    [c \in Challenges |->
        IF ledger[c] = None \/ act[c] = None THEN None
        ELSE IF act[c].st \in TERMINAL_ACTIONS THEN None ELSE phaseOf(act[c])]

(* currentChallenge: what the live chain says of the decision of c.         *)
currentChallenge(c) ==
    IF ch[c].st \notin {"open", "decided"} THEN "superseded"
    ELSE IF hold = "unbound" THEN "awaiting_registry_binding"
    ELSE IF ch[c].st = "decided" THEN "onchain_observed"
    ELSE IF hold = "paused" THEN "awaiting_quorum_unpause"
    ELSE IF stake < 1 + sharedReservedStake(c) THEN "awaiting_quorum_stake"
    ELSE "ok"

----------------------------------------------------------------------------
\* A pass

Init ==
    /\ head = 0 /\ hold = "none" /\ epoch = 1 /\ stake = Stake
    /\ ch = [c \in Challenges |-> [st |-> "none", blk |-> 0]]
    /\ reorged = {} /\ slot = None
    /\ transcripts = [c \in Challenges |-> {}] /\ published = {}
    /\ next = [c \in Challenges |-> 0]
    /\ act = [c \in Challenges |-> None] /\ ledger = [c \in Challenges |-> None]
    /\ packets = {} /\ decided = [c \in Challenges |-> None]
    /\ tx = [p \in Policies |-> [st |-> "none", nonce |-> 0]]
    /\ auth = [s \in Signers |-> [c \in Challenges |-> 0]] /\ sigs = {}
    /\ lock = None /\ pc = "idle" /\ faults = 0

at(c, where) == lock = c /\ pc = where
goto(where) == pc' = where /\ UNCHANGED lock
endPass == lock' = None /\ pc' = "idle"

(* scanOnce: take the lock, load and reconcile the reservations.            *)
BeginPass(c) ==
    /\ lock = None
    /\ lock' = c /\ pc' = "scan"
    /\ ledger' = reconciledLedger
    /\ UNCHANGED <<chainVars, inputVars, signerVars, next, act, packets, decided, tx, faults>>

(* cursorAnchorMismatch: an anchor of the last Overlap + 1 blocks has lost  *)
(* its hash.                                                                *)
cursorAnchorMismatch(c) == c \in reorged /\ ch[c].blk < next[c] /\ ch[c].blk >= next[c] - Overlap - 1
rewound(c) == IF cursorAnchorMismatch(c) THEN ch[c].blk ELSE next[c]

(* nextResolverScanRange: the range starts Overlap blocks before the cursor.*)
inScanRange(c) == ch[c].blk >= rewound(c) - Overlap /\ ch[c].blk <= head
eventSeen(c) == ch[c].st \notin {"none", "gone"} /\ inScanRange(c)

(* markOrphanedActions: an action whose event is not in the range any more. *)
orphans(c) == /\ act[c] # None /\ act[c].st # "orphaned_reorg"
              /\ inScanRange(c) /\ ~eventSeen(c)

(* prepareAction looks again only at actions it may still improve.          *)
prepares(c) == eventSeen(c) /\ (act[c] = None \/ act[c].st \in RETRYABLE)

(* publishResolverTranscript: an accepted receipt and both gateways serving *)
(* the same bytes.                                                          *)
transcriptPublished(c) == c \in published

(* buildResolverQuorumDecisionPacket: the epoch is part of the digest.      *)
decisionPacket(c) == <<c, epoch>>

(* prepareAction: the new action; a refusal leaves one without transport.   *)
preparedAction(c) ==
    IF transcriptStatus(c) # "found" THEN bareAction(transcriptStatus(c))
    ELSE IF ~transcriptPublished(c) THEN bareAction("awaiting_publication")
    ELSE IF currentChallenge(c) # "ok" THEN bareAction(currentChallenge(c))
    ELSE [st |-> "awaiting_quorum_signatures", quorum |-> TRUE, e |-> epoch, pol |-> None]

(* Files written before the state: the packet, then the reservation.        *)
preparedFiles(c) ==
    IF prepares(c) /\ preparedAction(c).quorum
    THEN /\ packets' = packets \cup {decisionPacket(c)}
         /\ decided' = [decided EXCEPT ![c] = CHOOSE t \in transcripts[c] : TRUE]
         /\ ledger' = [ledger EXCEPT ![c] = IF @ = None THEN "reserved" ELSE @]
    ELSE /\ UNCHANGED <<packets, decided>>
         /\ ledger' = IF orphans(c) /\ act[c].quorum THEN [ledger EXCEPT ![c] = None] ELSE ledger

(* scanOnceUnlocked up to its persistState: orphaned actions, then the      *)
(* event of the range.                                                      *)
Scan(c) ==
    /\ at(c, "scan") /\ goto("cursor")
    /\ preparedFiles(c)
    /\ act' = [act EXCEPT ![c] =
            IF orphans(c) THEN [@ EXCEPT !.st = "orphaned_reorg"]
            ELSE IF prepares(c) THEN preparedAction(c) ELSE @]
    /\ next' = [next EXCEPT ![c] = rewound(c)]
    /\ UNCHANGED <<chainVars, inputVars, signerVars, tx, faults>>

(* The process dies after the packet and the ledger, before the state.      *)
ScanCrash(c) ==
    /\ at(c, "scan") /\ "crash" \in Faults /\ faults < MaxFaults
    /\ preparedFiles(c) /\ endPass
    /\ faults' = faults + 1
    /\ UNCHANGED <<chainVars, inputVars, signerVars, next, act, tx>>

(* persistCursor: the cursor moves to the end of the range, with new        *)
(* anchors.                                                                 *)
persistCursor(c) ==
    /\ at(c, "cursor") /\ goto("hydrate")
    /\ next' = [next EXCEPT ![c] = IF rewound(c) - Overlap > head THEN @ ELSE head + 1]
    /\ reorged' = reorged \ {c}
    /\ UNCHANGED <<head, ch, stake, hold, epoch, slot, inputVars, signerVars, act, ledger,
                   packets, decided, tx, faults>>

(* The action takes status st, and the ledger follows.                      *)
setStatus(c, st) ==
    LET a == [act[c] EXCEPT !.st = st]
    IN /\ act' = [act EXCEPT ![c] = a]
       /\ ledger' = [ledger EXCEPT ![c] = syncedEntry(@, a)]

(* readQuorumSignatureArtifacts: one file for each signer of the epoch.     *)
signatureArtifacts(c) == {g \in sigs : g[2] = c /\ g[3] = act[c].e}

(* collectResolverQuorumSignatures: who signed this packet.                 *)
collected(c) == {g[1] : g \in signatureArtifacts(c)}

(* buildQuorumResolveCallPolicy: the exact call, all collected signatures.  *)
quorumCallPolicy(c) == [c |-> c, e |-> act[c].e, s |-> collected(c)]

(* hydrateQuorumAction: packet to call policy, unless the chain, the epoch  *)
(* or the signatures say wait.                                              *)
hydrate(c) ==
    IF currentChallenge(c) # "ok" THEN setStatus(c, currentChallenge(c)) /\ endPass /\ UNCHANGED tx
    ELSE IF act[c].e # epoch
         THEN /\ act' = [act EXCEPT ![c].st = "awaiting_quorum_epoch_refresh"]
              /\ endPass /\ UNCHANGED <<ledger, tx>>
    ELSE IF Cardinality(collected(c)) < Threshold
         THEN /\ act' = [act EXCEPT ![c].st = "awaiting_quorum_signatures"]
              /\ endPass /\ UNCHANGED <<ledger, tx>>
    ELSE LET p == quorumCallPolicy(c)
         IN /\ act' = [act EXCEPT ![c] = [@ EXCEPT !.st = "prepared", !.pol = p]]
            /\ tx' = [tx EXCEPT ![p].st = IF @ = "none" THEN "policy" ELSE @]
            /\ goto("sign") /\ UNCHANGED ledger

(* reconcileAction: nothing to do, or hydrate, or straight to the journal.  *)
Reconcile(c) ==
    /\ at(c, "hydrate")
    /\ IF act[c] = None \/ (act[c] # None /\ (act[c].st \in TERMINAL_ACTIONS \/ ~act[c].quorum))
       THEN endPass /\ UNCHANGED <<act, ledger, tx>>
       ELSE IF act[c].pol = None THEN hydrate(c)
       ELSE goto("sign") /\ UNCHANGED <<act, ledger, tx>>
    /\ UNCHANGED <<chainVars, inputVars, signerVars, next, packets, decided, faults>>

\* The quorum and the agent wallet as src/ calls them.
onChain == {"mined", "reverted", "final", "failed"}
minedCount == Cardinality({p \in Policies : tx[p].st \in onChain})
pendingNonce == minedCount + Cardinality({p \in Policies : tx[p].st = "pending"})
(* P42ResolverQuorum.resolve behind P42AgentWallet.execute.                 *)
resolveSucceeds(p) ==
    /\ slot = p
    /\ hold # "paused" /\ p.e = epoch /\ ch[p.c].st = "open" /\ stake >= 1

(* buildResolveTransactionRequest: the wallet's policy and a static call.   *)
signable(p) == resolveSucceeds(p)

(* assertActionPolicy: the policy is bound to the action's decision.        *)
assertActionPolicy(c, p) ==
    p.c = c /\ p.e = act[c].e /\ <<c, p.e>> \in packets /\ Cardinality(p.s) >= Threshold

(* ensureSignedAction: an existing record is used again; a new one is       *)
(* written before the state says signed.                                    *)
Sign(c) ==
    /\ at(c, "sign")
    /\ LET p == act[c].pol IN
       IF ~assertActionPolicy(c, p) THEN endPass /\ UNCHANGED <<act, ledger, tx>>
       ELSE IF tx[p].st # "policy"
       THEN /\ act' = [act EXCEPT ![c].st = IF @ = "prepared" THEN "signed" ELSE @]
            /\ goto("send") /\ UNCHANGED <<ledger, tx>>
       ELSE IF currentChallenge(c) # "ok"
       THEN setStatus(c, currentChallenge(c)) /\ endPass /\ UNCHANGED tx
       ELSE IF signable(p)
       THEN /\ tx' = [tx EXCEPT ![p] = [st |-> "signed", nonce |-> pendingNonce]]
            /\ goto("sign") /\ UNCHANGED <<act, ledger>>
       ELSE endPass /\ UNCHANGED <<act, ledger, tx>>
    /\ UNCHANGED <<chainVars, inputVars, signerVars, next, packets, decided, faults>>

(* A raw transaction whose nonce is used is refused by every node.          *)
broadcastable(p) == tx[p].nonce >= minedCount

(* classifyReceiptFinality of the transaction's receipt.                    *)
receiptState(p) ==
    CASE tx[p].st \in {"mined", "reverted"} -> "submitted"
      [] tx[p].st = "final" -> "confirmed"
      [] tx[p].st = "failed" -> "broadcast_reverted"
      [] tx[p].st = "orphaned" -> "reorged"
      [] OTHER -> "none"

(* The rest of reconcileAction: receipt, pending, or a fresh look at the    *)
(* chain before the same bytes go out again.                                *)
Send(c) ==
    /\ at(c, "send") /\ endPass
    /\ LET p == act[c].pol IN
       \/ /\ receiptState(p) \notin {"none", "reorged"}
          /\ setStatus(c, receiptState(p)) /\ UNCHANGED tx
       \/ tx[p].st = "pending" /\ setStatus(c, "broadcast") /\ UNCHANGED tx
       \/ /\ tx[p].st \in {"signed", "orphaned"} /\ currentChallenge(c) # "ok"
          /\ setStatus(c, currentChallenge(c)) /\ UNCHANGED tx
       \/ /\ tx[p].st \in {"signed", "orphaned"} /\ currentChallenge(c) = "ok"
          /\ IF broadcastable(p)
             THEN setStatus(c, "broadcast") /\ tx' = [tx EXCEPT ![p].st = "pending"]
             ELSE /\ IF receiptState(p) = "reorged" THEN setStatus(c, "reorged")
                     ELSE UNCHANGED <<act, ledger>>
                  /\ UNCHANGED tx
    /\ UNCHANGED <<chainVars, inputVars, signerVars, next, packets, decided, faults>>

(* The pass dies between two writes; the next one takes the lock over.      *)
Crash ==
    /\ lock # None /\ "crash" \in Faults /\ faults < MaxFaults
    /\ endPass /\ faults' = faults + 1
    /\ UNCHANGED <<chainVars, inputVars, signerVars, agentVars, tx>>

Pass(c) == Scan(c) \/ persistCursor(c) \/ Reconcile(c) \/ Sign(c) \/ Send(c)

----------------------------------------------------------------------------
\* Signers

(* observeIndependentSignerState: what both RPCs report at the finalized    *)
(* block.                                                                   *)
observeIndependentSignerState(c, e) ==
    ch[c].st = "open" /\ ch[c].blk <= head /\ hold # "paused" /\ e = epoch

(* verifyIndependentResolverDecision: the packet against the published      *)
(* transcript and the signer's own rerun of it.                             *)
verifyIndependentResolverDecision(c, e) ==
    /\ <<c, e>> \in packets
    /\ disputeEndsAt = challengeEndsAt
    /\ decided[c] = Truth[c]

(* persistSignerAuthorization: written once for a challenge instance;       *)
(* other content is refused.                                                *)
mayAuthorizePerDigest(s, c, e) == TRUE
mayAuthorize(s, c, e) == auth[s][c] \in {0, e}
Authorize(s, c, e) ==
    /\ observeIndependentSignerState(c, e) /\ verifyIndependentResolverDecision(c, e)
    /\ mayAuthorize(s, c, e)
    /\ auth[s][c] # e
    /\ auth' = [auth EXCEPT ![s][c] = e]
    /\ UNCHANGED <<chainVars, inputVars, agentVars, sigs, tx, lock, pc, faults>>

(* The artifact is written after the authorization; a crash between them    *)
(* is a signer that does not come this far.                                 *)
SignDecision(s, c, e) ==
    /\ auth[s][c] = e /\ <<s, c, e>> \notin sigs
    /\ sigs' = sigs \cup {<<s, c, e>>}
    /\ UNCHANGED <<chainVars, inputVars, agentVars, auth, tx, lock, pc, faults>>

----------------------------------------------------------------------------
\* Chain, runner and wallet owner

quietAgent == UNCHANGED <<signerVars, agentVars, lock, pc>>

(* A Challenged event, in the next block to become final.                   *)
Challenge(c) ==
    /\ ch[c].st = "none" /\ head < MaxBlock
    /\ ch' = [ch EXCEPT ![c] = [st |-> "open", blk |-> head + 1]]
    /\ quietAgent /\ UNCHANGED <<head, reorged, stake, hold, epoch, slot, inputVars, tx, faults>>

AdvanceBlock ==
    /\ head < MaxBlock /\ head' = head + 1
    /\ quietAgent /\ UNCHANGED <<ch, reorged, stake, hold, epoch, slot, inputVars, tx, faults>>

CloseDispute(c) ==
    /\ ch[c].st = "open"
    /\ ch' = [ch EXCEPT ![c].st = "closed"]
    /\ quietAgent /\ UNCHANGED <<head, reorged, stake, hold, epoch, slot, inputVars, tx, faults>>

DeliverTranscript(c, t) ==
    /\ ch[c].st = "open" /\ t \notin transcripts[c]
    /\ transcripts' = [transcripts EXCEPT ![c] = @ \cup {t}]
    /\ quietAgent /\ UNCHANGED <<chainVars, published, tx, faults>>

(* The upload is confirmed and both gateways serve it.                      *)
PublishTranscript(c) ==
    /\ transcripts[c] # {} /\ c \notin published
    /\ published' = published \cup {c}
    /\ quietAgent /\ UNCHANGED <<chainVars, transcripts, tx, faults>>

(* The owner provisions one exact call at a time and keeps it while its     *)
(* challenge is open.                                                       *)
Provision(p) ==
    /\ tx[p].st = "policy" /\ act[p.c] # None /\ act[p.c].pol = p
    /\ slot # p /\ (slot # None => (slot.c # p.c => ch[slot.c].st # "open"))
    /\ slot' = p
    /\ quietAgent /\ UNCHANGED <<head, ch, reorged, stake, hold, epoch, inputVars, tx, faults>>

Mine(p) ==
    /\ tx[p].st = "pending" /\ tx[p].nonce = minedCount
    /\ IF resolveSucceeds(p)
       THEN /\ tx' = [tx EXCEPT ![p].st = "mined"] /\ slot' = None
            /\ ch' = [ch EXCEPT ![p.c].st = "decided"] /\ stake' = stake - 1
       ELSE tx' = [tx EXCEPT ![p].st = "reverted"] /\ UNCHANGED <<ch, stake, slot>>
    /\ quietAgent /\ UNCHANGED <<head, reorged, hold, epoch, inputVars, faults>>

FinalizeTx(p) ==
    /\ tx[p].st \in {"mined", "reverted"}
    /\ tx' = [tx EXCEPT ![p].st = IF @ = "mined" THEN "final" ELSE "failed"]
    /\ quietAgent /\ UNCHANGED <<chainVars, inputVars, faults>>

(* The decision stands: its bond comes back, or is slashed.                 *)
Release(c) ==
    /\ ch[c].st = "decided"
    /\ \A p \in Policies : p.c = c => tx[p].st # "mined"
    /\ ch' = [ch EXCEPT ![c].st = "settled"]
    /\ stake' = stake + 1
    /\ quietAgent /\ UNCHANGED <<head, reorged, hold, epoch, slot, inputVars, tx, faults>>

fault(kind) == kind \in Faults /\ faults < MaxFaults /\ faults' = faults + 1

Slash(c) ==
    /\ fault("slash") /\ ch[c].st = "decided"
    /\ \A p \in Policies : p.c = c => tx[p].st # "mined"
    /\ ch' = [ch EXCEPT ![c].st = "settled"]
    /\ quietAgent /\ UNCHANGED <<head, reorged, stake, hold, epoch, slot, inputVars, tx>>

(* Anybody may relay a decision the quorum has signed.                      *)
RelayElsewhere(c) ==
    /\ fault("elsewhere") /\ ch[c].st = "open" /\ hold # "paused" /\ stake >= 1
    /\ Cardinality({s \in Signers : <<s, c, epoch>> \in sigs}) >= Threshold
    /\ ch' = [ch EXCEPT ![c].st = "decided"] /\ stake' = stake - 1
    /\ quietAgent /\ UNCHANGED <<head, reorged, hold, epoch, slot, inputVars, tx>>

DropTx(p) ==
    /\ fault("drop") /\ tx[p].st = "pending"
    /\ tx' = [tx EXCEPT ![p].st = "signed"]
    /\ quietAgent /\ UNCHANGED <<chainVars, inputVars>>

(* The block of a decision that is not final is replaced.                   *)
ReorgTx(p) ==
    /\ fault("reorg") /\ tx[p].st \in {"mined", "reverted"}
    /\ \A q \in Policies : tx[q].st \in onChain => tx[q].nonce <= tx[p].nonce
    /\ tx' = [tx EXCEPT ![p].st = "orphaned"]
    /\ IF tx[p].st = "mined"
       THEN /\ ch' = [ch EXCEPT ![p.c].st = IF @ = "decided" THEN "open" ELSE @]
            /\ stake' = stake + 1 /\ slot' = IF slot = None THEN p ELSE slot
       ELSE UNCHANGED <<ch, stake, slot>>
    /\ quietAgent /\ UNCHANGED <<head, reorged, hold, epoch, inputVars>>

(* A reorganization below the finality depth takes the event away.          *)
DeepReorg(c) ==
    /\ fault("deep") /\ ch[c].st = "open" /\ ch[c].blk <= head
    /\ ch' = [ch EXCEPT ![c].st = "gone"] /\ reorged' = reorged \cup {c}
    /\ quietAgent /\ UNCHANGED <<head, stake, hold, epoch, slot, inputVars, tx>>

SetHold(h) ==
    /\ fault("hold") /\ hold = "none" /\ h # "none" /\ hold' = h
    /\ quietAgent /\ UNCHANGED <<head, ch, reorged, stake, epoch, slot, inputVars, tx>>

LiftHold ==
    /\ hold # "none" /\ hold' = "none"
    /\ quietAgent /\ UNCHANGED <<head, ch, reorged, stake, epoch, slot, inputVars, tx, faults>>

RotateSigners ==
    /\ fault("rotate") /\ epoch < MaxEpoch /\ epoch' = epoch + 1
    /\ quietAgent /\ UNCHANGED <<head, ch, reorged, stake, hold, slot, inputVars, tx>>

(* At rest: no pass has anything left to do and nothing else can move.      *)
Next ==
    \/ \E c \in Challenges : BeginPass(c) \/ Pass(c) \/ ScanCrash(c)
    \/ Crash
    \/ \E s \in Signers, c \in Challenges, e \in Epochs : Authorize(s, c, e) \/ SignDecision(s, c, e)
    \/ AdvanceBlock \/ LiftHold \/ RotateSigners
    \/ \E h \in {"paused", "unbound"} : SetHold(h)
    \/ \E c \in Challenges :
            Challenge(c) \/ CloseDispute(c) \/ PublishTranscript(c) \/ Release(c) \/ Slash(c)
              \/ RelayElsewhere(c) \/ DeepReorg(c)
    \/ \E c \in Challenges, t \in Evidence : DeliverTranscript(c, t)
    \/ \E p \in Policies : Provision(p) \/ Mine(p) \/ FinalizeTx(p) \/ DropTx(p) \/ ReorgTx(p)

Spec == Init /\ [][Next]_vars

(* Every runtime keeps polling and its poll gets the lock; signers answer   *)
(* what they accept; blocks come, transactions are mined and become final,  *)
(* bonds come back, a pause is lifted, the owner provisions.  Nothing makes *)
(* a challenge, a transcript, a closing window or a fault happen.           *)
FairSpec ==
    /\ Spec
    /\ \A c \in Challenges :
         /\ SF_vars(BeginPass(c)) /\ WF_vars(Pass(c))
         /\ WF_vars(PublishTranscript(c)) /\ WF_vars(Release(c))
    /\ \A s \in Signers, c \in Challenges :
         WF_vars(\E e \in Epochs : Authorize(s, c, e) \/ SignDecision(s, c, e))
    /\ WF_vars(AdvanceBlock) /\ WF_vars(LiftHold)
    /\ WF_vars(\E p \in Policies : Provision(p))
    /\ WF_vars(\E p \in Policies : Mine(p))
    /\ WF_vars(\E p \in Policies : FinalizeTx(p))

----------------------------------------------------------------------------
\* Properties

(* The shape of the state; a status is one the code can write.              *)
TypeOK ==
    /\ head \in 0 .. MaxBlock /\ stake \in 0 .. Stake /\ epoch \in Epochs
    /\ hold \in {"none", "paused", "unbound"} /\ faults \in 0 .. MaxFaults
    /\ \A c \in Challenges :
         /\ ch[c].st \in {"none", "open", "decided", "settled", "closed", "gone"}
         /\ next[c] \in 0 .. MaxBlock + 1
         /\ act[c] # None => /\ act[c].st \in Statuses
                             /\ act[c].pol # None => act[c].pol \in Policies /\ act[c].quorum
         /\ ledger[c] \in {None, "reserved", "onchain"}
    /\ lock \in Challenges \cup {None}

(* The shared stake covers every decision that is promised and not yet on   *)
(* chain, whatever crashes, reorganizations and other boards do in between  *)
(* (resolver.mjs:1545, README: the same stake is never promised twice).     *)
PromisesBacked ==
    Cardinality({c \in Challenges : ledger[c] = "reserved" /\ ch[c].st = "open"}) <= stake

(* A signed decision that the chain would still accept has its bond         *)
(* reserved, in the ledger every board reads, whenever no pass is running.  *)
SignedIsReserved ==
    lock = None =>
      \A p \in Policies :
        /\ tx[p].st \in {"signed", "pending"} /\ ch[p.c].st = "open"
        /\ act[p.c] # None /\ act[p.c].st \notin TERMINAL_ACTIONS
        => ledger[p.c] # None

(* No signer signs two packets of one challenge, also over rotations        *)
(* (resolver-signer.mjs:412).                                               *)
NoEquivocation ==
    \A s \in Signers, c \in Challenges : Cardinality({e \in Epochs : <<s, c, e>> \in sigs}) <= 1

(* What reaches the chain is what an honest rerun finds, whatever           *)
(* transcripts the runner leaves in the directory.                          *)
DecisionsAreTrue ==
    \A c \in Challenges :
        ch[c].st \in {"decided", "settled"} =>
            validateDecisionEvidence(decided[c]) = validateDecisionEvidence(Truth[c])

(* An action that lost its event is never sent, and never revived           *)
(* (resolver.mjs:2041).                                                     *)
OrphansStayOrphaned ==
    [][\A c \in Challenges :
        act[c] # None /\ act[c].st = "orphaned_reorg" =>
            /\ act'[c] = act[c]
            /\ \A p \in Policies : p.c = c /\ tx[p].st # "pending" => tx'[p].st # "pending"]_vars

(* A confirmed action is on chain for good: the transaction it names is     *)
(* final and successful (resolver.mjs:1807).                                *)
ConfirmedIsFinal ==
    \A c \in Challenges :
        act[c] # None /\ act[c].st = "confirmed" =>
            ch[c].st \in {"decided", "settled"} /\ tx[act[c].pol].st = "final"

(* README: the raw bytes of a decision are persisted so that they can be    *)
(* sent again: while its challenge is open no other transaction of the      *)
(* resolver takes the nonce of signed bytes.                                *)
SignedBytesStayUsable ==
    \A p \in Policies :
        tx[p].st \in {"signed", "orphaned"} /\ ch[p.c].st = "open" => tx[p].nonce >= minedCount

readyToDecide(c) == ch[c].st = "open" /\ transcripts[c] = {Truth[c]}

(* A challenge whose one transcript is right is decided, or its window      *)
(* closes (README: consumes finalized logs, posts the decision).            *)
ChallengesDecided ==
    \A c \in Challenges :
        readyToDecide(c) ~> (ch[c].st # "open" \/ transcripts[c] # {Truth[c]})

(* A reservation ends once its challenge is over (README: until it is       *)
(* mined, superseded, or orphaned).                                         *)
ReservationsFreed ==
    \A c \in Challenges : (ch[c].st \in {"settled", "closed", "gone"}) ~> (ledger[c] = None)
=============================================================================
