---------------------------- MODULE ChainMonitor ----------------------------
(***************************************************************************)
(* agent/chain-monitor.mjs: one pass of the dual-RPC monitor               *)
(* (monitorDualRpcChainCore) over two nodes that advance, lag, switch to   *)
(* another chain or answer wrongly between any two of its reads.           *)
(*                                                                         *)
(* A block is a height on a branch; the branches share the blocks below    *)
(* ForkHeight.  Branch "main" is the canonical chain.  An honest node      *)
(* serves "main" only and answers truthfully; the other one may do         *)
(* anything a wrong or compromised RPC does.                               *)
(***************************************************************************)
EXTENDS Integers, FiniteSets

CONSTANTS
    MaxHeight,      \* bound on the chain
    ForkHeight,     \* first height at which the branches differ
    StartBlock,     \* manifest.indexer.startBlock
    MaxLag,         \* maxFinalizedLagBlocks
    Honest,         \* the nodes that serve the canonical chain
    FlipBound,      \* bound on branch switches of a dishonest node
    None

Nodes == {"primary", "secondary"}

MonitorAssumption ==
    /\ {MaxHeight, ForkHeight, StartBlock, MaxLag, FlipBound} \subseteq Nat
    /\ Honest \subseteq Nodes /\ ForkHeight > 0

Heights == 0 .. MaxHeight
block(branch, h) == [h |-> h, branch |-> IF h < ForkHeight THEN "main" ELSE branch]
Blocks == {block(b, h) : b \in {"main", "fork"}, h \in Heights}

VARIABLES
    view,       \* node -> the branch it serves
    fin, head,  \* node -> its finalized height and its head
    flips,
    pc,         \* node -> where the monitor is with it
    cur,        \* node -> the block it has reached on the way down
    tip,        \* node -> the finalized block the way down starts from
    tophead,    \* node -> the head it reported
    anchor,     \* the common finalized block, once selected
    recon,      \* node -> its reconstruction
    report

nodeVars == <<view, fin, head, flips>>
monitorVars == <<pc, cur, tip, tophead, anchor, recon, report>>
vars == <<nodeVars, monitorVars>>

perNode(x) == [n \in Nodes |-> x]
all(step) == \A n \in Nodes : pc[n] = step

Init ==
    /\ view = perNode("main") /\ flips = 0
    /\ fin \in [Nodes -> {h \in Heights : StartBlock - 1 <= h /\ h <= StartBlock}] /\ head = fin
    /\ pc = perNode("tag") /\ cur = perNode(None) /\ tip = perNode(None) /\ tophead = perNode(None)
    /\ anchor = None /\ recon = perNode(None) /\ report = None

----------------------------------------------------------------------------
\* The nodes

running == report = None

Advance(n) ==
    /\ running /\ head[n] < MaxHeight /\ head' = [head EXCEPT ![n] = @ + 1]
    /\ UNCHANGED <<view, fin, flips, monitorVars>>
Finalize(n) ==
    /\ running /\ fin[n] < head[n] /\ fin' = [fin EXCEPT ![n] = @ + 1]
    /\ UNCHANGED <<view, head, flips, monitorVars>>
Flip(n) ==
    /\ running /\ n \notin Honest /\ flips < FlipBound /\ flips' = flips + 1
    /\ view' = [view EXCEPT ![n] = IF @ = "main" THEN "fork" ELSE "main"]
    /\ UNCHANGED <<fin, head, monitorVars>>

\* Another backend of the same endpoint answers, one block behind.
Regress(n) ==
    /\ running /\ n \notin Honest /\ flips < FlipBound /\ flips' = flips + 1
    /\ fin[n] > 0 /\ fin' = [fin EXCEPT ![n] = @ - 1]
    /\ UNCHANGED <<view, head, monitorVars>>

served(n, h) == block(view[n], h)

(* A truthful reconstruction is determined by its block; a dishonest node   *)
(* may forge its data (None), claim another block or leave something out.  *)
truthful(b) == [at |-> b, data |-> b, complete |-> TRUE]
answers(n) ==
    IF n \in Honest THEN {truthful(served(n, anchor.h))}
    ELSE [at : {b \in Blocks : b.h = anchor.h}, data : {b \in Blocks : b.h = anchor.h} \cup {None},
          complete : BOOLEAN]

----------------------------------------------------------------------------
\* The monitor

go(n, step) == pc' = [pc EXCEPT ![n] = step]
failedReport(kinds) == report' = [ok |-> FALSE, kinds |-> kinds]

(* Until the anchor is selected a failure keeps its kind; in the final      *)
(* recheck it is transport, or else a reorg.                                *)
rechecking == anchor # None /\ \A n \in Nodes : recon[n] # None

validateCheckpointReconstruction(r) == r.complete
checkpointMatchesHeight(r) == r.at.h = anchor.h
checkpointMatchesAnchor(r) == r.at = anchor
canonicalComparisonDomains(r) == r.data

divergences ==
    IF ~rechecking THEN {}
    ELSE (IF \A n \in Nodes : validateCheckpointReconstruction(recon[n]) THEN {} ELSE {"storage"})
           \cup (IF \A n \in Nodes : checkpointMatchesAnchor(recon[n]) THEN {} ELSE {"anchor"})
           \cup (IF canonicalComparisonDomains(recon["primary"]) = canonicalComparisonDomains(recon["secondary"])
                 THEN {} ELSE {"domain"})

failing(kind) == failedReport(divergences \cup {IF rechecking /\ kind # "transport" THEN "reorg" ELSE kind})

(* rpcRead: any read of a node may fail.                                    *)
RpcFailure(n) ==
    /\ running /\ n \notin Honest /\ failing("transport")
    /\ UNCHANGED <<nodeVars, pc, cur, tip, tophead, anchor, recon>>

(* bindFinalizedTag: the tagged block, then the block at its height.        *)
ReadTag(n) ==
    /\ running /\ pc[n] = "tag" /\ go(n, "exact")
    /\ cur' = [cur EXCEPT ![n] = served(n, fin[n])]
    /\ UNCHANGED <<nodeVars, tip, tophead, anchor, recon, report>>

sameBlockIdentity(a, b) == a = b

BindFinalizedTag(n) ==
    /\ running /\ pc[n] = "exact"
    /\ IF sameBlockIdentity(cur[n], served(n, cur[n].h))
       THEN /\ go(n, IF rechecking THEN "descend" ELSE "bound")
            /\ tip' = [tip EXCEPT ![n] = cur[n]] /\ UNCHANGED report
       ELSE failing("anchor") /\ UNCHANGED <<pc, tip>>
    /\ UNCHANGED <<nodeVars, cur, tophead, anchor, recon>>

\* In parallel with the tags, so possibly before them.
ReadHead(n) ==
    /\ running /\ tophead[n] = None
    /\ tophead' = [tophead EXCEPT ![n] = head[n]]
    /\ UNCHANGED <<nodeVars, pc, cur, tip, anchor, recon, report>>

distance(a, b) == IF a > b THEN a - b ELSE b - a
commonNumber == IF tip["primary"].h < tip["secondary"].h THEN tip["primary"].h ELSE tip["secondary"].h

withinLag ==
    /\ \A n \in Nodes : tip[n].h <= tophead[n]
    /\ distance(tip["primary"].h, tip["secondary"].h) <= MaxLag
    /\ distance(tophead["primary"], tophead["secondary"]) <= MaxLag

SelectHeight ==
    /\ running /\ all("bound") /\ \A n \in Nodes : tophead[n] # None
    /\ IF withinLag /\ commonNumber >= StartBlock
       THEN pc' = perNode("descend") /\ UNCHANGED report
       ELSE failing("lag") /\ UNCHANGED pc
    /\ UNCHANGED <<nodeVars, cur, tip, tophead, anchor, recon>>

(* descendFinalizedAncestry: one parent at a time, bound by its hash.       *)
goal == IF anchor = None THEN commonNumber ELSE anchor.h
linked(parent, child) == parent = block(child.branch, child.h - 1)
tooFar(n) == tip[n].h < goal \/ tip[n].h - goal > MaxLag

Descend(n) ==
    /\ running /\ pc[n] = "descend"
    /\ IF tooFar(n) THEN failing("lag") /\ UNCHANGED <<pc, cur>>
       ELSE IF cur[n].h = goal THEN go(n, "down") /\ UNCHANGED <<cur, report>>
       ELSE IF linked(served(n, cur[n].h - 1), cur[n])
       THEN cur' = [cur EXCEPT ![n] = served(n, cur[n].h - 1)] /\ UNCHANGED <<pc, report>>
       ELSE failing("anchor") /\ UNCHANGED <<pc, cur>>
    /\ UNCHANGED <<nodeVars, tip, tophead, anchor, recon>>

SelectAnchor ==
    /\ running /\ anchor = None /\ all("down")
    /\ IF sameBlockIdentity(cur["primary"], cur["secondary"])
       THEN anchor' = cur["primary"] /\ pc' = perNode("reconstruct") /\ UNCHANGED report
       ELSE failing("anchor") /\ UNCHANGED <<pc, anchor>>
    /\ UNCHANGED <<nodeVars, cur, tip, tophead, recon>>

(* reconstructChainAtBlock: the primary, then the secondary; then both tags *)
(* are bound again.                                                         *)
Reconstruct(n) ==
    /\ running /\ pc[n] = "reconstruct" /\ recon[n] = None
    /\ n = "secondary" => recon["primary"] # None
    /\ \E r \in answers(n) : recon' = [recon EXCEPT ![n] = r]
    /\ pc' = IF n = "secondary" THEN perNode("tag") ELSE pc
    /\ UNCHANGED <<nodeVars, cur, tip, tophead, anchor, report>>

(* proveFinalizedAnchor for both nodes, and the report.                     *)
stillFinalized == \A n \in Nodes : sameBlockIdentity(cur[n], anchor)

Report ==
    /\ running /\ rechecking /\ all("down")
    /\ IF stillFinalized THEN report' = [ok |-> divergences = {}, kinds |-> divergences]
       ELSE failing("reorg")
    /\ UNCHANGED <<nodeVars, pc, cur, tip, tophead, anchor, recon>>

Monitor ==
    \/ SelectHeight \/ SelectAnchor \/ Report
    \/ \E n \in Nodes : ReadTag(n) \/ BindFinalizedTag(n) \/ ReadHead(n) \/ Descend(n) \/ Reconstruct(n)

Next == Monitor \/ \E n \in Nodes : Advance(n) \/ Finalize(n) \/ Flip(n) \/ Regress(n) \/ RpcFailure(n)

Spec == Init /\ [][Next]_vars

----------------------------------------------------------------------------
(* The shape of the state.                                                  *)
TypeOK ==
    /\ view \in [Nodes -> {"main", "fork"}] /\ flips \in 0 .. FlipBound
    /\ fin \in [Nodes -> Heights] /\ head \in [Nodes -> Heights]
    /\ \A n \in Nodes : /\ cur[n] \in Blocks \cup {None} /\ tip[n] \in Blocks \cup {None}
                        /\ tophead[n] \in Heights \cup {None} /\ fin[n] <= head[n]
    /\ anchor \in Blocks \cup {None}
    /\ report # None => report.ok \in BOOLEAN

(* A green report is worth one honest node: whatever the other one serves,  *)
(* and whenever it changes its mind, the anchor is a canonical block, which *)
(* the honest node has finalized, not below the start block, and both       *)
(* reconstructions are the true state at that block.                        *)
OkIsTrue ==
    report # None /\ report.ok =>
        /\ anchor = block("main", anchor.h) /\ anchor.h >= StartBlock
        /\ \A n \in Honest : anchor.h <= fin[n]
        /\ \A n \in Nodes : recon[n] = truthful(anchor)

(* Two healthy nodes are never accused: a failed report then says lag, or,  *)
(* from the recheck, that finality moved more than the bound away while the *)
(* reconstructions ran.                                                     *)
HealthyFailsOnlyByLag ==
    report # None /\ ~report.ok =>
        \/ report.kinds = {"lag"} /\ anchor = None
        \/ report.kinds = {"reorg"} /\ anchor # None /\ \E n \in Nodes : tip[n].h - anchor.h > MaxLag
=============================================================================
