------------------------ MODULE CheckpointAcceptance ------------------------
(***************************************************************************)
(* The checkpoint high-water gate of the portal                            *)
(* (web/src/lib/indexer-read-model.ts, indexer-high-water.ts and the       *)
(* database functions they call).  Several portal processes each hold an   *)
(* activated snapshot of the artifact files and serve its chain-derived    *)
(* rows only after the shared database accepted its checkpoint; every      *)
(* refusal serves local rows.                                              *)
(*                                                                         *)
(* A checkpoint has a block, its hash, the digest of its bytes, a          *)
(* timestamp, the identity it was made under (release, authorization,      *)
(* chain, deployment configuration) and, of its board, what decides        *)
(* whether a funding target is published.                                  *)
(***************************************************************************)
EXTENDS Integers, Sequences, FiniteSets

CONSTANTS
    Local,              \* the local-only read model, and no value
    Portals,            \* the portal processes
    Checkpoints,        \* the checkpoints of activated snapshots
    MaxNow,             \* bound: the clock
    MaxAge,             \* the oldest checkpoint that is projected
    FutureTolerance,    \* how far ahead of the clock a checkpoint may be
    GateTimeout,        \* the longest the database keeps a request waiting
    fundingDeadline     \* the manifest's close time less the funding window

VARIABLES
    clock,
    epochs,         \* the accepted identities, in order
    acceptances,    \* the accepted checkpoints, each with its epoch
    authority,      \* the database objects are the ones the migration pinned
    request         \* per portal: the request being answered

vars == <<clock, epochs, acceptances, authority, request>>

ASSUME Policy ==
    /\ MaxAge \in Nat /\ FutureTolerance \in Nat /\ GateTimeout \in Nat /\ MaxNow \in Nat
    /\ fundingDeadline \in Int
    /\ \A c \in Checkpoints : c.block \in Nat /\ c.time \in Nat /\ c.expiresAt \in Nat
    /\ Local \notin Checkpoints

NoRequest == [pc |-> "idle", snapshot |-> Local]
CurrentAcceptance == acceptances[Len(acceptances)]
CurrentIdentity == epochs[Len(epochs)]
-----------------------------------------------------------------------------
\* decideIndexerCheckpointEpoch, and p42_transition_indexer_checkpoint in the database.
sameChain(identity, c) == identity.chain = c.identity.chain

First == Len(epochs) = 0
Same(c) ==
    /\ Len(epochs) > 0 /\ CurrentIdentity = c.identity
    /\ CurrentAcceptance.checkpoint = c
Advance(c) ==
    /\ Len(epochs) > 0 /\ CurrentIdentity = c.identity
    /\ c.time >= CurrentAcceptance.checkpoint.time
    /\ c.block > CurrentAcceptance.checkpoint.block
RenewAtAnyBlock(c) ==
    /\ Len(epochs) > 0 /\ CurrentIdentity # c.identity
    /\ \A e \in DOMAIN epochs : epochs[e] # c.identity
    /\ c.time > CurrentAcceptance.checkpoint.time
Renew(c) ==
    /\ Len(epochs) > 0 /\ CurrentIdentity # c.identity
    /\ \A e \in DOMAIN epochs : epochs[e] # c.identity
    /\ c.time > CurrentAcceptance.checkpoint.time
    /\ IF sameChain(CurrentIdentity, c)
       THEN c.block > CurrentAcceptance.checkpoint.block
       ELSE /\ \A e \in DOMAIN epochs : ~sameChain(epochs[e], c)
            /\ c.identity.release # CurrentIdentity.release
            /\ c.identity.authorization # CurrentIdentity.authorization
            /\ c.identity.config # CurrentIdentity.config
-----------------------------------------------------------------------------
\* portalReadModelFromActivatedSnapshot: the clock is read once, before the database is asked.
Fresh(c) == c.time <= clock + FutureTolerance /\ clock - c.time <= MaxAge
effectiveTimestamp(c) == IF c.time > clock THEN c.time ELSE clock

\* fundingReadModel: whether the pool's address is published.
canFund(c) ==
    /\ c.armed /\ c.accepting /\ ~c.closed /\ c.remaining > 0
    /\ effectiveTimestamp(c) <= c.expiresAt
    /\ effectiveTimestamp(c) < fundingDeadline

Answer(p, what) == request' = [request EXCEPT ![p] = what]
Serve(p) == Answer(p, [request[p] EXCEPT !.pc = "served"])
ServeLocal(p) == Answer(p, NoRequest)

\* The snapshot of the artifact files, or none: a file is missing, unreadable or not bound
\* to the others, or one of the ten boards is not activated.
loadActivatedIndexerSnapshot == Checkpoints \cup {Local}

\* loadPortalReadModel: take the snapshot and project it.
loadPortalReadModel(p) ==
    /\ request[p].pc \in {"idle", "served"}
    /\ \E c \in loadActivatedIndexerSnapshot :
         IF c # Local /\ Fresh(c)
         THEN Answer(p, [pc |-> "exact", snapshot |-> c, funding |-> canFund(c),
                         loadedAt |-> clock, floor |-> Len(acceptances)])
         ELSE ServeLocal(p)
    /\ UNCHANGED <<clock, epochs, acceptances, authority>>

\* p42_read_exact_indexer_checkpoint: the current row, and only if it is this checkpoint.
HistoricRow(c) == \E i \in DOMAIN acceptances : acceptances[i].checkpoint = c
ExactRow(c) == Same(c)

\* attestRuntimeAuthority: what its query asks of the schema, the two functions, their
\* grants, the role and the triggers holds as a whole or not.
attestRuntimeAuthority == authority

\* enforceIndexerCheckpointHighWater, first transaction: an exact read of the current row.
ReadExact(p) ==
    /\ request[p].pc = "exact"
    /\ CASE ~attestRuntimeAuthority -> ServeLocal(p)
         [] attestRuntimeAuthority /\ ExactRow(request[p].snapshot) -> Serve(p)
         [] OTHER -> Answer(p, [request[p] EXCEPT !.pc = "transition"])
    /\ UNCHANGED <<clock, epochs, acceptances, authority>>

\* Second transaction: the serialized transition, which persists what it accepts.
Accept(c, epoch) == acceptances' = Append(acceptances, [epoch |-> epoch, checkpoint |-> c])

TransitionTo(p) ==
    LET c == request[p].snapshot
    IN \/ /\ Same(c)
          /\ UNCHANGED <<epochs, acceptances>>
       \/ /\ First \/ Renew(c)
          /\ epochs' = Append(epochs, c.identity)
          /\ Accept(c, Len(epochs) + 1)
       \/ /\ Advance(c)
          /\ Accept(c, Len(epochs))
          /\ UNCHANGED epochs

Transition(p) ==
    /\ request[p].pc = "transition" /\ attestRuntimeAuthority
    /\ TransitionTo(p)
    /\ Serve(p)
    /\ UNCHANGED <<clock, authority>>

\* The transition raises: a regression, a conflict, a replayed identity.
TransitionRefused(p) ==
    /\ request[p].pc = "transition"
    /\ LET c == request[p].snapshot
       IN attestRuntimeAuthority => ~First /\ ~Same(c) /\ ~Advance(c) /\ ~Renew(c)
    /\ ServeLocal(p)
    /\ UNCHANGED <<clock, epochs, acceptances, authority>>

\* gateActivatedPortalReadModel: a lock or statement timeout, a lost connection.
GateFails(p) ==
    /\ request[p].pc \in {"exact", "transition"}
    /\ ServeLocal(p)
    /\ UNCHANGED <<clock, epochs, acceptances, authority>>

\* Somebody changes the role, a function or a trigger, or changes it back.
Tamper ==
    /\ authority' = ~authority
    /\ UNCHANGED <<clock, epochs, acceptances, request>>

\* The clock; no request waits in the gate for longer than its timeouts.
Elapse ==
    /\ clock < MaxNow
    /\ \A p \in Portals : request[p].pc \in {"exact", "transition"} => clock < request[p].loadedAt + GateTimeout
    /\ clock' = clock + 1
    /\ request' = [p \in Portals |-> IF request[p].pc = "served" THEN NoRequest ELSE request[p]]
    /\ UNCHANGED <<epochs, acceptances, authority>>
-----------------------------------------------------------------------------
Init ==
    /\ clock = 0 /\ epochs = << >> /\ acceptances = << >> /\ authority = TRUE
    /\ request = [p \in Portals |-> NoRequest]

Portal(p) ==
    \/ loadPortalReadModel(p) \/ ReadExact(p) \/ Transition(p) \/ TransitionRefused(p) \/ GateFails(p)

Next == Elapse \/ Tamper \/ \E p \in Portals : Portal(p)

Spec == Init /\ [][Next]_vars
-----------------------------------------------------------------------------
Requests ==
    [pc : {"exact", "transition", "served"}, snapshot : Checkpoints, funding : BOOLEAN,
     loadedAt : Nat, floor : Nat]

TypeOK ==
    /\ clock \in Nat /\ authority \in BOOLEAN
    /\ epochs \in Seq({c.identity : c \in Checkpoints})
    /\ acceptances \in Seq([epoch : Nat \ {0}, checkpoint : Checkpoints])
    /\ request \in [Portals -> {NoRequest} \cup Requests]

\* a precedes b: on one chain the block grows, timestamps never fall, and a new epoch is
\* strictly later and another identity.
Precedes(a, b) ==
    /\ a.epoch <= b.epoch
    /\ a.checkpoint.time <= b.checkpoint.time
    /\ sameChain(a.checkpoint.identity, b.checkpoint) => a.checkpoint.block < b.checkpoint.block
    /\ a.epoch < b.epoch => /\ a.checkpoint.identity # b.checkpoint.identity
                            /\ a.checkpoint.time < b.checkpoint.time

\* Once a portal left a chain for another, no checkpoint of it is accepted again.
ChainLeftForGood ==
    \A i, j, k \in DOMAIN acceptances :
        i < j /\ j < k /\ sameChain(acceptances[i].checkpoint.identity, acceptances[k].checkpoint)
            => sameChain(acceptances[i].checkpoint.identity, acceptances[j].checkpoint)

\* One chain is published at one block once: over all epochs, blocks of a chain only grow,
\* timestamps never fall, a new epoch is strictly later, and neither an identity nor a chain
\* comes back (evaluateCheckpointAcceptance).
HistoryAdvances ==
    /\ \A i, j \in DOMAIN acceptances : i < j => Precedes(acceptances[i], acceptances[j])
    /\ ChainLeftForGood

\* Chain rows are only served of a checkpoint in the history, at least as new as the newest one
\* when the request began: a reader who saw a checkpoint never gets an older one afterwards.
ServedIsCurrent ==
    \A p \in Portals : request[p].pc = "served" =>
        \E i \in DOMAIN acceptances :
            i >= request[p].floor /\ acceptances[i].checkpoint = request[p].snapshot

\* What is served is at most the gate's timeouts older than the portal allows, and so is a
\* funding target that is published.
ServedInTime ==
    \A p \in Portals : request[p].pc = "served" =>
        LET c == request[p].snapshot
        IN /\ clock - c.time <= MaxAge + GateTimeout
           /\ request[p].funding => clock <= c.expiresAt + GateTimeout /\ clock < fundingDeadline + GateTimeout
=============================================================================
