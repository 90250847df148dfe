--------------------------- MODULE OperatorActions ---------------------------
(***************************************************************************)
(* How the operators turn challenge candidates into transactions           *)
(* (agent/operator.mjs: consumeCandidate and reconcileBroadcast), from the *)
(* reservation in the spending envelope to the final receipt.  The boards' *)
(* operators are separate processes that share one session wallet and its  *)
(* nonce journal; each has an envelope and an action queue of its own.     *)
(*                                                                         *)
(* Every durable write and every network call is a step; a process may     *)
(* crash, or get an exception, between any two of them, and starts again   *)
(* from its files.  The chain mines, drops, reorganizes and finalizes.     *)
(***************************************************************************)
EXTENDS WalletNonce, FiniteSets, Sequences

-----------------------------------------------------------------------------
(* The spending envelope (agent/challenge-envelope.mjs): a ledger of        *)
(* reservations and spends in UTC-day buckets, replaced atomically under     *)
(* its owner lock.  A board's operator may have at most                     *)
(* maxPendingProvisioned reservations, of any day; the sums of a day are    *)
(* capped; a reservation becomes a spend in its own bucket when the         *)
(* challenge is final.  It carries its action intent (`durable' once the    *)
(* signed bytes are on disk) and the sequence number of the runner-health   *)
(* artifact that admitted it.                                               *)
CONSTANTS Boards,                 \* operators, one for each board
          Candidates,             \* challenge candidates
          BoardOf,                \* BoardOf[c]: the board a candidate belongs to
          MaxDay,                 \* bound: UTC days
          globalDay,              \* globalDayWei, in bonds
          maxPendingProvisioned,
          MaxHealth               \* bound: runner-health artifacts

EnvelopeAssumption ==
    /\ BoardOf \in [Candidates -> Boards]
    /\ {MaxDay, globalDay, maxPendingProvisioned, MaxHealth} \subseteq Nat

VARIABLES reservations,  \* per board: rows [id, day, health, durable]
          buckets,       \* per board: the days the state file has a bucket for
          spends,        \* per board: rows [id, day]
          highWater,     \* per board: sequence of the last health artifact accepted
          health,        \* per board: sequence of the health artifact its runner published last
          day            \* the UTC day

envelopeVars == <<reservations, buckets, spends, highWater, health, day>>

Reservation == [id : Candidates, day : 0..MaxDay, health : 0..MaxHealth, durable : BOOLEAN]
Spend == [id : Candidates, day : 0..MaxDay]

EnvelopeInit ==
    /\ reservations = [b \in Boards |-> {}]
    /\ buckets = [b \in Boards |-> {}]
    /\ spends = [b \in Boards |-> {}]
    /\ highWater = [b \in Boards |-> 0]
    /\ health = [b \in Boards |-> 1]
    /\ day = 0

reservationOf(b, c) == {r \in reservations[b] : r.id = c}
spendOf(b, c) == {s \in spends[b] : s.id = c}

spentOn(b, d) == Cardinality({r \in reservations[b] : r.day = d}) + Cardinality({s \in spends[b] : s.day = d})

\* A health artifact admits only once: it must be the successor of the last one accepted, if
\* there is one.
healthAdmits(b) == highWater[b] = 0 \/ health[b] = highWater[b] + 1

\* Already reserved or spent, on whatever day: nothing is added, the high-water moves.
known(b, c) == reservationOf(b, c) # {} \/ spendOf(b, c) # {}

\* Mutant: the day's sum is left out.
pendingOnly(b) == Cardinality(reservations[b]) < maxPendingProvisioned

\* A board has one problem, so the per-problem and the global sum of a day are one.
withinLimits(b) ==
    /\ Cardinality(reservations[b]) < maxPendingProvisioned
    /\ spentOn(b, day) + 1 <= globalDay

\* reserveChallengeSpend; whatever it refuses throws and leaves the file alone.
reserveChallengeSpend(b, c) ==
    /\ healthAdmits(b)
    /\ highWater' = [highWater EXCEPT ![b] = health[b]]
    /\ \/ known(b, c) /\ UNCHANGED <<reservations, buckets>>
       \/ /\ ~known(b, c)
          /\ withinLimits(b)
          /\ reservations' = [reservations EXCEPT ![b] =
                @ \cup {[id |-> c, day |-> day, health |-> health[b], durable |-> FALSE]}]
          /\ buckets' = [buckets EXCEPT ![b] = @ \cup {day}]
    /\ UNCHANGED <<spends, health, day>>

\* The preflight of the final signature: the artifact published now is the last one accepted,
\* and it is the one this reservation is bound to.
signingAuthorized(b, c) ==
    /\ health[b] = highWater[b]
    /\ \A r \in reservationOf(b, c) : r.health = health[b]

\* markJournalDurable binds the reservation to the signed bytes; without one it throws.
markJournalDurable(b, c) ==
    /\ reservationOf(b, c) # {}
    /\ reservations' = [reservations EXCEPT ![b] =
            (@ \ reservationOf(b, c)) \cup {[r EXCEPT !.durable = TRUE] : r \in reservationOf(b, c)}]
    /\ UNCHANGED <<spends, buckets, highWater, health, day>>

\* finalizeChallengeSpend: once a spend, always a spend; without a reservation it throws.
finalizeChallengeSpend(b, c) ==
    /\ known(b, c)
    /\ reservations' = [reservations EXCEPT ![b] = @ \ reservationOf(b, c)]
    /\ spends' = [spends EXCEPT ![b] = @ \cup {[id |-> c, day |-> r.day] : r \in reservationOf(b, c)}]
    /\ UNCHANGED <<buckets, highWater, health, day>>

\* releaseChallengeReservation tries the buckets oldest first and stops at the first one:
\* deleting a key that is not there succeeds.
firstBucket(b) == CHOOSE d \in buckets[b] : \A e \in buckets[b] : d <= e

releaseChallengeReservation(b, c) ==
    /\ reservations' = [reservations EXCEPT ![b] = @ \ {r \in reservationOf(b, c) : r.day = firstBucket(b)}]
    /\ UNCHANGED <<spends, buckets, highWater, health, day>>

\* A runner publishes its next health artifact; the day ends.
publishHealth(b) ==
    /\ health[b] < MaxHealth
    /\ health' = [health EXCEPT ![b] = @ + 1]
    /\ UNCHANGED <<reservations, spends, buckets, highWater, day>>

nextDay ==
    /\ day < MaxDay
    /\ day' = day + 1
    /\ UNCHANGED <<reservations, spends, buckets, highWater, health>>

-----------------------------------------------------------------------------
(* The actions of the operators. *)
CONSTANTS NoNonce,       \* no signed record
          Outside,       \* the sender of transactions that no operator made
          MaxNonce,      \* bound: nonces used
          MaxFailures,   \* bound: crashes and exceptions
          Staleness,     \* how many nonces both RPC providers may lag behind
          PrimaryLags,   \* whether the primary, the only one asked for receipts and pending
                         \* transactions, may also lag behind the other
          AutoClaimBond  \* the operators also claim bonds, which takes no lock

ActionsAssumption ==
    /\ EnvelopeAssumption /\ MaxHealth > 0
    /\ Candidates \subseteq Actions /\ NoNonce \notin Nat /\ Outside \notin Candidates
    /\ PrimaryLags \in BOOLEAN

VARIABLES
    record,    \* record[c]: the nonce of the signed record file of c, or NoNonce
    action,    \* action[c]: the durable status of the queue's action record
    at,        \* at[b] = <<program point, candidate>> of a board's operator
    claims,    \* nonces of the claimBond transactions signed
    mempool,   \* transactions [by, nonce] the network knows and has not mined
    mined,     \* the wallet's transactions on the canonical chain, by nonce
    finalized, \* how many of them are final
    reverted,  \* the candidates whose mined transaction failed
    open,      \* the candidates whose submission is still challengeable
    mishaps    \* crashes, exceptions and the like so far

chainVars == <<mempool, mined, finalized, reverted, open>>
fileVars == <<record, action, claims>>
operatorVars == <<allocations, next_nonce, envelopeVars, record, action, at, claims, chainVars, mishaps>>

Idle == <<"idle">>
Statuses == {"none", "signed", "broadcast", "submitted", "reorged", "confirmed",
             "broadcast_reverted", "superseded", "registry_binding_rejected", "window_expired"}
Terminal == {"confirmed", "broadcast_reverted", "superseded", "registry_binding_rejected", "window_expired"}

\* Program points under the wallet lock; the ones up to `mark' precede the durable journal.
BeforeJournal == {"preflight", "nonce", "sign", "journal", "mark"}
WalletLocked == BeforeJournal \cup {"act", "recover", "receipt", "confirm", "revert", "decide", "fenced", "send", "sent"}

OperatorInit ==
    /\ NonceInit
    /\ EnvelopeInit
    /\ record = [c \in Candidates |-> NoNonce]
    /\ action = [c \in Candidates |-> "none"]
    /\ at = [b \in Boards |-> Idle]
    /\ claims = {}
    /\ mempool = {}
    /\ mined = <<>>
    /\ finalized = 0
    /\ reverted = {}
    /\ open = Candidates
    /\ mishaps = 0

transaction(c) == [by |-> c, nonce |-> record[c]]
isMined(c) == \E i \in 1..Len(mined) : mined[i] = transaction(c)
isFinal(c) == \E i \in 1..finalized : mined[i] = transaction(c)
inMempool(c) == transaction(c) \in mempool
nowhere(c) == ~isMined(c) /\ ~inMempool(c)

\* What the primary answers about a transaction: how it stands or, from a node that is behind,
\* how it stood on the way there.
shown(c) ==
    CASE isFinal(c) -> IF PrimaryLags THEN {"unknown", "pending", "mined", "final"} ELSE {"final"}
      [] isMined(c) /\ ~isFinal(c) -> IF PrimaryLags THEN {"unknown", "pending", "mined"} ELSE {"mined"}
      [] ~isMined(c) /\ inMempool(c) -> IF PrimaryLags THEN {"unknown", "pending"} ELSE {"pending"}
      [] OTHER -> {"unknown"}

\* What eth_getTransactionCount(pending) counts: the mined nonces and the run of pending ones.
pendingCount ==
    CHOOSE n \in Len(mined)..(Len(mined) + Cardinality(mempool)) :
        /\ \A m \in Len(mined)..(n - 1) : \E t \in mempool : t.nonce = m
        /\ ~\E t \in mempool : t.nonce = n

\* The maximum over two providers, both of which may lag.
observations ==
    {o \in [finalized : 0..finalized, pending : 0..pendingCount] :
        /\ o.finalized <= o.pending
        /\ o.finalized + Staleness >= finalized
        /\ o.pending + Staleness >= pendingCount}

walletLockFree == \A b \in Boards : at[b][1] \notin WalletLocked
proceed(b, point) == at' = [at EXCEPT ![b] = <<point, at[b][2]>>]
leave(b) == at' = [at EXCEPT ![b] = Idle]
running(b, point) == at[b][1] = point
candidate(b) == at[b][2]
setAction(c, status) == action' = [action EXCEPT ![c] = status]
-----------------------------------------------------------------------------
\* consumeCandidate.  A candidate that has an action is reconciled under the wallet lock ...
resume(b, c) ==
    /\ at[b] = Idle
    /\ BoardOf[c] = b
    /\ action[c] \in {"signed", "broadcast", "submitted", "reorged"}
    /\ walletLockFree
    /\ at' = [at EXCEPT ![b] = <<"recover", c>>]
    /\ UNCHANGED <<nonceVars, envelopeVars, fileVars, chainVars, mishaps>>

\* ... one whose window is over is closed ...
expire(b, c) ==
    /\ at[b] = Idle
    /\ BoardOf[c] = b
    /\ action[c] = "none"
    /\ c \notin open
    /\ setAction(c, "window_expired")
    /\ UNCHANGED <<nonceVars, envelopeVars, record, claims, at, chainVars, mishaps>>

\* ... and for any other a spend is reserved; a refusal only raises an alert.
admit(b, c) ==
    /\ at[b] = Idle
    /\ BoardOf[c] = b
    /\ action[c] = "none"
    /\ c \in open
    /\ reserveChallengeSpend(b, c)
    /\ at' = [at EXCEPT ![b] = <<"admitted", c>>]
    /\ UNCHANGED <<nonceVars, fileVars, chainVars, mishaps>>

lockWallet(b) ==
    /\ running(b, "admitted")
    /\ walletLockFree
    /\ proceed(b, "preflight")
    /\ UNCHANGED <<nonceVars, envelopeVars, fileVars, chainVars, mishaps>>

preflight(b) ==
    /\ running(b, "preflight")
    /\ signingAuthorized(b, candidate(b))
    /\ proceed(b, "nonce")
    /\ UNCHANGED <<nonceVars, envelopeVars, fileVars, chainVars, mishaps>>

\* The nonce: that of the signed record, if its file is there already, else a reservation.
allocate(b) ==
    /\ running(b, "nonce")
    /\ \E o \in observations :
        IF record[candidate(b)] # NoNonce
        THEN recoverNonce(candidate(b), record[candidate(b)])
        ELSE /\ freshNonce(o.finalized, o.pending) <= MaxNonce
             /\ reserveNonce(candidate(b), o.finalized, o.pending)
    /\ proceed(b, "sign")
    /\ UNCHANGED <<envelopeVars, fileVars, chainVars, mishaps>>

\* The signed bytes are written once and never replaced.
sign(b) ==
    /\ running(b, "sign")
    /\ record' = [record EXCEPT ![candidate(b)] =
            IF @ # NoNonce THEN @ ELSE (CHOOSE x \in reservedOf(candidate(b)) : TRUE).nonce]
    /\ proceed(b, "journal")
    /\ UNCHANGED <<nonceVars, envelopeVars, action, claims, chainVars, mishaps>>

writeJournal(b) ==
    /\ running(b, "journal")
    /\ recordSigned(candidate(b), record[candidate(b)])
    /\ proceed(b, "mark")
    /\ UNCHANGED <<envelopeVars, fileVars, chainVars, mishaps>>

mark(b) ==
    /\ running(b, "mark")
    /\ markJournalDurable(b, candidate(b))
    /\ proceed(b, "act")
    /\ UNCHANGED <<nonceVars, fileVars, chainVars, mishaps>>

act(b) ==
    /\ running(b, "act")
    /\ setAction(candidate(b), "signed")
    /\ proceed(b, "recover")
    /\ UNCHANGED <<nonceVars, envelopeVars, record, claims, chainVars, mishaps>>
-----------------------------------------------------------------------------
\* reconcileBroadcast.  The record's nonce is claimed back first.
recover(b) ==
    /\ running(b, "recover")
    /\ recoverNonce(candidate(b), record[candidate(b)])
    /\ proceed(b, "receipt")
    /\ UNCHANGED <<envelopeVars, fileVars, chainVars, mishaps>>

\* A final receipt settles the envelope before the action is recorded.
finalReceipt(b) ==
    LET c == candidate(b)
    IN /\ running(b, "receipt")
       /\ "final" \in shown(c)
       /\ IF c \notin reverted
          THEN finalizeChallengeSpend(b, c) /\ proceed(b, "confirm")
          ELSE releaseChallengeReservation(b, c) /\ proceed(b, "revert")
       /\ UNCHANGED <<nonceVars, fileVars, chainVars, mishaps>>

confirm(b) ==
    /\ running(b, "confirm") \/ running(b, "revert")
    /\ setAction(candidate(b), IF running(b, "confirm") THEN "confirmed" ELSE "broadcast_reverted")
    /\ leave(b)
    /\ UNCHANGED <<nonceVars, envelopeVars, record, claims, chainVars, mishaps>>

\* A receipt that is not final yet is only noted.
youngReceipt(b) ==
    /\ running(b, "receipt")
    /\ "mined" \in shown(candidate(b))
    /\ setAction(candidate(b), "submitted")
    /\ leave(b)
    /\ UNCHANGED <<nonceVars, envelopeVars, record, claims, chainVars, mishaps>>

\* Without a receipt, a transaction the primary still knows is left to the network.
pendingKnown(b) ==
    /\ running(b, "receipt")
    /\ "pending" \in shown(candidate(b))
    /\ recordBroadcast(candidate(b), record[candidate(b)])
    /\ setAction(candidate(b), "broadcast")
    /\ leave(b)
    /\ UNCHANGED <<envelopeVars, record, claims, chainVars, mishaps>>

\* An unknown one is sent again, unless the registry binding or the submission has changed.
unknown(c) == "unknown" \in shown(c)

\* Mutant: giving an action up gives its slot back.
supersedeReleases(b) ==
    /\ running(b, "fenced")
    /\ setAction(candidate(b), "superseded")
    /\ releaseChallengeReservation(b, candidate(b))
    /\ leave(b)
    /\ UNCHANGED <<nonceVars, record, claims, chainVars, mishaps>>

refuse(b) ==
    /\ running(b, "receipt")
    /\ unknown(candidate(b))
    /\ \/ setAction(candidate(b), "registry_binding_rejected")
       \/ candidate(b) \notin open /\ setAction(candidate(b), "superseded")
    /\ leave(b)
    /\ UNCHANGED <<nonceVars, envelopeVars, record, claims, chainVars, mishaps>>

noteLoss(b) ==
    /\ running(b, "receipt")
    /\ unknown(candidate(b))
    /\ candidate(b) \in open \/ PrimaryLags
    /\ action' = [action EXCEPT ![candidate(b)] = IF @ = "submitted" THEN "reorged" ELSE @]
    /\ proceed(b, "decide")
    /\ UNCHANGED <<nonceVars, envelopeVars, record, claims, chainVars, mishaps>>

\* The nonce decision asks the primary for the transaction again, and both providers for the
\* nonces: the nonce of a transaction the primary does not know having been used ends the action.
decide(b) ==
    LET c == candidate(b)
    IN /\ running(b, "decide")
       /\ \/ /\ shown(c) \cap {"pending", "mined", "final"} # {}
             /\ recordBroadcast(c, record[c])
             /\ proceed(b, "sent")
          \/ /\ unknown(c)
             /\ \E o \in observations :
                  IF advanced(record[c], o.finalized, o.pending)
                  THEN fence(c, record[c]) /\ proceed(b, "fenced")
                  ELSE recordSigned(c, record[c]) /\ proceed(b, "send")
       /\ UNCHANGED <<envelopeVars, fileVars, chainVars, mishaps>>

supersede(b) ==
    /\ running(b, "fenced")
    /\ setAction(candidate(b), "superseded")
    /\ leave(b)
    /\ UNCHANGED <<nonceVars, envelopeVars, record, claims, chainVars, mishaps>>

\* A node refuses a nonce that is used, and keeps the first of two transactions with one nonce.
accepted(tx) == tx.nonce >= Len(mined) /\ ~\E t \in mempool : t.nonce = tx.nonce

\* A primary that is behind also takes bytes that the network has already or has no use for.
send(b) ==
    /\ running(b, "send")
    /\ \/ accepted(transaction(candidate(b))) /\ mempool' = mempool \cup {transaction(candidate(b))}
       \/ PrimaryLags /\ UNCHANGED mempool
    /\ proceed(b, "sent")
    /\ UNCHANGED <<nonceVars, envelopeVars, fileVars, mined, finalized, reverted, open, mishaps>>

noteSent(b) ==
    /\ running(b, "sent")
    /\ recordBroadcast(candidate(b), record[candidate(b)])
    /\ setAction(candidate(b), "broadcast")
    /\ leave(b)
    /\ UNCHANGED <<envelopeVars, record, claims, chainVars, mishaps>>
-----------------------------------------------------------------------------

\* What the calls at a program point refuse by themselves.
callRefuses(b) ==
    LET c == candidate(b)
        point == at[b][1]
    IN \/ point = "preflight" /\ ~signingAuthorized(b, c)
       \/ point \in {"nonce", "recover"} /\ record[c] # NoNonce /\ belongsToAnother(c, record[c])
       \/ point \in {"journal", "decide", "sent"} /\ ~activeRow(c, record[c])
       \/ point = "mark" /\ reservationOf(b, c) = {}
       \/ point = "receipt" /\ "final" \in shown(c) /\ c \notin reverted /\ ~known(b, c)
       \/ point = "receipt" /\ "pending" \in shown(c) /\ ~activeRow(c, record[c])
       \/ point = "send" /\ ~accepted(transaction(c))

\* An exception.  Before the journal is durable, runChallengeActionIntent gives the slot back.
fail(b) ==
    /\ at[b] # Idle
    /\ \/ callRefuses(b) /\ UNCHANGED mishaps
       \/ ~callRefuses(b) /\ mishaps < MaxFailures /\ mishaps' = mishaps + 1
    /\ IF at[b][1] \in BeforeJournal
       THEN releaseChallengeReservation(b, candidate(b))
       ELSE UNCHANGED envelopeVars
    /\ leave(b)
    /\ UNCHANGED <<nonceVars, fileVars, chainVars>>

\* The process dies; its locks are reclaimed and its files are as they are.
operatorCrash(b) ==
    /\ at[b] # Idle
    /\ mishaps < MaxFailures
    /\ mishaps' = mishaps + 1
    /\ leave(b)
    /\ UNCHANGED <<nonceVars, envelopeVars, fileVars, chainVars>>

\* claimBond asks the node for a nonce and signs with it: no wallet lock, no allocator.
claimBond ==
    /\ AutoClaimBond
    /\ pendingCount <= MaxNonce
    /\ pendingCount \notin claims
    /\ claims' = claims \cup {pendingCount}
    /\ UNCHANGED <<nonceVars, envelopeVars, record, action, at, chainVars, mishaps>>

sendClaim(n) ==
    /\ n \in claims
    /\ accepted([by |-> Outside, nonce |-> n])
    /\ mempool' = mempool \cup {[by |-> Outside, nonce |-> n]}
    /\ UNCHANGED <<nonceVars, envelopeVars, fileVars, at, mined, finalized, reverted, open, mishaps>>
-----------------------------------------------------------------------------
\* The chain.  A challenge that comes too late is mined and reverts.
mine(tx) ==
    /\ tx \in mempool
    /\ tx.nonce = Len(mined)
    /\ mined' = Append(mined, tx)
    /\ mempool' = mempool \ {tx}
    /\ reverted' = IF tx.by \in Candidates \ open THEN reverted \cup {tx.by} ELSE reverted \ {tx.by}
    /\ UNCHANGED <<nonceVars, envelopeVars, fileVars, at, finalized, open, mishaps>>

finalize ==
    /\ finalized < Len(mined)
    /\ finalized' = finalized + 1
    /\ UNCHANGED <<nonceVars, envelopeVars, fileVars, at, mempool, mined, reverted, open, mishaps>>

\* The last block is dropped; its transaction is pending again, or forgotten.
reorg ==
    /\ finalized < Len(mined)
    /\ mishaps < MaxFailures
    /\ mishaps' = mishaps + 1
    /\ mined' = SubSeq(mined, 1, Len(mined) - 1)
    /\ mempool' \in {mempool, mempool \cup {mined[Len(mined)]}}
    /\ UNCHANGED <<nonceVars, envelopeVars, fileVars, at, finalized, reverted, open>>

\* A node may forget a pending transaction.
drop(tx) ==
    /\ tx \in mempool
    /\ mishaps < MaxFailures
    /\ mishaps' = mishaps + 1
    /\ mempool' = mempool \ {tx}
    /\ UNCHANGED <<nonceVars, envelopeVars, fileVars, at, mined, finalized, reverted, open>>

\* The wallet's owner sends something by hand.
sendOutside ==
    /\ ~AutoClaimBond
    /\ mishaps < MaxFailures
    /\ mishaps' = mishaps + 1
    /\ pendingCount <= MaxNonce
    /\ mempool' = mempool \cup {[by |-> Outside, nonce |-> pendingCount]}
    /\ UNCHANGED <<nonceVars, envelopeVars, fileVars, at, mined, finalized, reverted, open>>

windowEnds(c) ==
    /\ c \in open
    /\ open' = open \ {c}
    /\ UNCHANGED <<nonceVars, envelopeVars, fileVars, at, mempool, mined, finalized, reverted, mishaps>>

envelopeTime ==
    /\ nextDay \/ \E b \in Boards : publishHealth(b)
    /\ UNCHANGED <<nonceVars, fileVars, at, chainVars, mishaps>>

consumeCandidate(b) ==
    \/ \E c \in Candidates : resume(b, c) \/ expire(b, c) \/ admit(b, c)
    \/ lockWallet(b) \/ preflight(b) \/ allocate(b) \/ sign(b) \/ writeJournal(b) \/ mark(b) \/ act(b)

reconcileBroadcast(b) ==
    \/ recover(b) \/ finalReceipt(b) \/ confirm(b) \/ youngReceipt(b) \/ pendingKnown(b)
    \/ refuse(b) \/ noteLoss(b) \/ decide(b) \/ supersede(b) \/ send(b) \/ noteSent(b)

Chain ==
    \/ \E tx \in mempool : mine(tx) \/ drop(tx)
    \/ finalize \/ reorg \/ sendOutside
    \/ \E c \in Candidates : windowEnds(c)

OperatorNext ==
    \/ \E b \in Boards : consumeCandidate(b) \/ reconcileBroadcast(b) \/ fail(b) \/ operatorCrash(b)
    \/ Chain
    \/ claimBond \/ (\E n \in claims : sendClaim(n))
    \/ envelopeTime

OperatorSpec == OperatorInit /\ [][OperatorNext]_operatorVars
-----------------------------------------------------------------------------
OperatorTypeOK ==
    /\ allocations \subseteq Allocation
    /\ next_nonce \in Nat
    /\ reservations \in [Boards -> SUBSET Reservation]
    /\ spends \in [Boards -> SUBSET Spend]
    /\ record \in [Candidates -> Nat \cup {NoNonce}]
    /\ action \in [Candidates -> Statuses]

\* No nonce is signed for two candidates, whichever boards they belong to, wherever their
\* operators crashed and however far both RPC providers lag (reserveWalletNonceLocked).
OneNonceOneAction ==
    \A c, d \in Candidates : record[c] # NoNonce /\ record[c] = record[d] => c = d

\* The journal never becomes one that readJournal refuses, which would stop every board, and
\* it always names the owner of every nonce that was signed.
JournalBacksRecords ==
    /\ validateJournal(allocations, next_nonce)
    /\ \A c \in Candidates : record[c] # NoNonce => rowOf(c, record[c]) # {}

\* Once its nonce is fenced, a transaction that is nowhere stays fenced and nowhere: no resumed
\* action, other board, crash or reorganization brings it back.  A primary that lags may let one
\* be fenced that is pending or mined, which may still land (walletNonceBroadcastDecisionLocked).
isFenced(c) == \E x \in rowOf(c, record[c]) : x.state = "fenced"

FencedStaysAway ==
    [][\A c \in Candidates : isFenced(c) /\ nowhere(c) => isFenced(c)' /\ nowhere(c)']_operatorVars

\* Every bond that is pending or was taken by the chain stands in the envelope as a
\* reservation or a spend: no crash, no exception and no action given up as superseded while its
\* transaction lands lets money out of the caps' sight.
InFlightIsReserved ==
    \A c \in Candidates :
        inMempool(c) \/ (isMined(c) /\ c \notin reverted) => known(BoardOf[c], c)

\* The UTC-day cap and the pending limit hold over reservations and spends together, whatever
\* day the spend was finalized on.
CapsHeld ==
    \A b \in Boards : /\ Cardinality(reservations[b]) <= maxPendingProvisioned
                      /\ \A d \in 0..MaxDay : spentOn(b, d) <= globalDay

\* A confirmed challenge is a spend and holds no slot; a reverted one, on its first day, holds
\* none either (finalizeChallengeSpend, releaseChallengeReservation).
SettledInEnvelope ==
    \A c \in Candidates :
        /\ action[c] = "confirmed" => spendOf(BoardOf[c], c) # {} /\ reservationOf(BoardOf[c], c) = {}
        /\ action[c] = "broadcast_reverted" /\ MaxDay = 0 => reservationOf(BoardOf[c], c) = {}

\* CHALLENGE_KEY_POLICY: an exception before the signed journal is durable releases the slot.
FailureFreesSlot ==
    [][\A b \in Boards : at[b][1] \in BeforeJournal /\ at'[b] = Idle /\ mishaps' = mishaps
            => ~\E r \in reservations'[b] : r.id = at[b][2]]_operatorVars

\* CHALLENGE_KEY_POLICY: once the journal is bound to the intent, exceptions keep the slot.
DurableSlotKept ==
    [][\A b \in Boards : \A r \in reservations[b] :
            r.durable /\ r.id \in open =>
                \E q \in reservations'[b] \cup spends'[b] : q.id = r.id]_operatorVars

\* README: with the wallet lock and the allocator, populating transactions cannot race, so no
\* two transactions of the wallet are signed with one nonce.
NoSharedNonce ==
    \A c \in Candidates : record[c] \notin claims
=============================================================================
