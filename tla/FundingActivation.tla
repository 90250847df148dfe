------------------------- MODULE FundingActivation -------------------------
(***************************************************************************)
(* p42-funding-activate (agent/funding-activation-run.mjs and              *)
(* funding-activation-executor.mjs): the restart-safe executor that takes  *)
(* the launch boards from deployed to accepting funds.  Each run speaks    *)
(* for one signer, reads one finalized snapshot, picks at most one         *)
(* transaction and moves it one step along request, signature, broadcast.  *)
(* Runs of different signers overlap; they share a journal, which each of  *)
(* them locks for one step at a time, and nothing else.                    *)
(*                                                                         *)
(* A request is used only while it carries the journal's generation, and   *)
(* every write to the journal takes a new one.  So `request' is the one    *)
(* that carries it, if any does; the older ones are never read again, and  *)
(* `artifact' says that an external signer has signed this one.            *)
(***************************************************************************)
EXTENDS Integers, FiniteSets, FiniteSetsExt

CONSTANTS
    NBoards,            \* boards of the plan (ten in production)
    Governors,          \* plan.governanceSigners
    Treasury,           \* plan.treasury
    Threshold,          \* plan.governanceThreshold
    Delay, Grace,       \* the timelock's delay and grace period
    ExpiresAt,          \* plan.authorizationExpiresAt
    TTL,                \* ACTIVATION_SIGNING_REQUEST_TTL_SECONDS
    Runs,               \* processes that may run at a time
    Active,             \* the signers who take part
    None,
    MaxTime,            \* bound: chain time
    MaxUnrelated,       \* bound: transactions of the signers outside the plan
    MaxCrashes,         \* bound: runs that die
    MaxReorgs           \* bound: reorganizations of the unfinalized head

Boards == 1..NBoards
Signers == Governors \cup {Treasury}
Phases == {"arm", "open"}
BoardOps == Phases \X Boards
Actions == [kind : {"authorize"}, op : {"auth"} \X Boards, by : {Treasury}]
             \cup [kind : {"schedule", "confirm", "execute"}, op : BoardOps, by : Governors]

ActivationAssumption ==
    /\ NBoards \in Nat \ {0}
    /\ Treasury \notin Governors
    /\ Active \subseteq Signers
    /\ Threshold \in 1..Cardinality(Governors)
    /\ {Delay, Grace, ExpiresAt, TTL, MaxTime, MaxUnrelated, MaxCrashes, MaxReorgs} \subseteq Nat

VARIABLES
    head,        \* the protocol's state in the latest block
    final,       \* the same in the latest finalized block
    nonces,      \* the transaction counts of the signers, at the head and finalized
    mempool,     \* transactions [action, nonce] the network knows and has not mined
    mined,       \* transactions mined since the last finalized block, and before it
    journal,     \* transactions (the nonce of each), finalizedState and the current request
    artifact,    \* the current request has been signed outside
    run,         \* each process: its point, its signer, its snapshot and its action
    completion,  \* the completion file
    unrelated, reorgs, crashes

chainVars == <<head, final, nonces, mempool, mined, unrelated, reorgs>>
vars == <<chainVars, journal, artifact, run, completion, crashes>>

Idle == [at |-> "idle", by |-> None, snap |-> None, action |-> None]
NoOp == [state |-> "none", eta |-> 0, by |-> {}]
InitialProtocol == [authorized |-> {}, armed |-> {}, accepting |-> {},
                    op |-> [o \in BoardOps |-> NoOp], now |-> 0]

initialJournal == [tx |-> [a \in {} |-> 0], confirmations |-> None, block |-> -1, request |-> None]

Init ==
    /\ head = InitialProtocol
    /\ final = InitialProtocol
    /\ nonces = [head |-> [s \in Signers |-> 0], final |-> [s \in Signers |-> 0]]
    /\ mempool = {}
    /\ mined = [recent |-> {}, final |-> {}]
    /\ journal = initialJournal
    /\ artifact = FALSE
    /\ run = [r \in Runs |-> Idle]
    /\ completion = None
    /\ unrelated = 0
    /\ reorgs = 0
    /\ crashes = 0

onChain == mined.final \cup mined.recent
\* eth_getTransactionCount(pending): mined transactions and the pending run above them.
currentNonce(s) ==
    CHOOSE n \in nonces.head[s]..(nonces.head[s] + Cardinality(mempool)) :
        /\ \A m \in nonces.head[s]..(n - 1) : \E t \in mempool : t.action.by = s /\ t.nonce = m
        /\ ~\E t \in mempool : t.action.by = s /\ t.nonce = n
-----------------------------------------------------------------------------
(* The decision taken from a finalized snapshot p.                         *)

opState(p, phase, b) == p.op[<<phase, b>>].state
action(kind, op, s) == [kind |-> kind, op |-> op, by |-> s]
Decide(kind) == [kind |-> kind]

\* The lowest board that an operation is still due on.
first(bs) == CHOOSE b \in bs : \A c \in bs : b <= c

delayRuns(p, o) == p.now < o.eta

\* What `s' may do about one timelock operation of the plan.
nextTimelockAction(p, op, s) ==
    LET o == p.op[op] IN
    CASE o.state = "none" ->
            IF p.now + Delay > ExpiresAt THEN Decide("refuse")
            ELSE IF s \notin Governors THEN Decide("wait-signers") ELSE action("schedule", op, s)
      [] o.state = "pending" /\ Cardinality(o.by) < Threshold ->
            IF s \notin Governors \/ s \in o.by THEN Decide("wait-signers") ELSE action("confirm", op, s)
      [] o.state = "pending" /\ Cardinality(o.by) >= Threshold ->
            IF delayRuns(p, o) THEN Decide("wait")
            ELSE IF s \notin Governors THEN Decide("wait-signers") ELSE action("execute", op, s)

\* Every board is authorized before any arming operation exists, and armed before any opening.
consistent(p) ==
    /\ p.authorized # Boards =>
         /\ p.armed = {} /\ p.accepting = {}
         /\ \A o \in BoardOps : p.op[o].state = "none"
    /\ \A b \in Boards : (b \in p.armed) <=> (opState(p, "arm", b) = "executed")
    /\ p.armed # Boards =>
         /\ p.accepting = {}
         /\ \A b \in Boards : opState(p, "open", b) = "none"
    /\ \A b \in Boards : (b \in p.accepting) <=> (opState(p, "open", b) = "executed")

allAccepting(p) == p.accepting = Boards

nextFundingActivationAction(p, s) ==
    CASE p.now > ExpiresAt \/ ~consistent(p) -> Decide("refuse")
      [] p.authorized # Boards -> action("authorize", <<"auth", first(Boards \ p.authorized)>>, Treasury)
      [] p.authorized = Boards /\ p.armed # Boards ->
            nextTimelockAction(p, <<"arm", first(Boards \ p.armed)>>, s)
      [] p.armed = Boards /\ ~allAccepting(p) ->
            nextTimelockAction(p, <<"open", first(Boards \ p.accepting)>>, s)
      [] p.armed = Boards /\ allAccepting(p) -> Decide("complete")
-----------------------------------------------------------------------------
(* One run of the command.                                                 *)

step(r, point) == run' = [run EXCEPT ![r].at = point]
stop(r) == run' = [run EXCEPT ![r] = Idle]
at(r, point) == run[r].at = point
due(r) == run[r].action

\* The block number: blocks are told apart by their time and the transactions before them.
snapshot(p, txs) == [protocol |-> p, block |-> p.now + Cardinality(txs)]
latestSnapshot == snapshot(head, onChain)
finalizedSnapshot == snapshot(final, mined.final)

\* Both RPCs at one common finalized block.
collectFundingActivationSnapshot(r, s) ==
    /\ at(r, "idle")
    /\ run' = [run EXCEPT ![r] = [at |-> "read", by |-> s, snap |-> finalizedSnapshot, action |-> None]]
    /\ UNCHANGED <<chainVars, journal, artifact, completion, crashes>>

confirmationsOf(p) == [o \in BoardOps |-> p.op[o].by]
kept(confirmations) == journal.request
bumped(confirmations) == IF confirmations = journal.confirmations THEN journal.request ELSE None

\* An older snapshot than the journal's leaves it alone, and is used all the same.
reconciled(snap) ==
    IF journal.block > snap.block THEN journal
    ELSE [journal EXCEPT !.block = snap.block, !.confirmations = confirmationsOf(snap.protocol),
                         !.request = bumped(confirmationsOf(snap.protocol))]

\* The process is done, or refuses, or leaves the step to another signer.
decided(r, a) ==
    IF "by" \in DOMAIN a /\ a.by = run[r].by
    THEN run' = [run EXCEPT ![r].at = "prepare", ![r].action = a, ![r].snap = None]
    ELSE IF a.kind = "complete" THEN step(r, "complete") ELSE stop(r)

reconcileFundingActivationConfirmations(r) ==
    /\ at(r, "read")
    /\ journal' = reconciled(run[r].snap)
    /\ artifact' = (artifact /\ journal'.request # None)
    /\ decided(r, nextFundingActivationAction(run[r].snap.protocol, run[r].by))
    /\ UNCHANGED <<chainVars, completion, crashes>>

\* A completion that differs from the one on disk is refused.
buildFundingActivationCompletion(r) ==
    /\ at(r, "complete")
    /\ completion' = IF completion = None THEN run[r].snap ELSE completion
    /\ stop(r)
    /\ UNCHANGED <<chainVars, journal, artifact, crashes>>

journaled(a) == a \in DOMAIN journal.tx
requested(a) == journal.request # None /\ journal.request.action = a

\* A request is kept while it is the journal's newest, its nonce is next and it is in time.
usable(a) ==
    /\ requested(a)
    /\ journal.request.nonce = currentNonce(a.by)
    /\ head.now <= journal.request.expires
mayKeep(a) == journaled(a) \/ usable(a)

buildActivationSigningRequest(a) ==
    [action |-> a, nonce |-> currentNonce(a.by), expires |-> Min({ExpiresAt, head.now + TTL}),
     basis |-> journal.confirmations]

prepareActivationSigningRequest(r) ==
    /\ at(r, "prepare")
    /\ IF mayKeep(due(r))
       THEN UNCHANGED <<journal, artifact>>
       ELSE /\ head.now <= ExpiresAt
            /\ journal' = [journal EXCEPT !.request = buildActivationSigningRequest(due(r))]
            /\ artifact' = FALSE
    /\ step(r, "sign")
    /\ UNCHANGED <<chainVars, completion, crashes>>

\* The signing-request file goes to the signer, who may sign it at any time.
externalSigner ==
    /\ journal.request # None
    /\ ~artifact
    /\ artifact' = TRUE
    /\ UNCHANGED <<chainVars, journal, run, completion, crashes>>

\* Bound to the newest generation, the next nonce and an unexpired request, or refused.
signable(a) == head.now <= ExpiresAt /\ usable(a)

\* The bytes are journaled before they are broadcast.
signed(a) ==
    [journal EXCEPT !.tx = [x \in DOMAIN @ \cup {a} |-> IF x = a THEN journal.request.nonce ELSE @[x]],
                    !.request = None]

signAndJournal(r) ==
    /\ at(r, "sign")
    /\ signable(due(r))
    /\ journal' = signed(due(r))
    /\ artifact' = FALSE
    /\ step(r, "broadcast")
    /\ UNCHANGED <<chainVars, completion, crashes>>

\* A local wallet signs the request; without one the process imports a signature over it.
signLocally(r) == ~journaled(due(r)) /\ signAndJournal(r)
importSigned(r) == ~journaled(due(r)) /\ artifact /\ signAndJournal(r)

resumeSigned(r) ==
    /\ at(r, "sign")
    /\ journaled(due(r))
    /\ step(r, "broadcast")
    /\ UNCHANGED <<chainVars, journal, artifact, completion, crashes>>

transaction(a) == [action |-> a, nonce |-> journal.tx[a]]

\* reconcileSignedTransaction: a receipt, a pending transaction, or one more broadcast, which
\* a spent nonce makes fail.
nonceSpent(a) == transaction(a) \notin onChain /\ journal.tx[a] < nonces.head[a.by]
reconcileSignedTransaction(a) ==
    /\ ~nonceSpent(a)
    /\ mempool' = mempool \cup ({transaction(a)} \ onChain)

broadcast(r) ==
    /\ at(r, "broadcast")
    /\ head.now <= ExpiresAt
    /\ reconcileSignedTransaction(due(r))
    /\ journal' = [journal EXCEPT !.request = None]
    /\ artifact' = FALSE
    /\ stop(r)
    /\ UNCHANGED <<head, final, nonces, mined, unrelated, reorgs, completion, crashes>>

\* The checks that throw: the authorization is over, the request is not the journal's newest,
\* out of time or of another nonce, or the nonce of a signed record is spent.
refuse(r) ==
    /\ \/ at(r, "prepare") /\ ~mayKeep(due(r)) /\ head.now > ExpiresAt
       \/ at(r, "sign") /\ ~journaled(due(r)) /\ ~signable(due(r))
       \/ at(r, "broadcast") /\ (head.now > ExpiresAt \/ nonceSpent(due(r)))
    /\ stop(r)
    /\ UNCHANGED <<chainVars, journal, artifact, completion, crashes>>

\* The process dies, or an RPC fails, or the run was only to ask for a signature.
crash(r) ==
    /\ crashes < MaxCrashes
    /\ run[r] # Idle
    /\ stop(r)
    /\ crashes' = crashes + 1
    /\ UNCHANGED <<chainVars, journal, artifact, completion>>
-----------------------------------------------------------------------------
(* The chain.                                                              *)

executable(o, p) == o.state = "pending" /\ Cardinality(o.by) >= Threshold /\ o.eta <= p.now /\ p.now <= o.eta + Grace
targetAccepts(op, p) ==
    IF op[1] = "arm" THEN op[2] \in p.authorized \ p.armed /\ p.now <= ExpiresAt ELSE op[2] \in p.armed

\* The contracts' state after a transaction; one that reverts leaves it alone.
effect(a, p) ==
    LET o == p.op[a.op] IN
    CASE a.kind = "authorize" ->
            IF a.op[2] \in p.authorized \/ p.now > ExpiresAt THEN p
            ELSE [p EXCEPT !.authorized = @ \cup {a.op[2]}]
      [] a.kind = "schedule" ->
            IF o.state # "none" THEN p
            ELSE [p EXCEPT !.op[a.op] = [state |-> "pending", eta |-> p.now + Delay, by |-> {a.by}]]
      [] a.kind = "confirm" ->
            IF o.state # "pending" \/ p.now > o.eta + Grace THEN p
            ELSE [p EXCEPT !.op[a.op].by = @ \cup {a.by}]
      [] a.kind = "execute" ->
            IF ~executable(o, p) \/ ~targetAccepts(a.op, p) THEN p
            ELSE LET q == [p EXCEPT !.op[a.op].state = "executed"] IN
                 IF a.op[1] = "arm" THEN [q EXCEPT !.armed = @ \cup {a.op[2]}]
                 ELSE [q EXCEPT !.accepting = @ \cup {a.op[2]}]

Mine ==
    \E t \in mempool :
        /\ t.nonce = nonces.head[t.action.by]
        /\ head' = effect(t.action, head)
        /\ nonces' = [nonces EXCEPT !.head[t.action.by] = @ + 1]
        /\ mined' = [mined EXCEPT !.recent = @ \cup {t}]
        /\ mempool' = {u \in mempool : u.action.by # t.action.by \/ u.nonce # t.nonce}
        /\ UNCHANGED <<final, unrelated, reorgs, journal, artifact, run, completion, crashes>>

Finalize ==
    /\ head # final \/ mined.recent # {}
    /\ final' = head
    /\ nonces' = [nonces EXCEPT !.final = nonces.head]
    /\ mined' = [recent |-> {}, final |-> onChain]
    /\ UNCHANGED <<head, mempool, unrelated, reorgs, journal, artifact, run, completion, crashes>>

\* The unfinalized blocks go, and their transactions are pending again.
Reorg ==
    /\ reorgs < MaxReorgs
    /\ mined.recent # {}
    /\ head' = [final EXCEPT !.now = head.now]
    /\ nonces' = [nonces EXCEPT !.head = nonces.final]
    /\ mempool' = mempool \cup mined.recent
    /\ mined' = [mined EXCEPT !.recent = {}]
    /\ reorgs' = reorgs + 1
    /\ UNCHANGED <<final, unrelated, journal, artifact, run, completion, crashes>>

Tick ==
    /\ head.now < MaxTime
    /\ head' = [head EXCEPT !.now = @ + 1]
    /\ UNCHANGED <<final, nonces, mempool, mined, unrelated, reorgs, journal, artifact, run, completion, crashes>>

\* A signer's account sends a transaction of its own, in a finalized block.
Unrelated(s) ==
    /\ unrelated < MaxUnrelated
    /\ mined.recent = {}
    /\ nonces' = [nonces EXCEPT !.head[s] = @ + 1, !.final[s] = @ + 1]
    /\ mempool' = {u \in mempool : u.action.by # s \/ u.nonce # nonces.head[s]}
    /\ unrelated' = unrelated + 1
    /\ UNCHANGED <<head, final, mined, reorgs, journal, artifact, run, completion, crashes>>

Environment == Mine \/ Finalize \/ Reorg \/ Tick \/ (\E s \in Signers : Unrelated(s))
Command(r) ==
    \/ \E s \in Active : collectFundingActivationSnapshot(r, s)
    \/ reconcileFundingActivationConfirmations(r)
    \/ buildFundingActivationCompletion(r)
    \/ prepareActivationSigningRequest(r)
    \/ signLocally(r) \/ importSigned(r) \/ resumeSigned(r)
    \/ broadcast(r)
    \/ refuse(r) \/ crash(r)
Next == Environment \/ (\E r \in Runs : Command(r)) \/ externalSigner
Spec == Init /\ [][Next]_vars
-----------------------------------------------------------------------------
(* Correctness.                                                            *)

TypeOK ==
    /\ head.now \in 0..MaxTime
    /\ final.now <= head.now
    /\ DOMAIN journal.tx \subseteq Actions
    /\ journal.request # None => journal.request.action \in Actions \ DOMAIN journal.tx
    /\ artifact => journal.request # None
    /\ \A r \in Runs : run[r].at \in {"idle", "read", "complete", "prepare", "sign", "broadcast"}

\* The global barriers, on the chain itself and whatever the reorganizations, crashes and stale
\* snapshots: no arming operation exists before every board is authorized, and no opening
\* operation before every board is armed (nextFundingActivationAction, funding-activation-executor.mjs:550).
GlobalBarriers ==
    /\ (\E b \in Boards : opState(head, "arm", b) # "none") => head.authorized = Boards
    /\ (\E b \in Boards : opState(head, "open", b) # "none") => head.armed = Boards

\* An action has one signed transaction: whatever was sent for it, over all runs, restarts and
\* signers, is the one record that the journal holds (signAndBroadcastActivationAction:1120).
OneTransactionPerAction ==
    \A t \in mempool \cup onChain : journaled(t.action) /\ transaction(t.action) = t

\* The completion file only says what is final for good: every board accepts funds through the
\* plan's own operations, within the authorization (buildFundingActivationCompletion:397).
CompletionIsFinal ==
    completion # None =>
        /\ final.accepting = Boards
        /\ \A o \in BoardOps : final.op[o].state = "executed"
        /\ completion.protocol.now <= ExpiresAt

\* A transaction is signed only on the confirmations its request was made from: a request made
\* before the journal learned of a confirmation is never signed or imported
\* (reconcileFundingActivationConfirmations:1075 takes a new generation).
SignedOnCurrentConfirmations ==
    [][\A a \in Actions :
         (a \in DOMAIN journal'.tx /\ ~journaled(a)) => journal.request.basis = journal.confirmations]_vars

\* No signed record is left behind: its nonce is still to come, or it is on the chain.
RecordsStayMineable ==
    \A a \in DOMAIN journal.tx :
        transaction(a) \in onChain \/ journal.tx[a] >= nonces.head[a.by]

\* The signers keep ahead of the authorization's clock: time passes for a timelock's delay.
DelayPasses == (\E o \in BoardOps : head.op[o].state = "pending" /\ Cardinality(head.op[o].by) >= Threshold
                                /\ head.now < head.op[o].eta) /\ Tick

\* The chain goes on, every signer comes back, and a run that is not killed takes its steps.
Fairness ==
    /\ WF_vars(Mine) /\ WF_vars(Finalize) /\ WF_vars(DelayPasses)
    /\ \A r \in Runs :
         /\ \A s \in Active : SF_vars(collectFundingActivationSnapshot(r, s))
         /\ WF_vars(reconcileFundingActivationConfirmations(r))
         /\ WF_vars(buildFundingActivationCompletion(r))
         /\ WF_vars(prepareActivationSigningRequest(r))
         /\ WF_vars(signLocally(r)) /\ WF_vars(resumeSigned(r)) /\ WF_vars(broadcast(r))
         /\ WF_vars(refuse(r))
TimelyNext == Mine \/ Finalize \/ Reorg \/ DelayPasses \/ (\E r \in Runs : Command(r)) \/ externalSigner
FairSpec == Init /\ [][TimelyNext]_vars /\ Fairness

\* The activation completes while the authorization lasts, however the runs of the signers
\* overlap and whatever a reorganization undoes.
Completes == <>(completion # None)
=============================================================================
