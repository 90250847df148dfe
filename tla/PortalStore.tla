---------------------------- MODULE PortalStore ----------------------------
(***************************************************************************)
(* The portal's write path: commits and reveals of the local phase, their  *)
(* idempotency keys, the leases that protect a running request, expiry,    *)
(* retention and the event chain (web/src/lib/portal-store.ts,             *)
(* portal-state.ts, idempotency.ts and the two submission routes).  One    *)
(* update of the store is one step: the file lock (OwnerLock) or the row   *)
(* lock of the database serializes them.                                   *)
(***************************************************************************)
EXTENDS Integers, FiniteSets, SequencesExt

CONSTANTS
    None,
    Attempts,       \* requests of clients
    Plan,           \* what each asks for: [kind, key, hash]
    CidOf,          \* the solution behind each commit hash
    ScoreOf,        \* the score the verifier finds for each solution
    seedBest, minImprovement,
    commitTtl, revealLease, idempotencyLease, terminalRetention, idempotencyRetention,
    maxCommits, maxSubmissions, maxIdempotency, maxEvents,
    MaxTime,        \* bound on the clock
    MaxTries,       \* bound on the tries of one request
    Persistent,     \* clients never give up: after MaxTries the ids are drawn again
    Faults,         \* what a transaction may do: "rollback", "lost" (applied, reply lost)
    MaxFaults,      \* bound on faults and crashes together
    LastFault       \* bound on the time of a fault or crash

Keys == {Plan[r].key : r \in Attempts} \ {None}
Hashes == {Plan[r].hash : r \in Attempts}

PortalAssumption ==
    /\ \A r \in Attempts : Plan[r].kind \in {"commit", "reveal"}
    /\ {commitTtl, revealLease, idempotencyLease} \subseteq Nat \ {0}
    /\ {terminalRetention, idempotencyRetention, MaxTime, MaxTries, MaxFaults} \subseteq Nat
    /\ {maxCommits, maxSubmissions, maxIdempotency, maxEvents} \subseteq Nat \ {0}
    /\ Faults \subseteq {"rollback", "lost"} /\ Persistent \in BOOLEAN

VARIABLES
    now,
    db,         \* the stored state
    req,        \* where each request is
    issued,     \* the commit id a client holds for a hash
    nextCommit,
    faults,
    granted,    \* history: the submissions found eligible, with their credit
    executed    \* history: the operations done under an idempotency key

vars == <<now, db, req, issued, nextCommit, faults, granted, executed>>

NoAnswer == [status |-> "none", id |-> 0]

TypeOK ==
    /\ now \in 0 .. MaxTime
    /\ Len(db.commits) <= maxCommits /\ Len(db.submissions) <= maxSubmissions
    /\ Len(db.idempotency) <= maxIdempotency /\ Len(db.events) <= maxEvents
    /\ \A r \in Attempts :
         req[r].phase \in {"idle", "begin", "operate", "read", "lease", "verify", "complete",
                           "unlease", "release", "done", "failed", "crashed"}
    /\ issued \in [Hashes -> Nat] /\ nextCommit \in Nat \ {0} /\ faults \in 0 .. MaxFaults

----------------------------------------------------------------------------
\* portal-store.ts

leaseIsActive(lease, t) == lease # None /\ lease.expiresAt > t
commitIsExpired(c, t) == c.abandonedAt # None \/ c.expiresAt <= t

\* A lease that ran out goes; then an expired commit without one is abandoned.
maintainCommit(c, t) ==
    LET lease == IF leaseIsActive(c.revealLease, t) THEN c.revealLease ELSE None
    IN  [c EXCEPT !.revealLease = lease,
                  !.abandonedAt = IF ~c.revealed /\ @ = None /\ lease = None /\ c.expiresAt <= t
                                  THEN t ELSE @]

\* The time from which a commit is kept for terminalRetention.
terminalAt(c) == IF c.abandonedAt # None THEN c.abandonedAt
                 ELSE IF c.revealed THEN c.createdAt ELSE None

keepRecord(e, t) ==
    IF e.state = "pending" THEN e.leaseExpiresAt > t ELSE t - e.createdAt <= idempotencyRetention

eventHash(event) == event.sequence

trimEvents(s) ==
    LET surplus == Len(s.events) - maxEvents
    IN  IF surplus <= 0 THEN s
        ELSE [s EXCEPT !.events = SubSeq(@, surplus + 1, Len(@)), !.eventOffset = @ + surplus,
                       !.eventAnchorHash = eventHash(s.events[surplus])]

maintainPortalState(s, t) ==
    trimEvents([s EXCEPT
        !.commits = SelectSeq([i \in DOMAIN @ |-> maintainCommit(@[i], t)],
                              LAMBDA c : terminalAt(c) = None \/ t - terminalAt(c) <= terminalRetention),
        !.submissions = SelectSeq(@, LAMBDA sub : t - sub.submittedAt <= terminalRetention),
        !.idempotency = SelectSeq(@, LAMBDA e : keepRecord(e, t))])

validatePortalEventChain(s) ==
    \A i \in DOMAIN s.events :
        /\ s.events[i].sequence = s.eventOffset + i
        /\ s.events[i].prevHash = IF i = 1 THEN s.eventAnchorHash ELSE eventHash(s.events[i - 1])

\* What a reader insists on: capacities, the event chain, and rows that are
\* already in their normal form.
normalizePortalState(s) ==
    /\ Len(s.commits) <= maxCommits /\ Len(s.submissions) <= maxSubmissions
    /\ Len(s.idempotency) <= maxIdempotency /\ Len(s.events) <= maxEvents
    /\ s.eventOffset = 0 <=> s.eventAnchorHash = 0
    /\ validatePortalEventChain(s)
    /\ \A i \in DOMAIN s.submissions :
         s.submissions[i].settlementState =
            IF s.submissions[i].state = "rejected" THEN "ineligible" ELSE "unsettled"

appendPortalEvent(s) ==
    LET prior == IF s.events = <<>> THEN None ELSE Last(s.events)
    IN  [s EXCEPT !.events = Append(@,
            [sequence |-> IF prior # None THEN prior.sequence + 1 ELSE s.eventOffset + 1,
             prevHash |-> IF prior # None THEN eventHash(prior) ELSE s.eventAnchorHash])]

assertPortalCapacity(rows, maximum) == Len(rows) < maximum

\* updatePortalStateShared: maintenance before and after; a throw writes nothing.
stored(s) == maintainPortalState(s, now)
current == maintainPortalState(db, now)

----------------------------------------------------------------------------
\* idempotency.ts

entryOf(s, r) == SelectInSeq(s.idempotency, LAMBDA e : e.route = Plan[r].kind /\ e.key = Plan[r].key)

\* One try of one request draws one random id.
token(r) == <<r, req[r].try>>

reserve(s, r) ==
    [s EXCEPT !.idempotency = Append(@,
        [route |-> Plan[r].kind, key |-> Plan[r].key, hash |-> Plan[r].hash, state |-> "pending",
         createdAt |-> req[r].at, reservation |-> token(r),
         leaseExpiresAt |-> req[r].at + idempotencyLease, answer |-> NoAnswer])]

takeOver(s, i, r) ==
    [s EXCEPT !.idempotency[i].reservation = token(r),
              !.idempotency[i].leaseExpiresAt = req[r].at + idempotencyLease,
              !.idempotency[i].createdAt = req[r].at]

\* The state to write (None: the update throws) and where the request goes.
beginOutcome(s, r) ==
    LET i == entryOf(s, r)
        first == IF Plan[r].kind = "commit" THEN "operate" ELSE "read"
        e == s.idempotency[i]
    IN  IF i = 0
        THEN IF ~assertPortalCapacity(s.idempotency, maxIdempotency)
             THEN [db |-> None, phase |-> "failed", answer |-> [status |-> "capacity", id |-> 0], wait |-> 0]
             ELSE [db |-> reserve(s, r), phase |-> first, answer |-> NoAnswer, wait |-> 0]
        ELSE IF e.hash # Plan[r].hash
        THEN [db |-> appendPortalEvent(s), phase |-> "done", answer |-> [status |-> "conflict", id |-> 0],
              wait |-> 0]
        ELSE IF e.state = "completed"
        THEN [db |-> appendPortalEvent(s), phase |-> "done", answer |-> e.answer, wait |-> 0]
        ELSE IF e.leaseExpiresAt > req[r].at
        THEN [db |-> s, phase |-> "failed", answer |-> [status |-> "pending", id |-> 0],
              wait |-> e.leaseExpiresAt - req[r].at]
        ELSE [db |-> takeOver(s, i, r), phase |-> first, answer |-> NoAnswer, wait |-> 0]

\* The reservation that must still be there when the operation is done.
holdsReservation_anyToken(s, r) == Plan[r].key = None \/ entryOf(s, r) # 0
holdsReservation(s, r) ==
    Plan[r].key # None =>
        LET i == entryOf(s, r)
        IN  i # 0 /\ s.idempotency[i].state = "pending" /\ s.idempotency[i].hash = Plan[r].hash
              /\ s.idempotency[i].reservation = token(r)

storeAnswer(s, r, reply) ==
    IF Plan[r].key = None THEN s
    ELSE appendPortalEvent([s EXCEPT !.idempotency[entryOf(s, r)] =
            [@ EXCEPT !.state = "completed", !.answer = reply, !.reservation = None, !.leaseExpiresAt = None]])

releaseReservation(s, r) ==
    [s EXCEPT !.idempotency = SelectSeq(@, LAMBDA e :
        ~(e.route = Plan[r].kind /\ e.key = Plan[r].key /\ e.state = "pending" /\ e.reservation = token(r)))]

----------------------------------------------------------------------------
\* portal-state.ts

hasCommit(s, hash) == \E i \in DOMAIN s.commits : s.commits[i].hash = hash
indexOf(s, id) == SelectInSeq(s.commits, LAMBDA c : c.id = id)

\* Built before the update that stores it.
prepareCommit(r) ==
    [id |-> nextCommit, hash |-> Plan[r].hash, cid |-> CidOf[Plan[r].hash], createdAt |-> req[r].at,
     expiresAt |-> req[r].at + commitTtl, revealed |-> FALSE, abandonedAt |-> None, revealLease |-> None,
     by |-> Plan[r].key]

persistCommit(s, c) == appendPortalEvent([s EXCEPT !.commits = Append(@, c)])

\* The first commit of this solution that is not abandoned.
firstMatchingCommit(s, cid) ==
    SelectInSeq(s.commits, LAMBDA c :
        /\ c.cid = cid /\ c.abandonedAt = None
        /\ c.revealed \/ c.revealLease # None \/ ~commitIsExpired(c, now))

\* Only rows that come from the chain count; a smaller score is better.
frontierBest(s) ==
    LET rows == {s.submissions[i].score : i \in {j \in DOMAIN s.submissions :
                                                   s.submissions[j].source = "chain-p42-v1"}}
    IN  CHOOSE best \in rows \cup {seedBest} : \A other \in rows \cup {seedBest} : best <= other

incrementalFrontierCredit(s, score) ==
    IF frontierBest(s) - score >= minImprovement /\ frontierBest(s) > score
    THEN frontierBest(s) - score ELSE 0

creditOf(s, c) ==
    IF firstMatchingCommit(s, c.cid) # 0 /\ s.commits[firstMatchingCommit(s, c.cid)].id = c.id
    THEN incrementalFrontierCredit(s, ScoreOf[c.cid]) ELSE 0

recordSubmission(s, i, credit) ==
    appendPortalEvent([s EXCEPT
        !.commits[i] = [@ EXCEPT !.revealed = TRUE, !.revealLease = None],
        !.submissions = Append(@,
            [commit |-> s.commits[i].id, score |-> ScoreOf[s.commits[i].cid], source |-> "local-phase-0",
             state |-> IF credit > 0 THEN "revealed" ELSE "rejected",
             settlementState |-> IF credit > 0 THEN "unsettled" ELSE "ineligible", submittedAt |-> now])])

\* The checks of the first read, repeated under the lock.
revealable(s, id) ==
    indexOf(s, id) # 0 /\ LET c == s.commits[indexOf(s, id)] IN ~c.revealed /\ ~commitIsExpired(c, now)

takeLease(s, i, r) ==
    [s EXCEPT !.commits[i].revealLease = [id |-> token(r), expiresAt |-> now + revealLease]]

holdsLease(s, i, r) == s.commits[i].revealLease # None /\ s.commits[i].revealLease.id = token(r)

dropLease(s, r) ==
    [s EXCEPT !.commits = [i \in DOMAIN @ |->
        IF @[i].id = req[r].target /\ ~@[i].revealed /\ @[i].revealLease # None
             /\ @[i].revealLease.id = token(r)
        THEN [@[i] EXCEPT !.revealLease = None] ELSE @[i]]]

----------------------------------------------------------------------------
\* The requests

at(r, phase) == req[r].phase = phase
go(r, phase) == req' = [req EXCEPT ![r].phase = phase]
finish(r, phase, answer) == req' = [req EXCEPT ![r].phase = phase, ![r].answer = answer]

clientVars == <<issued, nextCommit, granted, executed>>

\* A fault of the transaction itself: nothing is written, or the reply to COMMIT
\* is lost; the request sees an error either way.
Fault(r, kind, written, onError) ==
    /\ kind \in Faults /\ faults < MaxFaults /\ now <= LastFault
    /\ faults' = faults + 1
    /\ db' = IF kind = "lost" THEN stored(written) ELSE db
    /\ go(r, onError)
    /\ UNCHANGED <<now, issued>>

Start(r) ==
    /\ at(r, "idle")
    /\ Plan[r].kind = "reveal" => issued[Plan[r].hash] # 0
    /\ req' = [req EXCEPT ![r].at = now, ![r].target = issued[Plan[r].hash],
                          ![r].phase = IF Plan[r].key # None THEN "begin"
                                       ELSE IF Plan[r].kind = "commit" THEN "operate" ELSE "read"]
    /\ UNCHANGED <<now, db, faults, clientVars>>

beginIdempotentRequest(r) ==
    /\ at(r, "begin")
    /\ LET o == beginOutcome(current, r)
       IN  \/ /\ db' = IF o.db = None THEN db ELSE stored(o.db)
              /\ req' = [req EXCEPT ![r].phase = o.phase, ![r].answer = o.answer, ![r].at = now,
                                    ![r].retryAt = now + o.wait]
              /\ issued' = IF Plan[r].kind = "commit" /\ o.answer.status = "ok"
                           THEN [issued EXCEPT ![Plan[r].hash] = o.answer.id] ELSE issued
              /\ UNCHANGED <<now, faults, nextCommit, granted, executed>>
           \/ /\ o.db # None
              /\ \E kind \in Faults : Fault(r, kind, o.db, "failed")
              /\ UNCHANGED <<nextCommit, granted, executed>>

record(r) ==
    executed' = IF Plan[r].key = None THEN executed
                ELSE executed \cup {[key |-> Plan[r].key, route |-> Plan[r].kind, by |-> token(r),
                                     reservedAt |-> current.idempotency[entryOf(current, r)].createdAt,
                                     at |-> now]}

completeCommit(r) ==
    /\ at(r, "operate")
    /\ LET s == current
           c == prepareCommit(r)
           after == storeAnswer(persistCommit(s, c), r, [status |-> "ok", id |-> c.id])
       IN  \/ /\ ~holdsReservation(s, r) \/ ~assertPortalCapacity(s.commits, maxCommits)
              /\ ~hasCommit(s, c.hash) \/ ~holdsReservation(s, r)
              /\ finish(r, "release", [status |-> "lost", id |-> 0])
              /\ UNCHANGED <<now, db, faults, clientVars>>
           \/ /\ holdsReservation(s, r) /\ hasCommit(s, c.hash)
              /\ finish(r, "release", [status |-> "exists", id |-> 0])
              /\ UNCHANGED <<now, db, faults, clientVars>>
           \/ /\ holdsReservation(s, r) /\ ~hasCommit(s, c.hash) /\ assertPortalCapacity(s.commits, maxCommits)
              /\ nextCommit' = nextCommit + 1
              /\ \/ /\ db' = stored(after)
                    /\ finish(r, "done", [status |-> "ok", id |-> c.id])
                    /\ issued' = [issued EXCEPT ![c.hash] = c.id]
                    /\ record(r)
                    /\ UNCHANGED faults
                 \/ \E kind \in Faults :
                      /\ Fault(r, kind, after, "release")
                      /\ IF kind = "lost" THEN record(r) ELSE UNCHANGED executed
              /\ UNCHANGED <<now, granted>>

\* revealCommit, its first read: the store as it is, not maintained.
revealRead(r) ==
    /\ at(r, "read")
    /\ go(r, IF revealable(db, req[r].target) THEN "lease" ELSE "release")
    /\ UNCHANGED <<now, db, faults, clientVars>>

reserveReveal(r) ==
    /\ at(r, "lease")
    /\ LET s == current
           i == indexOf(s, req[r].target)
       IN  IF revealable(s, req[r].target) /\ ~leaseIsActive(s.commits[i].revealLease, now)
           THEN \/ /\ db' = stored(takeLease(s, i, r))
                   /\ go(r, "verify")
                   /\ UNCHANGED <<now, faults, clientVars>>
                \/ /\ \E kind \in Faults : Fault(r, kind, takeLease(s, i, r), "release")
                   /\ UNCHANGED <<nextCommit, granted, executed>>
           ELSE /\ go(r, "release")
                /\ UNCHANGED <<now, db, faults, clientVars>>

runCanonicalVerifier(r) ==
    /\ at(r, "verify")
    /\ \E next \in {"complete", "unlease"} : go(r, next)
    /\ UNCHANGED <<now, db, faults, clientVars>>

completeReveal(r) ==
    /\ at(r, "complete")
    /\ LET s == current
           i == indexOf(s, req[r].target)
           credit == creditOf(s, s.commits[i])
           reply == [status |-> "ok", id |-> req[r].target]
           after == storeAnswer(recordSubmission(s, i, credit), r, reply)
       IN  IF /\ holdsReservation(s, r) /\ i # 0
              /\ ~s.commits[i].revealed /\ holdsLease(s, i, r) /\ assertPortalCapacity(s.submissions, maxSubmissions)
           THEN LET done ==
                      /\ record(r)
                      /\ granted' = granted \cup {[commit |-> s.commits[i].id, cid |-> s.commits[i].cid,
                                                    credit |-> credit, by |-> token(r)]}
                IN  /\ \/ db' = stored(after) /\ finish(r, "done", reply) /\ done /\ UNCHANGED <<faults, issued>>
                       \/ \E kind \in Faults :
                            /\ Fault(r, kind, after, "unlease")
                            /\ IF kind = "lost" THEN done ELSE UNCHANGED <<granted, executed>>
                    /\ UNCHANGED <<now, nextCommit>>
           ELSE /\ go(r, "unlease")
                /\ UNCHANGED <<now, db, faults, clientVars>>

\* The two clean-ups swallow their own errors.
releaseRevealLease(r) ==
    /\ at(r, "unlease")
    /\ go(r, "release")
    /\ db' = stored(dropLease(current, r))
    /\ UNCHANGED <<now, faults, clientVars>>

releaseIdempotencyReservation(r) ==
    /\ at(r, "release")
    /\ req' = [req EXCEPT ![r].phase = "failed", ![r].retryAt = now]
    /\ db' = IF Plan[r].key = None THEN db ELSE stored(releaseReservation(current, r))
    /\ UNCHANGED <<now, faults, clientVars>>

\* The process of the request dies.
Crash(r) ==
    /\ req[r].phase \notin {"idle", "done", "failed", "crashed"}
    /\ faults < MaxFaults /\ now <= LastFault
    /\ faults' = faults + 1
    /\ req' = [req EXCEPT ![r].phase = "crashed", ![r].retryAt = now]
    /\ UNCHANGED <<now, db, clientVars>>

\* The client tries again, after Retry-After if it was told to wait.
Retry(r) ==
    /\ req[r].phase \in {"failed", "crashed"}
    /\ req[r].try < MaxTries \/ Persistent
    /\ now >= req[r].retryAt \/ now = MaxTime
    /\ req' = [req EXCEPT ![r].phase = "idle", ![r].try = (@ % MaxTries) + 1, ![r].answer = NoAnswer]
    /\ UNCHANGED <<now, db, faults, clientVars>>

Tick == now < MaxTime /\ now' = now + 1 /\ UNCHANGED <<db, req, faults, clientVars>>

Init ==
    /\ now = 0 /\ nextCommit = 1 /\ faults = 0 /\ granted = {} /\ executed = {}
    /\ db = [commits |-> <<>>, submissions |-> <<>>, idempotency |-> <<>>, events |-> <<>>,
             eventOffset |-> 0, eventAnchorHash |-> 0]
    /\ req = [r \in Attempts |-> [phase |-> "idle", try |-> 1, at |-> 0, target |-> 0, retryAt |-> 0,
                                  answer |-> NoAnswer]]
    /\ issued = [h \in Hashes |-> 0]

Step(r) ==
    \/ Start(r) \/ beginIdempotentRequest(r) \/ completeCommit(r)
    \/ revealRead(r) \/ reserveReveal(r) \/ runCanonicalVerifier(r) \/ completeReveal(r)
    \/ releaseRevealLease(r) \/ releaseIdempotencyReservation(r)

Next == Tick \/ \E r \in Attempts : Step(r) \/ Crash(r) \/ Retry(r)

Spec == Init /\ [][Next]_vars

\* Requests that live run on, clients retry, time passes.
FairSpec == Spec /\ WF_vars(Tick) /\ \A r \in Attempts : WF_vars(Step(r) \/ Retry(r))
----------------------------------------------------------------------------
\* Every state the store is left in is one the readers accept: within its
\* capacities, its event chain intact through every trim, its rows in normal
\* form (normalizePortalState).
StoreReadable == normalizePortalState(db)

\* Under one idempotency key an operation is done once, whatever crashes, lost
\* replies, expired leases and retries there are, until the retention of the
\* record, which counts from the reservation, has passed.
IdempotentOnce ==
    \A x, y \in executed :
        x.key = y.key /\ x.route = y.route /\ x # y /\ x.at <= y.at =>
            y.at - x.reservedAt > idempotencyRetention

\* A commit is revealed at most once, although its lease may run out while the
\* verifier is still at work and another reveal takes over.
RevealedOnce == \A x, y \in granted : x.commit = y.commit => x = y

\* portal-state.ts:245: "Only the earliest commit for a given (problem,
\* solutionCid) is ever eligible for credit".
OneEligiblePerSolution ==
    \A x, y \in granted : x.cid = y.cid /\ x.credit > 0 /\ y.credit > 0 => x = y

\* portal-state.ts:259: the credit is computed under the lock "so a concurrent
\* reveal can't be credited for the same delta".
DeltaCreditedOnce == Cardinality({x \in granted : x.credit > 0}) <= 1

\* An effect and its answer are stored together: a client that retries under its
\* key is never told that its own commit already exists.
OwnCommitNeverInTheWay ==
    \A r \in Attempts :
        req[r].answer.status = "exists" /\ req[r].phase = "release" /\ Plan[r].key # None =>
            \A i \in DOMAIN db.commits :
                db.commits[i].hash = Plan[r].hash => db.commits[i].by # Plan[r].key

\* A client that keeps retrying under its key is answered.
RetriesAreAnswered == \A r \in Attempts : <>(req[r].phase = "done")
=============================================================================
