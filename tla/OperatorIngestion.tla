-------------------------- MODULE OperatorIngestion --------------------------
(***************************************************************************)
(* How the challenge operator turns finalized events into verifier jobs    *)
(* (agent/operator.mjs: main, scanOnce and the functions they call, with   *)
(* the cursor of agent/lib.mjs and the runner queue they drive).  Blocks   *)
(* are reorganised, the process dies between any two steps, payloads are   *)
(* unavailable for a while and the queue admits a bounded number of jobs.  *)
(*                                                                         *)
(* The chain is a sequence of blocks, each with one event or none.  The    *)
(* hash of a block stands for the chain up to it, so it IS that prefix,    *)
(* and so is the id of the job made of the block's event.                  *)
(***************************************************************************)
EXTENDS Integers, Sequences, FiniteSets, Functions

CONSTANTS
    None,                   \* no value, and a block without an event
    Submissions,            \* the submissions that are revealed
    finalityConfirmations, reorgOverlapBlocks,
    admissionLimit,         \* the jobs an active queue admits
    Answers,                \* what a payload's source may answer: bytes, retryable, terminal
    Window,                 \* the blocks a payload is retried for
    MaxHead, MaxReorgs, MaxDepth, MaxFaults, MaxFailures   \* bounds

Depths ==
    /\ {finalityConfirmations, MaxHead, MaxReorgs, MaxDepth, MaxFaults, MaxFailures, Window} \subseteq Nat
    /\ Answers \subseteq {"bytes", "retryable", "terminal"} /\ Answers # {}
    /\ {reorgOverlapBlocks, admissionLimit} \subseteq Nat \ {0}

VARIABLES
    chain,              \* what the RPC reports
    reorgs, faults, failures,      \* what happened so far, bounded
    op,                 \* the process: where it is, and the scan in its memory
    cursor, backfill,   \* the durable cursor and backfill marker
    specs,              \* jobs/: [job -> the bytes of its specification]
    payloads, refused,  \* inputs/ and retry-state/: retrieved, and terminally failed
    queue, tombstones   \* the runner queue and what was archived from it

world == <<chain, reorgs>>
disk == <<specs, payloads, refused, queue, tombstones>>
vars == <<world, faults, failures, op, cursor, backfill, disk>>

Kinds == {"reveal", "expire"}
Events == [kind : Kinds, sub : Submissions]
Blocks == UNION {[1 .. n -> Events \cup {None}] : n \in 0 .. MaxHead}
BlockAt(h) == SubSeq(chain, 1, h)
EventsIn(c, from, to) == {SubSeq(c, 1, h) : h \in {i \in from .. to : c[i] # None}}
Last(block) == block[Len(block)]
safeLatest == IF Len(chain) > finalityConfirmations THEN Len(chain) - finalityConfirmations ELSE 0

\* What the contracts let happen: one reveal, and a challenge expires only of a revealed one.
Legal(c) ==
    \A h \in DOMAIN c : c[h] # None =>
        LET earlier == \E i \in 1 .. h - 1 : c[i] = [kind |-> "reveal", sub |-> c[h].sub]
        IN c[h].kind = "expire" <=> earlier

\* The instance hash of a reveal covers its deadline, which is that of its block's height.
revealInstanceHash(c, sub) ==
    {h \in DOMAIN c : c[h] = [kind |-> "reveal", sub |-> sub]}
Current(block) == revealInstanceHash(chain, Last(block).sub) = revealInstanceHash(block, Last(block).sub)
WindowClosed(job) == Len(job) + Window <= op.to

Idle == [pc |-> "idle", to |-> 0, seen |-> << >>, todo |-> {}, job |-> None]
Down == [Idle EXCEPT !.pc = "down"]
At(pc) == op.pc = pc
Go(pc) == op' = [op EXCEPT !.pc = pc]
-----------------------------------------------------------------------------
\* The cursor of lib.mjs: the next block, and anchors of the blocks before it.
buildOperatorCursor(next, anchors) ==
    [next |-> next, anchors |-> {a \in anchors : Len(a) >= next - reorgOverlapBlocks - 1}]
FromNextBlock(to) == cursor.next .. to
nextOperatorScanRange(to) ==
    (IF cursor.next - reorgOverlapBlocks > 1 THEN cursor.next - reorgOverlapBlocks ELSE 1) .. to
cursorAnchorMismatch == {a \in cursor.anchors : Len(a) > Len(chain) \/ BlockAt(Len(a)) # a}

\* ChallengeExpired reopens a revealed submission: a job of its own, bound to its one reveal.
RevealsOnly(blocks) == {b \in blocks : Last(b).kind = "reveal"}
canonicalRevealRecords(blocks) == RevealsOnly(blocks)
canonicalRechallengeRecords(blocks) ==
    {b \in blocks : Last(b).kind = "expire" /\ Cardinality(revealInstanceHash(b, Last(b).sub)) = 1}
canonicalRecords(blocks) == canonicalRevealRecords(blocks) \cup canonicalRechallengeRecords(blocks)

\* A registry that attests this verifier adds to a job the block at which it was observed; one
\* that does not makes the scan fail.
buildRegistryBinding(block) == [observed |-> block]
currentRegistryBinding == buildRegistryBinding(BlockAt(safeLatest))

\* isExplicitRetryableDaFailure: what recoverPayload may return.
recoverPayload == Answers

Settled(job) == queue[job].status \in {"settled", "cancelled"}
newJob(da) == [status |-> "queued", da |-> da, alert |-> "none"]
Pending == {j \in DOMAIN queue : queue[j].alert = "pending"}
-----------------------------------------------------------------------------
\* scanOnce: the head, and a backfill if none was ever completed.
scanOnce ==
    /\ At("idle")
    /\ op' = [Idle EXCEPT !.pc = IF backfill = None THEN "backfill" ELSE "anchors", !.to = safeLatest]
    /\ UNCHANGED <<world, faults, failures, cursor, backfill, disk>>

\* backfillChallengeExpiredOnce: every generation from the start; its marker comes last.
backfillChallengeExpiredOnce ==
    /\ At("backfill")
    /\ op' = [op EXCEPT !.pc = "backfilling", !.seen = chain,
                        !.todo = canonicalRechallengeRecords(EventsIn(chain, 1, op.to))]
    /\ UNCHANGED <<world, faults, failures, cursor, backfill, disk>>

\* The marker is written after the events it stands for are ingested.
MarkAfterIngest == op.pc = "backfilling" /\ op.todo = {}
BackfillMarker ==
    /\ MarkAfterIngest
    /\ backfill' = IF op.to >= 1 THEN op.to ELSE None
    /\ op' = [op EXCEPT !.pc = "anchors", !.todo = {}]
    /\ UNCHANGED <<world, faults, failures, cursor, disk>>

\* A changed anchor moves the cursor back to it, durably.
Anchors ==
    /\ At("anchors")
    /\ cursor' = IF cursorAnchorMismatch = {} THEN cursor
                 ELSE LET first == CHOOSE a \in cursorAnchorMismatch :
                                       \A b \in cursorAnchorMismatch : Len(a) <= Len(b)
                      IN buildOperatorCursor(Len(first), {a \in cursor.anchors : Len(a) < Len(first)})
    /\ Go("query")
    /\ UNCHANGED <<world, faults, failures, backfill, disk>>

\* The events of the range, which overlaps what was scanned before; no range, no ingestion.
Query ==
    /\ At("query")
    /\ LET range == nextOperatorScanRange(op.to)
       IN op' = IF range = {} THEN [op EXCEPT !.pc = "refresh"]
                ELSE [op EXCEPT !.pc = "quarantine", !.seen = chain, !.todo =
                        canonicalRecords({SubSeq(chain, 1, h) : h \in {i \in range : chain[i] # None}})]
    /\ UNCHANGED <<world, faults, failures, cursor, backfill, disk>>

\* quarantineOrphanedJobs: what the range does not hold any more is cancelled, with an alert.
Orphaned ==
    {j \in DOMAIN queue : /\ Len(j) \in nextOperatorScanRange(op.to)
                          /\ queue[j].status # "cancelled"
                          /\ j \notin op.todo}
quarantineOrphanedJobs ==
    /\ At("quarantine")
    /\ queue' = [j \in DOMAIN queue |->
                    IF j \in Orphaned THEN [queue[j] EXCEPT !.status = "cancelled", !.alert = "pending"]
                    ELSE queue[j]]
    /\ Go("ingest")
    /\ UNCHANGED <<world, faults, failures, cursor, backfill, specs, payloads, refused, tombstones>>

\* ingestReveal, up to the immutable specification of the job: a known job is skipped, and
\* the bytes of a specification name the finalized block at which the registry was observed.
Known(job) == job \in DOMAIN queue
Next1(job) == job \in op.todo /\ \A other \in op.todo : Len(job) <= Len(other)
Specify(job) ==
    /\ op.pc \in {"ingest", "backfilling"} /\ op.job = None /\ Next1(job)
    /\ safeLatest >= 1 /\ Current(job)
    /\ IF Known(job)
       THEN /\ op' = [op EXCEPT !.todo = @ \ {job}]
            /\ UNCHANGED <<specs, payloads>>
       ELSE \E da \in recoverPayload :
            LET spec == [binding |-> currentRegistryBinding, da |-> da]
            IN /\ job \in DOMAIN specs => specs[job] = spec
               /\ specs' = [j \in DOMAIN specs \cup {job} |-> IF j = job THEN spec ELSE specs[j]]
               /\ payloads' = IF da = "bytes" THEN payloads \cup {job} ELSE payloads
               /\ op' = [op EXCEPT !.job = job]
    /\ UNCHANGED <<world, faults, failures, cursor, backfill, refused, queue, tombstones>>

\* A reveal that is not the current one, or other bytes than those on disk ("immutable
\* runtime artifact changed"): the scan ends.
IngestRefused(job) ==
    /\ op.pc \in {"ingest", "backfilling"} /\ op.job = None /\ Next1(job)
    /\ \/ /\ ~Current(job) \/ safeLatest < 1
          /\ UNCHANGED payloads
       \/ /\ Current(job) /\ ~Known(job) /\ job \in DOMAIN specs
          /\ \E da \in recoverPayload :
               /\ specs[job] # [binding |-> currentRegistryBinding, da |-> da]
               /\ payloads' = IF da = "bytes" THEN payloads \cup {job} ELSE payloads
    /\ op' = Idle
    /\ UNCHANGED <<world, faults, failures, cursor, backfill, specs, refused, queue, tombstones>>

\* The bridge's enqueue: a tombstone answers for an archived job; room is made by archiving
\* settled jobs whose alert was delivered.
Archivable == {j \in DOMAIN queue : Settled(j)}
Full == Cardinality(DOMAIN queue) >= admissionLimit
With(jobs, job) == [j \in jobs \cup {job} |-> IF j = job THEN newJob(specs[job].da) ELSE queue[j]]
Enqueued == op' = [op EXCEPT !.todo = @ \ {op.job}, !.job = None]

Enqueue ==
    /\ op.job # None
    /\ \/ /\ op.job \in tombstones
          /\ UNCHANGED <<queue, tombstones>>
       \/ /\ op.job \notin tombstones /\ ~Full
          /\ queue' = With(DOMAIN queue, op.job)
          /\ UNCHANGED tombstones
       \/ /\ op.job \notin tombstones /\ Full
          /\ \E old \in Archivable \ Pending :
               /\ queue' = With(DOMAIN queue \ {old}, op.job)
               /\ tombstones' = tombstones \cup {old}
    /\ Enqueued
    /\ UNCHANGED <<world, faults, failures, cursor, backfill, specs, payloads, refused>>

\* The admission limit, or a settled job with an undelivered alert: the scan ends.
EnqueueRefused ==
    /\ op.job # None /\ op.job \notin tombstones /\ Full
    /\ Archivable = {} \/ Archivable \cap Pending # {}
    /\ op' = Idle
    /\ UNCHANGED <<world, faults, failures, cursor, backfill, disk>>

\* persistCursor: the anchors are read after the events they vouch for.
Ingested == op.pc = "ingest" /\ op.todo = {}
persistCursor ==
    /\ Ingested
    /\ cursor' = buildOperatorCursor(op.to + 1, {BlockAt(h) : h \in 1 .. op.to})
    /\ Go("refresh")
    /\ UNCHANGED <<world, faults, failures, backfill, disk>>
-----------------------------------------------------------------------------
\* refreshRetryableJobs: one more attempt for a job without bytes and without a final answer.
Unsettled(job) == job \notin refused
retryableJobIsEligible(job) ==
    /\ job \in DOMAIN queue /\ queue[job].status = "queued" /\ queue[job].da = "retryable"
    /\ job \notin payloads /\ Unsettled(job)
Retry(job) ==
    /\ At("refresh") /\ retryableJobIsEligible(job) /\ Current(job)
    /\ \/ payloads' = payloads \cup {job} /\ UNCHANGED refused
       \/ refused' = refused \cup {job} /\ UNCHANGED payloads
    /\ UNCHANGED <<world, faults, failures, op, cursor, backfill, specs, queue, tombstones>>

Refreshed == At("refresh") /\ Go("work") /\ UNCHANGED <<world, faults, failures, cursor, backfill, disk>>

\* runWorkerOnce: the executor verifies a job whose payload is decided, or gives it up when
\* the challenge window is over; otherwise it waits.
Decided(job) == queue[job].da # "retryable" \/ job \in payloads \/ job \in refused
Work ==
    /\ At("work")
    /\ \/ \E j \in DOMAIN queue :
            /\ queue[j].status = "queued"
            /\ \/ Decided(j) /\ queue' = [queue EXCEPT ![j].status = "verified"]
               \/ /\ ~Decided(j) /\ WindowClosed(j)
                  /\ queue' = [queue EXCEPT ![j] = [@ EXCEPT !.status = "settled", !.alert = "pending"]]
       \/ UNCHANGED queue
    /\ Go("alerts")
    /\ UNCHANGED <<world, faults, failures, cursor, backfill, specs, payloads, refused, tombstones>>

\* reconcileTerminalAlerts: every pending alert is appended once and marked.
Delivered == [j \in DOMAIN queue |-> IF queue[j].alert = "pending" THEN [queue[j] EXCEPT !.alert = "delivered"]
                                     ELSE queue[j]]
reconcileTerminalAlerts ==
    /\ op.pc \in {"alerts", "lastAlerts"}
    /\ queue' = Delivered
    /\ op' = IF At("alerts") THEN [op EXCEPT !.pc = "consume"] ELSE Idle
    /\ UNCHANGED <<world, faults, failures, cursor, backfill, specs, payloads, refused, tombstones>>

\* consumeCandidate for what the verifier decided (a challenge is OperatorActions' business).
consumeCandidates ==
    /\ At("consume")
    /\ \E alert \in {"none", "pending"} :
         queue' = [j \in DOMAIN queue |->
                     IF queue[j].status = "verified" THEN [queue[j] EXCEPT !.status = "settled", !.alert = alert]
                     ELSE queue[j]]
    /\ Go("lastAlerts")
    /\ UNCHANGED <<world, faults, failures, cursor, backfill, specs, payloads, refused, tombstones>>

\* main's loop catches what a scan throws: an RPC error, a registry that does not attest.
ScanFails ==
    /\ op.pc \notin {"idle", "down"} /\ op.job = None /\ failures < MaxFailures
    /\ failures' = failures + 1 /\ op' = Idle
    /\ UNCHANGED <<world, faults, cursor, backfill, disk>>

\* The bridge process fails in the enqueue.
BridgeFails ==
    /\ op.job # None /\ faults < MaxFaults
    /\ faults' = faults + 1 /\ op' = Idle
    /\ UNCHANGED <<world, failures, cursor, backfill, disk>>

Crash ==
    /\ ~At("down") /\ faults < MaxFaults
    /\ faults' = faults + 1 /\ op' = Down
    /\ UNCHANGED <<world, failures, cursor, backfill, disk>>

\* main: alerts and candidates are reconciled before the first scan.
main ==
    /\ At("down") /\ safeLatest >= 1
    /\ op' = [Idle EXCEPT !.pc = "alerts"]
    /\ UNCHANGED <<world, faults, failures, cursor, backfill, disk>>
-----------------------------------------------------------------------------
Mine ==
    /\ Len(chain) < MaxHead
    /\ \E e \in Events \cup {None} : Legal(Append(chain, e)) /\ chain' = Append(chain, e)
    /\ UNCHANGED <<reorgs, faults, failures, op, cursor, backfill, disk>>

\* A reorganisation replaces blocks below the head; deeper than finality, but not than the overlap.
Reorg ==
    /\ reorgs < MaxReorgs /\ reorgs' = reorgs + 1
    /\ \E new \in Blocks :
         /\ Len(new) = Len(chain) /\ new # chain /\ Legal(new)
         /\ \A h \in 1 .. Len(chain) - MaxDepth : new[h] = chain[h]
         /\ chain' = new
    /\ UNCHANGED <<faults, failures, op, cursor, backfill, disk>>

Init ==
    /\ chain = << >> /\ reorgs = 0 /\ faults = 0 /\ failures = 0
    /\ op = Down
    /\ cursor = buildOperatorCursor(1, {}) /\ backfill = None
    /\ specs = << >> /\ payloads = {} /\ refused = {} /\ queue = << >> /\ tombstones = {}

Ingest(job) == Specify(job) \/ IngestRefused(job) \/ Retry(job)
Scan ==
    \/ scanOnce \/ backfillChallengeExpiredOnce \/ BackfillMarker \/ Anchors \/ Query
    \/ quarantineOrphanedJobs \/ Enqueue \/ EnqueueRefused \/ persistCursor \/ Refreshed
    \/ Work \/ reconcileTerminalAlerts \/ consumeCandidates \/ main
    \/ \E job \in op.todo \cup DOMAIN queue : Ingest(job)
Next == Scan \/ ScanFails \/ BridgeFails \/ Crash \/ Mine \/ Reorg

Spec == Init /\ [][Next]_vars
\* A scan is followed by another one, and a service manager restarts the process.
FairSpec == Spec /\ WF_vars(Scan)
-----------------------------------------------------------------------------
Jobs == UNION {[1 .. n -> Events \cup {None}] : n \in 1 .. MaxHead}

TypeOK ==
    /\ chain \in Blocks /\ {reorgs, faults, failures} \subseteq Nat
    /\ op.pc \in {"idle", "down", "backfill", "backfilling", "anchors", "query", "quarantine", "ingest",
                  "refresh", "work", "alerts", "consume", "lastAlerts"}
    /\ op.to \in 0 .. MaxHead /\ op.seen \in Blocks /\ op.todo \subseteq Jobs
    /\ op.job \in op.todo \cup {None}
    /\ cursor.next \in Nat /\ cursor.anchors \subseteq Jobs /\ backfill \in Nat \cup {None}
    /\ DOMAIN specs \cup payloads \cup refused \cup tombstones \subseteq Jobs
    /\ \A j \in DOMAIN queue :
         queue[j] \in [status : {"queued", "verified", "settled", "cancelled"},
                      da : recoverPayload, alert : {"none", "pending", "delivered"}]
    /\ Cardinality(DOMAIN queue) <= admissionLimit

\* A scan of a chain that stood still leaves no finalized event without a job, however often
\* the process died and blocks were replaced before, and no live job of a replaced block.
ScanComplete ==
    At("refresh") /\ op.seen = chain /\ cursor.next = op.to + 1 =>
        /\ EventsIn(chain, 1, op.to) \subseteq DOMAIN queue \cup tombstones
        /\ \A j \in DOMAIN queue :
             Len(j) <= op.to /\ BlockAt(Len(j)) # j => queue[j].status = "cancelled"

\* A payload is decided once: a job in the queue never has both bytes and a terminal failure.
PayloadDecidedOnce == payloads \cap refused \cap DOMAIN queue = {}

\* No job is cancelled whose event, a reveal or a reopened challenge, was in the rescan.
CancelledForCause ==
    [][\A j \in DOMAIN queue :
         j \in DOMAIN queue' /\ queue'[j].status = "cancelled" /\ queue[j].status # "cancelled"
            => SubSeq(op.seen, 1, Len(j)) # j]_vars

\* The backfill marker is only set when every generation below it has its job.
BackfillComplete ==
    [][backfill' # backfill =>
         canonicalRechallengeRecords(EventsIn(op.seen, 1, op.to)) \subseteq DOMAIN queue' \cup tombstones']_vars

\* Every finalized event gets a job, and every alert of a settled job is delivered.
Backlog ==
    {b \in EventsIn(chain, 1, safeLatest) :
        b \notin tombstones /\ (b \in DOMAIN queue => queue[b].status = "cancelled")}
EveryEventQueued == []<>(Backlog = {})
AlertsDelivered == []<>(Pending = {})
=============================================================================
