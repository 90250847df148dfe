--------------------------- MODULE GenerationStore ---------------------------
(***************************************************************************)
(* The publication store of the indexer service (agent/indexer-service.mjs:*)
(* runIndexerService, publishGenerationSync and what they call).  A cycle  *)
(* takes the publisher lock, indexes into a private stage, renames the     *)
(* stage into generations/ and then replaces the pointer current.json.     *)
(* The process may die between any two of these steps, a second process    *)
(* may be started beside it, and what is on disk may be damaged.           *)
(*                                                                         *)
(* A candidate is a verified checkpoint with its archive: the height it    *)
(* ends at and its content, the chain's up to there.  A generation id is   *)
(* the digest of the content and of the id of the generation before it,    *)
(* prefixed by the height; here it is that triple.                         *)
(***************************************************************************)
EXTENDS Integers, Sequences, FiniteSets, TLC, Functions

CONSTANTS
    None,                   \* no value
    Procs,                  \* the service processes
    Contents,               \* what the chain may hold up to a height
    MaxHead, MaxReorgs, MaxFaults, MaxDamage,    \* bounds
    maxConsecutiveFailures  \* the failures in a row after which a process exits

Budget == maxConsecutiveFailures \in Nat \ {0}

VARIABLES
    head,           \* the finalized height
    chain,          \* [height -> content]
    reorgs, faults, \* what happened so far, bounded
    hit,            \* the storages that were damaged
    lock,           \* the holder of publisher.lock
    proc,           \* per process: program counter, failures in a row, candidate, plan
    generations,    \* the directory generations/: [storage id -> [id, whole]]
    quarantine,     \* the replaced generations, each with the one that replaced it
    pointer         \* current.json

world == <<head, chain, reorgs, hit>>
disk == <<generations, quarantine, pointer>>
vars == <<world, faults, lock, proc, disk>>

Heights == 1 .. MaxHead
generationId(candidate, prev) == [height |-> candidate.height, content |-> candidate.content, prev |-> prev]
Idle(failures) == [pc |-> "idle", failures |-> failures]
Down == [pc |-> "down", failures |-> 0]
-----------------------------------------------------------------------------
\* readCurrentGeneration and validateGenerationDirectory: is a storage what its id says?
Whole(storage) == storage \in DOMAIN generations /\ generations[storage].whole
AcceptedId == IF pointer = None THEN None ELSE pointer.id
Damaged == pointer # None /\ ~Whole(pointer.storage)

\* A damaged accepted generation is only repaired by the very same one: the same height,
\* the same bytes and the same predecessor.
SameAsAccepted(candidate) == generationId(candidate, pointer.prev) = pointer.id

\* monotonicCheckpointDecision, and the identity checks around it.
Advances(candidate) ==
    pointer # None => ~Damaged /\ candidate.height > pointer.id.height
Unchanged(candidate) ==
    ~Damaged /\ pointer # None /\ SameAsAccepted(candidate)
Repairs(candidate) == Damaged /\ SameAsAccepted(candidate)
Accepted(candidate) == Repairs(candidate) \/ Advances(candidate)

\* Where a candidate goes: a fresh directory named by its id, or by the recovery evidence.
Condition == IF pointer.storage \in DOMAIN generations THEN "corrupt" ELSE "missing"
StorageFor(candidate) ==
    IF Repairs(candidate)
    THEN [id |-> pointer.id, recovers |-> <<pointer.storage, Condition>>]
    ELSE [id |-> generationId(candidate, AcceptedId), recovers |-> None]
-----------------------------------------------------------------------------
\* The end of a cycle: failures in a row end the process once the budget is used.
Failed(p) ==
    LET n == proc[p].failures + 1
    IN /\ proc' = [proc EXCEPT ![p] = IF n >= maxConsecutiveFailures THEN Down ELSE Idle(n)]
       /\ lock' = None
Succeeded(p) ==
    /\ proc' = [proc EXCEPT ![p] = Idle(0)]
    /\ lock' = None
Continue(p, pc) == proc' = [proc EXCEPT ![p].pc = pc] /\ UNCHANGED lock

\* acquireIndexerSingletonLock: without the lock the process ends, outside the failure budget.
LockUnchecked(p) ==
    /\ proc[p].pc = "idle"
    /\ lock' = p /\ proc' = [proc EXCEPT ![p].pc = "index"]
    /\ UNCHANGED <<world, faults, disk>>
acquireIndexerSingletonLock(p) ==
    /\ proc[p].pc = "idle"
    /\ IF lock = None THEN lock' = p /\ proc' = [proc EXCEPT ![p].pc = "index"]
       ELSE UNCHANGED lock /\ proc' = [proc EXCEPT ![p] = Down]
    /\ UNCHANGED <<world, faults, disk>>

\* runIndexer writes a verified candidate into the stage.
RunIndexer(p) ==
    /\ proc[p].pc = "index"
    /\ proc' = [proc EXCEPT ![p] = [pc |-> "publish", failures |-> @.failures,
                                    candidate |-> [height |-> head, content |-> chain[head]],
                                    storage |-> None]]
    /\ UNCHANGED <<world, faults, lock, disk>>

\* An RPC endpoint that lags behind, or bytes that differ from run to run.
RunIndexerAstray(p) ==
    /\ proc[p].pc = "index" /\ faults < MaxFaults
    /\ faults' = faults + 1
    /\ \E h \in 1 .. head, c \in Contents :
         proc' = [proc EXCEPT ![p] = [pc |-> "publish", failures |-> @.failures,
                                      candidate |-> [height |-> h, content |-> c], storage |-> None]]
    /\ UNCHANGED <<world, lock, disk>>

\* publishGenerationSync up to the first rename: decide, or quarantine the stage and throw.  A
\* directory that a crash left under the same name is adopted if it is whole.
SkipIfSameId(storage) ==
    IF \E s \in DOMAIN generations : s.id = storage.id THEN "point" ELSE "rename"
NextStep(storage) == IF storage \in DOMAIN generations THEN "point" ELSE "rename"

Decide(p) ==
    /\ proc[p].pc = "publish"
    /\ LET candidate == proc[p].candidate
           storage == StorageFor(candidate)
       IN \/ /\ Unchanged(candidate)
             /\ Continue(p, "tidy")
          \/ /\ Accepted(candidate)
             /\ storage \in DOMAIN generations => generations[storage].whole
             /\ proc' = [proc EXCEPT ![p].storage = storage,
                                     ![p].pc = NextStep(storage)]
             /\ UNCHANGED lock
          \/ /\ ~Unchanged(candidate)
             /\ Accepted(candidate) =>
                    storage \in DOMAIN generations /\ ~generations[storage].whole
             /\ Failed(p)
    /\ UNCHANGED <<world, faults, disk>>

\* renameSync(stage, destination).
RenameGeneration(p) ==
    /\ proc[p].pc = "rename"
    /\ generations' = (proc[p].storage :> [id |-> proc[p].storage.id, whole |-> TRUE]) @@ generations
    /\ Continue(p, "point")
    /\ UNCHANGED <<world, faults, quarantine, pointer>>

\* pointerWriter: current.json names the new generation.
PublishPointer(p) ==
    /\ proc[p].pc = "point"
    /\ LET storage == proc[p].storage
       IN /\ pointer' = [id |-> storage.id, prev |-> storage.id.prev, storage |-> storage]
          /\ IF storage.recovers = None THEN Succeeded(p) ELSE Continue(p, "tidy")
    /\ UNCHANGED <<world, faults, generations, quarantine>>

\* quarantineReplacedGeneration: the storage that a repair replaced leaves generations/.  The
\* recovery evidence is read from the accepted storage, which may be damaged by now.
quarantineReplacedGeneration(p) ==
    /\ proc[p].pc = "tidy"
    /\ LET recovers == pointer.storage.recovers
           replaced == <<recovers[1], pointer.storage>>
           due == recovers # None /\ recovers[1] \in DOMAIN generations /\ replaced \notin quarantine
       IN \/ /\ recovers = None \/ pointer.storage \in DOMAIN generations
             /\ quarantine' = IF due THEN quarantine \cup {replaced} ELSE quarantine
             /\ generations' = IF due THEN Restrict(generations, DOMAIN generations \ {recovers[1]})
                                ELSE generations
             /\ Succeeded(p)
          \/ /\ recovers # None /\ ~Whole(pointer.storage)
             /\ Failed(p)
             /\ UNCHANGED <<generations, quarantine>>
    /\ UNCHANGED <<world, faults, pointer>>

\* An error of the RPC endpoint or of the file system: the cycle fails.
CycleError(p) ==
    /\ proc[p].pc \in {"index", "publish", "rename", "point", "tidy"} /\ faults < MaxFaults
    /\ faults' = faults + 1
    /\ Failed(p)
    /\ UNCHANGED <<world, disk>>

\* The process dies; its flock goes with it.
Crash(p) ==
    /\ proc[p].pc # "down" /\ faults < MaxFaults
    /\ faults' = faults + 1
    /\ proc' = [proc EXCEPT ![p] = Down]
    /\ lock' = IF lock = p THEN None ELSE lock
    /\ UNCHANGED <<world, disk>>

\* The service manager starts it again.
Restart(p) ==
    /\ proc[p].pc = "down"
    /\ proc' = [proc EXCEPT ![p] = Idle(0)]
    /\ UNCHANGED <<world, faults, lock, disk>>
-----------------------------------------------------------------------------
\* The outside: the chain grows or is reorganised below the finalized height, and files of a
\* generation are damaged or removed.
Mine == head < MaxHead /\ head' = head + 1 /\ UNCHANGED <<chain, reorgs, hit, faults, lock, proc, disk>>
DeepReorg ==
    /\ reorgs < MaxReorgs /\ reorgs' = reorgs + 1
    /\ \E h \in Heights, c \in Contents : chain' = [k \in Heights |-> IF k >= h THEN c ELSE chain[k]]
    /\ UNCHANGED <<head, hit, faults, lock, proc, disk>>
Damage ==
    /\ Cardinality(hit) < MaxDamage
    /\ \E s \in DOMAIN generations :
         /\ hit' = hit \cup {s}
         /\ \/ generations' = [generations EXCEPT ![s].whole = FALSE]
            \/ generations' = Restrict(generations, DOMAIN generations \ {s})
    /\ UNCHANGED <<head, chain, reorgs, faults, lock, proc, quarantine, pointer>>
-----------------------------------------------------------------------------
Init ==
    /\ head = 1 /\ chain \in {[k \in Heights |-> c] : c \in Contents}
    /\ reorgs = 0 /\ faults = 0 /\ hit = {}
    /\ lock = None /\ proc = [p \in Procs |-> Idle(0)]
    /\ generations = << >> /\ quarantine = {} /\ pointer = None

Cycle(p) ==
    \/ acquireIndexerSingletonLock(p) \/ RunIndexer(p) \/ Decide(p) \/ RenameGeneration(p)
    \/ PublishPointer(p) \/ quarantineReplacedGeneration(p) \/ Restart(p)
Fault(p) == RunIndexerAstray(p) \/ CycleError(p) \/ Crash(p)

Next == Mine \/ DeepReorg \/ Damage \/ \E p \in Procs : Cycle(p) \/ Fault(p)

Spec == Init /\ [][Next]_vars

\* The service manager restarts what exits, and a process keeps its cycle going.
FairSpec == Spec /\ \A p \in Procs : WF_vars(Cycle(p))
-----------------------------------------------------------------------------
TypeOK ==
    /\ head \in Heights /\ chain \in [Heights -> Contents]
    /\ lock \in Procs \cup {None}
    /\ \A p \in Procs : /\ proc[p].failures \in 0 .. maxConsecutiveFailures - 1
                        /\ proc[p].pc \in {"index", "publish", "rename", "point", "tidy"} => lock = p

\* current.json names a whole generation, unless something other than the service damaged that
\* very directory: no order of renames, crashes and retries points it at a missing one.
PointerBacked ==
    pointer # None => Whole(pointer.storage) \/ pointer.storage \in hit

\* The accepted generation only changes to one of a greater height whose predecessor it is,
\* although processes overlap, RPC endpoints lag and crashed cycles are repeated; a repair
\* changes the storage alone.
GenerationsAdvance ==
    [][pointer # None /\ pointer' # pointer =>
         \/ pointer'.id = pointer.id /\ Damaged
         \/ pointer'.id.height > pointer.id.height /\ pointer'.prev = pointer.id]_vars

\* A damaged accepted generation is repaired, unless the finalized height moves on first: then
\* no candidate is the accepted one again, and every cycle fails.
RepairedInTime == Damaged ~> (~Damaged \/ head > pointer.id.height)
=============================================================================
