-------------------------- MODULE DeploymentCeremony --------------------------
(***************************************************************************)
(* The multi-board ceremony (contracts/scripts/deploy-base-sepolia.js with *)
(* its helpers): the deploy command reserves the manifest destination,     *)
(* deploys the first phase, requires the prerequisite governance           *)
(* operations to be executed at a finalized block, deploys the rest,       *)
(* publishes a pending manifest and archives the reservation; the continue *)
(* command marks the manifest complete once every operation is executed.   *)
(* The governance signers work on their own, days apart.  What happens to  *)
(* the deployments inside a phase is SignedDeployment's.                   *)
(***************************************************************************)
EXTENDS Integers, FiniteSets

CONSTANTS Deployers,     \* runs of the deploy command
          Pre,           \* operations required before the challenge managers
          Post,          \* the remaining setup operations
          NoFallback,    \* override operations, which have no fallback
          Cancellable,   \* operations the guardian may cancel
          CrashAt,       \* where a deploy run may die
          ContinueEarly, \* is the continue command run during a deploy?
          MayExpire,     \* may the ceremony's inputs go out of date?
          ObjectiveChecks, \* the checks of a board's objective that a snapshot lists
          MaxManifests, MaxCrashes, MaxFailures, None

ASSUME CeremonyAssumption == MaxManifests \in Nat /\ None \notin Nat

VARIABLES reservation,   \* does the private reservation file exist?
          manifest,      \* None or [id, status]; id stands for the exact bytes
          archive,       \* None or the id of the manifest it was written for
          deployed,      \* 0, 1 (pre-challenge phase) or 2 (everything)
          ops, finalOps, \* timelock states at the head and at the finalized block
          preJournal, finJournal, \* the two governance-operation journals
          packet,        \* the manifest id that the role acceptances name
          inputsValid, dep, con, ceremonies, crashes, failures

fileVars == <<reservation, manifest, archive, preJournal, finJournal>>
chainVars == <<deployed, ops, finalOps>>
outside == <<packet, inputsValid>>
counters == <<ceremonies, crashes, failures>>
vars == <<fileVars, chainVars, outside, dep, con, counters>>

Ops == Pre \cup Post
OpStates == {"none", "pending", "executed", "cancelled"}
fallbacks(o) == IF o \in NoFallback THEN {"primary"} ELSE {"primary", "fallback"}
idle == [pc |-> "idle", seen |-> None, left |-> {}, bad |-> FALSE, id |-> 0]
fresh == [o \in Ops |-> [c \in fallbacks(o) |-> "none"]]
(* A governance journal is reserved with the operations of its plan.         *)
reserveGovernanceOperationJournal(plan) == [o \in plan |-> None]

Init ==
  /\ reservation = FALSE /\ manifest = None /\ archive = None
  /\ deployed = 0 /\ ops = fresh /\ finalOps = fresh
  /\ preJournal = reserveGovernanceOperationJournal(Pre)
  /\ finJournal = reserveGovernanceOperationJournal(Ops)
  /\ packet = None /\ inputsValid = TRUE
  /\ dep = [d \in Deployers |-> idle] /\ con = idle
  /\ ceremonies = 0 /\ crashes = 0 /\ failures = 0

published == IF manifest = None THEN 0 ELSE manifest.id
(* What both providers call final (collectFinalityAnchor, recheckFinalityAnchor). *)
agreedFinalized == finalOps
(* The reservation of this identity, private and well formed, or a refusal.  *)
readManifestOutputReservation == reservation
(* The configuration, the clock, the clean tree, the release and the         *)
(* admission evidence, before anything is signed.                           *)
preflight == inputsValid

-----------------------------------------------------------------------------
(* The deploy command.                                                      *)
stop(d) == dep' = [dep EXCEPT ![d] = idle]
goto(d, pc) == dep' = [dep EXCEPT ![d].pc = pc]
keep(d) == UNCHANGED <<chainVars, outside, con, crashes, failures>>

(* Preflight of the inputs, then ensureManifestReservation: an existing      *)
(* reservation of the same identity is taken up again.                       *)
validateAndReserveCanonicalDeployment(d) ==
  /\ dep[d].pc = "idle" /\ preflight
  /\ \/ readManifestOutputReservation /\ goto(d, "phase1")
     \/ ~reservation /\ manifest = None /\ archive = None /\ goto(d, "reserve")
  /\ UNCHANGED <<fileVars, ceremonies>> /\ keep(d)

(* reserveManifestOutput: exclusive create, then a second vacancy check.     *)
createReservation(d) ==
  /\ dep[d].pc = "reserve"
  /\ IF reservation THEN stop(d) /\ UNCHANGED reservation
     ELSE goto(d, "vacant") /\ reservation' = TRUE
  /\ UNCHANGED <<manifest, archive, preJournal, finJournal, ceremonies>> /\ keep(d)
stillVacant == manifest = None
reserveManifestOutput(d) ==
  /\ dep[d].pc = "vacant"
  /\ IF stillVacant
     THEN goto(d, "phase1") /\ ceremonies' = ceremonies + 1 /\ UNCHANGED reservation
     ELSE stop(d) /\ reservation' = FALSE /\ UNCHANGED ceremonies
  /\ UNCHANGED <<manifest, archive, preJournal, finJournal>> /\ keep(d)

deployTo(d, from, n, to) ==
  /\ dep[d].pc = from
  /\ deployed' = IF deployed < n THEN n ELSE deployed
  /\ goto(d, to)
  /\ UNCHANGED <<fileVars, ops, finalOps, outside, con, counters>>
executeFirstPhase(d) == deployTo(d, "phase1", 1, "anchor")
executeSecondPhase(d) == deployTo(d, "phase2", 2, "publish")

(* beforeStep: the two providers agree on a finalized block, and every      *)
(* candidate of every prerequisite operation is observed at that block.     *)
collectFinalityAnchor(d) ==
  /\ dep[d].pc = "anchor"
  /\ dep' = [dep EXCEPT ![d].pc = "observe", ![d].seen = agreedFinalized, ![d].left = Pre]
  /\ UNCHANGED <<fileVars, ceremonies>> /\ keep(d)
(* observeGovernanceOperation throws in every timelock state but none,      *)
(* pending and executed.                                                    *)
observable(op) == \A c \in DOMAIN op : op[c] # "cancelled"
executions(op) == {c \in DOMAIN op : op[c] = "executed"}
accepted(op) == Cardinality(executions(op)) = 1
evidence(op) == CHOOSE c \in DOMAIN op : op[c] = "executed"
(* recordGovernanceObservation never contradicts what is journaled.          *)
recordable(old, new) == old = None \/ old = new
observePrerequisite(d, o) ==
  LET me == dep[d]  op == me.seen[o] IN
  /\ me.pc = "observe" /\ o \in me.left
  /\ IF ~observable(op) THEN stop(d) /\ UNCHANGED preJournal
     ELSE IF ~accepted(op)
     THEN /\ dep' = [dep EXCEPT ![d].left = @ \ {o}, ![d].bad = TRUE]
          /\ UNCHANGED preJournal
     ELSE /\ recordable(preJournal[o], evidence(op))
          /\ preJournal' = [preJournal EXCEPT ![o] = evidence(op)]
          /\ dep' = [dep EXCEPT ![d].left = @ \ {o}]
  /\ UNCHANGED <<reservation, manifest, archive, finJournal, ceremonies>> /\ keep(d)
(* Everything observed: incomplete, or the anchor is checked again and the  *)
(* wiring read at it.                                                       *)
phaseOpen(me) == ~me.bad
verifyMultiBoardPredeploymentGovernancePhase(d) ==
  LET me == dep[d] IN
  /\ me.pc = "observe" /\ me.left = {}
  /\ dep' = [dep EXCEPT ![d] = IF phaseOpen(me) THEN [idle EXCEPT !.pc = "phase2"] ELSE idle]
  /\ UNCHANGED <<fileVars, ceremonies>> /\ keep(d)

(* The pending manifest carries the time of this run, so its bytes are new; *)
(* it is renamed over whatever is there.                                    *)
nextId(d) == Cardinality({m \in 1..MaxManifests : m <= published}) + 1
writeManifestAtomically(d) ==
  /\ dep[d].pc = "publish"
  /\ nextId(d) <= MaxManifests
  /\ manifest' = [id |-> nextId(d), status |-> "pending"]
  /\ goto(d, "archive")
  /\ UNCHANGED <<reservation, archive, preJournal, finJournal, ceremonies>> /\ keep(d)
(* completeManifestOutputReservation: the archive, then the reservation.    *)
archiveConflicts == archive # None /\ archive # manifest.id
archiveReservation(d) ==
  /\ dep[d].pc = "archive"
  /\ IF \/ manifest.status # "pending" \/ archiveConflicts
        \/ archive = None /\ ~readManifestOutputReservation
     THEN stop(d) /\ UNCHANGED archive
     ELSE archive' = (IF archive = None THEN manifest.id ELSE archive) /\ goto(d, "retire")
  /\ UNCHANGED <<reservation, manifest, preJournal, finJournal, ceremonies>> /\ keep(d)
retireReservation(d) ==
  /\ dep[d].pc = "retire"
  /\ reservation' = FALSE
  /\ dep' = [dep EXCEPT ![d] = [idle EXCEPT !.pc = "done"]]
  /\ UNCHANGED <<manifest, archive, preJournal, finJournal, ceremonies>> /\ keep(d)

-----------------------------------------------------------------------------
(* The continue command.                                                    *)
still == UNCHANGED <<chainVars, outside, dep, counters>>
(* One read of everything at the agreed block: what each operation came to,  *)
(* and checks by name, of which ObjectiveChecks are those of an objective.   *)
collectMultiBoardContinuationSnapshot == agreedFinalized
(* The manifest is read once, the anchor and the whole snapshot after it.   *)
continueCeremony ==
  /\ con.pc = "idle" /\ manifest # None
  /\ ContinueEarly \/ ~reservation
  /\ con' = [idle EXCEPT !.pc = "observe", !.id = manifest.id, !.left = Ops,
                          !.seen = collectMultiBoardContinuationSnapshot]
  /\ UNCHANGED fileVars /\ still
(* Only the executed candidate is observed, so a cancelled primary does no   *)
(* harm here.                                                               *)
recordExecution(o) ==
  LET op == con.seen[o] IN
  /\ con.pc = "observe" /\ o \in con.left
  /\ con' = [con EXCEPT !.left = @ \ {o}]
  /\ finJournal' = IF accepted(op) /\ recordable(finJournal[o], evidence(op))
                   THEN [finJournal EXCEPT ![o] = evidence(op)] ELSE finJournal
  /\ UNCHANGED <<reservation, manifest, archive, preJournal>> /\ still
(* Completion asks for its checks by name; one that the snapshot does not    *)
(* list counts as failed.                                                   *)
requiredCompletionCheckNames ==
  {"registry", "problemId", "packageHash", "programId", "quorumProgramId"}
allReported == requiredCompletionCheckNames \subseteq ObjectiveChecks
assessAtHead(seen) == allReported /\ \A o \in Ops : accepted(ops[o])
assessSetupCompletion(seen) == allReported /\ \A o \in Ops : accepted(seen[o])
completed(id) == [id |-> id, status |-> "complete"]
(* recheckFinalityAnchor, the role packet against the file as it is now, and *)
(* the atomic replacement by the completed form of the manifest first read.  *)
completeSetupManifest ==
  /\ con.pc = "observe" /\ con.left = {}
  /\ IF assessSetupCompletion(con.seen) /\ packet = published
     THEN manifest' = completed(con.id)
     ELSE UNCHANGED manifest
  /\ con' = idle
  /\ UNCHANGED <<reservation, archive, preJournal, finJournal>> /\ still

-----------------------------------------------------------------------------
(* The timelock and its people.                                             *)
gov(o, c, from, to) == /\ deployed >= 1 /\ ops[o][c] = from
                       /\ ops' = [ops EXCEPT ![o][c] = to]
                       /\ UNCHANGED <<fileVars, deployed, finalOps, outside, dep, con, counters>>
SchedulePrimary(o) == gov(o, "primary", "none", "pending")
ScheduleFallback(o) == /\ "fallback" \in fallbacks(o) /\ ops[o]["primary"] = "cancelled"
                       /\ gov(o, "fallback", "none", "pending")
Execute(o, c) == executions(ops[o]) = {} /\ gov(o, c, "pending", "executed")
GuardianCancels(o) == o \in Cancellable /\ gov(o, "primary", "pending", "cancelled")
Finalize == /\ finalOps # ops /\ finalOps' = ops
            /\ UNCHANGED <<fileVars, deployed, ops, outside, dep, con, counters>>
AcceptRoles == /\ manifest # None /\ manifest.status = "pending" /\ packet # manifest.id
               /\ packet' = manifest.id
               /\ UNCHANGED <<fileVars, chainVars, inputsValid, dep, con, counters>>
InputsExpire == /\ MayExpire /\ inputsValid /\ inputsValid' = FALSE
                /\ UNCHANGED <<fileVars, chainVars, packet, dep, con, counters>>

crash(d) == /\ dep[d].pc \in CrashAt /\ crashes < MaxCrashes /\ crashes' = crashes + 1
            /\ stop(d) /\ UNCHANGED <<fileVars, chainVars, outside, con, ceremonies, failures>>
(* The providers disagree, the anchor moved back, an RPC call failed. *)
rpcFails(d) == /\ dep[d].pc \in {"anchor", "observe", "phase1", "phase2"}
               /\ failures < MaxFailures /\ failures' = failures + 1
               /\ stop(d) /\ UNCHANGED <<fileVars, chainVars, outside, con, ceremonies, crashes>>
continueFails == /\ con.pc # "idle" /\ failures < MaxFailures /\ failures' = failures + 1
                 /\ con' = idle
                 /\ UNCHANGED <<fileVars, chainVars, outside, dep, ceremonies, crashes>>

deployStep(d) ==
  \/ createReservation(d) \/ reserveManifestOutput(d) \/ executeFirstPhase(d)
  \/ collectFinalityAnchor(d) \/ (\E o \in Pre : observePrerequisite(d, o))
  \/ verifyMultiBoardPredeploymentGovernancePhase(d)
  \/ executeSecondPhase(d) \/ writeManifestAtomically(d) \/ archiveReservation(d)
  \/ retireReservation(d)
continueStep == (\E o \in Ops : recordExecution(o)) \/ completeSetupManifest
governance == \E o \in Ops : \/ SchedulePrimary(o) \/ ScheduleFallback(o)
                             \/ \E c \in fallbacks(o) : Execute(o, c)
Next == \/ \E d \in Deployers : \/ validateAndReserveCanonicalDeployment(d) \/ deployStep(d)
                                \/ crash(d) \/ rpcFails(d)
        \/ continueCeremony \/ continueStep \/ continueFails
        \/ governance \/ (\E o \in Ops : GuardianCancels(o))
        \/ Finalize \/ AcceptRoles \/ InputsExpire

Spec == Init /\ [][Next]_vars
(* Both commands are run until they succeed, the signers do their part, the  *)
(* chain finalizes and the roles are accepted.                              *)
FairSpec == /\ Spec /\ WF_vars(governance) /\ WF_vars(Finalize) /\ WF_vars(AcceptRoles)
            /\ WF_vars(continueCeremony) /\ WF_vars(continueStep)
            /\ \A d \in Deployers : /\ WF_vars(validateAndReserveCanonicalDeployment(d))
                                    /\ WF_vars(deployStep(d))

-----------------------------------------------------------------------------
(* The files, the timelock and the runs hold values of their kinds. *)
TypeOK ==
  /\ manifest = None \/ manifest.id \in 1..MaxManifests
  /\ archive \in (1..MaxManifests) \cup {None}
  /\ deployed \in 0..2
  /\ \A o \in Ops : \A c \in fallbacks(o) : ops[o][c] \in OpStates
  /\ \A o \in Pre : preJournal[o] \in fallbacks(o) \cup {None}
  /\ \A o \in Ops : finJournal[o] \in fallbacks(o) \cup {None}
  /\ \A d \in Deployers : dep[d].left \subseteq Pre

(* The challenge managers are deployed only after every prerequisite was     *)
(* executed exactly once at a finalized block and journaled                 *)
(* (verifyMultiBoardPredeploymentGovernancePhase).                           *)
ChallengesBehindGovernance ==
  deployed = 2 => \A o \in Pre : accepted(finalOps[o]) /\ preJournal[o] = evidence(finalOps[o])

(* A manifest says complete only when everything it claims is deployed,      *)
(* executed at a finalized block and journaled (completeSetupManifest).      *)
CompletionIsBacked ==
  manifest # None => (manifest.status = "complete" =>
    /\ deployed = 2 /\ packet # None
    /\ \A o \in Ops : accepted(finalOps[o]) /\ finJournal[o] = evidence(finalOps[o]))

(* A deploy command that was slow to reserve never starts a second ceremony  *)
(* after the first has been published (the second vacancy check in           *)
(* reserveManifestOutput).                                                  *)
OneCeremony == ceremonies <= 1

(* Once the reservation is gone for good, the archive names the manifest     *)
(* that is published (completeManifestOutputReservation).                   *)
ArchiveNamesManifest ==
  (archive # None /\ ~reservation /\ \A d \in Deployers : dep[d].pc \in {"idle", "done"}) =>
    manifest # None /\ manifest.id = archive

(* Run until they succeed, the two commands complete the ceremony and retire *)
(* the reservation.                                                         *)
CeremonyCompletes == <>(manifest # None /\ manifest.status = "complete" /\ ~reservation)

(* A continuation that finds every operation of the published manifest       *)
(* executed, with the roles accepted, completes it (completeSetupManifest).  *)
EvidencedCeremonyCompletes ==
  [][(/\ completeSetupManifest /\ packet = published
      /\ \A o \in Ops : accepted(con.seen[o])) => manifest'.status = "complete"]_vars

(* The manifest is written exclusively: a completed one is never replaced by *)
(* a pending one.                                                           *)
CompletedIsKept == [][(manifest # None /\ manifest.status = "complete") =>
                        manifest'.status = "complete"]_vars
=============================================================================
