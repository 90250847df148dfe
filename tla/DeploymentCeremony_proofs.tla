---------------------- MODULE DeploymentCeremony_proofs ----------------------
(***************************************************************************)
(* The ceremony's gates hold for any operations, deployers, crashes and    *)
(* faults: the challenge managers come after the prerequisites, and a      *)
(* manifest that says complete is backed by the chain.                     *)
(*                                                                         *)
(* The argument: an operation that was executed stays executed and its     *)
(* other candidate never is, so what a run saw at its anchor, however long *)
(* ago, the finalized chain still shows, and what a journal says of it     *)
(* can no longer become false.                                             *)
(***************************************************************************)
EXTENDS DeploymentCeremony, FiniteSetTheorems, TLAPS

Paths == {"primary", "fallback"}
OpRecord == [{"primary"} -> OpStates] \cup [Paths -> OpStates]
Timelock == [Ops -> OpRecord]

IsTimelock(t) ==
    /\ t \in Timelock
    /\ \A o \in Ops : DOMAIN t[o] = fallbacks(o)
ExecutedOnce(t) ==
    \A o \in Ops : \A c, d \in fallbacks(o) : t[o][c] = "executed" /\ t[o][d] = "executed" => c = d
Precedes(old, new) ==
    \A o \in Ops : \A c \in fallbacks(o) : old[o][c] = "executed" => new[o][c] = "executed"

Journals(entry, op) == accepted(op) /\ entry = evidence(op)

Run == [pc : {"idle", "reserve", "vacant", "phase1", "anchor", "observe",
              "phase2", "publish", "archive", "retire", "done"},
        seen : Timelock \cup {None}, left : SUBSET Ops, bad : BOOLEAN, id : Nat]

CeremonyShape ==
    /\ manifest \in {None} \cup [id : Nat, status : {"pending", "complete"}]
    /\ deployed \in 0..2
    /\ preJournal \in [Pre -> Paths \cup {None}] /\ finJournal \in [Ops -> Paths \cup {None}]
    /\ dep \in [Deployers -> Run]
    /\ con \in Run /\ con.pc \in {"idle", "observe"}

(* The timelock runs ahead of the finalized block, and never back. *)
ChainsAgree ==
    /\ IsTimelock(ops) /\ IsTimelock(finalOps)
    /\ ExecutedOnce(ops) /\ ExecutedOnce(finalOps) /\ Precedes(finalOps, ops)

(* What is journaled is what the finalized chain shows. *)
JournalsTrue ==
    /\ \A o \in Pre : preJournal[o] = None \/ Journals(preJournal[o], finalOps[o])
    /\ \A o \in Ops : finJournal[o] = None \/ Journals(finJournal[o], finalOps[o])

(* A deploy run: what it saw, what it journaled of it, and what it may do
   after the gate (verifyMultiBoardPredeploymentGovernancePhase). *)
DeployerKnows(d) ==
    /\ dep[d].pc = "observe" =>
          /\ IsTimelock(dep[d].seen) /\ Precedes(dep[d].seen, finalOps)
          /\ dep[d].left \subseteq Pre
          /\ ~dep[d].bad => \A o \in Pre \ dep[d].left : Journals(preJournal[o], dep[d].seen[o])
    /\ dep[d].pc = "phase2" => \A o \in Pre : Journals(preJournal[o], finalOps[o])
    /\ dep[d].pc = "publish" => deployed = 2

ContinuationKnows ==
    con.pc = "observe" =>
        /\ deployed = 2
        /\ IsTimelock(con.seen) /\ Precedes(con.seen, finalOps)
        /\ \A o \in Ops \ con.left : accepted(con.seen[o]) => finJournal[o] = evidence(con.seen[o])

CeremonyInv ==
    /\ CeremonyShape /\ ChainsAgree /\ JournalsTrue
    /\ \A d \in Deployers : DeployerKnows(d)
    /\ ContinuationKnows
    /\ manifest # None => deployed = 2
    /\ ChallengesBehindGovernance
    /\ CompletionIsBacked

-----------------------------------------------------------------------------
(* An operation that was accepted once is accepted ever after, on the same
   evidence. *)
LEMMA AcceptedStays ==
    ASSUME NEW old, NEW new, IsTimelock(old), IsTimelock(new), ExecutedOnce(new), Precedes(old, new),
           NEW o \in Ops, accepted(old[o])
    PROVE  accepted(new[o]) /\ evidence(new[o]) = evidence(old[o])
<1>1. DOMAIN old[o] = fallbacks(o) /\ DOMAIN new[o] = fallbacks(o)
  BY DEF IsTimelock
<1>2. PICK c : executions(old[o]) = {c}
  <2>1. IsFiniteSet(executions(old[o])) /\ Cardinality(executions(old[o])) = 1
    <3>1. IsFiniteSet(Paths)
      <4>1. IsFiniteSet({"primary"})
        BY FS_Singleton
      <4>2. IsFiniteSet({"primary"} \cup {"fallback"})
        BY <4>1, FS_AddElement
      <4>3. Paths = {"primary"} \cup {"fallback"}
        BY DEF Paths
      <4>4. QED
        BY <4>2, <4>3
    <3>2. executions(old[o]) \in SUBSET Paths
      BY <1>1 DEF executions, fallbacks, Paths
    <3>3. IsFiniteSet(executions(old[o]))
      BY <3>1, <3>2, FS_Subset
    <3>4. QED
      BY <3>3 DEF accepted
  <2>2. QED
    BY <2>1, FS_Singleton
<1>3. executions(new[o]) = {c}
  BY <1>1, <1>2 DEF executions, Precedes, ExecutedOnce
<1>4. accepted(new[o])
  BY <1>3, FS_Singleton DEF accepted
<1>5. evidence(old[o]) = c /\ evidence(new[o]) = c
  <2>1. \A x : x \in DOMAIN old[o] /\ old[o][x] = "executed" <=> x = c
    BY <1>2 DEF executions
  <2>2. \A x : x \in DOMAIN new[o] /\ new[o][x] = "executed" <=> x = c
    BY <1>3 DEF executions
  <2>3. QED
    BY <2>1, <2>2 DEF evidence
<1>6. QED
  BY <1>4, <1>5

(* The evidence is one of the two paths. *)
LEMMA EvidenceIsPath ==
    ASSUME NEW t, IsTimelock(t), NEW o \in Ops, accepted(t[o])
    PROVE  evidence(t[o]) \in Paths
<1>1. executions(t[o]) # {}
  BY FS_EmptySet DEF accepted
<1>2. DOMAIN t[o] \subseteq Paths
  BY DEF IsTimelock, fallbacks, Paths
<1>3. QED
  BY <1>1, <1>2 DEF executions, evidence

LEMMA CeremonyInvInit == Init => CeremonyInv
<1> SUFFICES ASSUME Init PROVE CeremonyInv
  OBVIOUS
<1>1. idle \in Run /\ idle.pc = "idle"
  BY DEF idle, Run
<1>2. /\ fresh \in Timelock
      /\ \A o \in Ops : DOMAIN fresh[o] = fallbacks(o) /\ \A c \in fallbacks(o) : fresh[o][c] = "none"
  BY DEF fresh, Timelock, OpRecord, fallbacks, OpStates, Paths
<1>3. ChainsAgree
  BY <1>2 DEF Init, ChainsAgree, IsTimelock, ExecutedOnce, Precedes
<1>4. CeremonyShape
  BY <1>1 DEF Init, reserveGovernanceOperationJournal, CeremonyShape
<1>5. QED
  BY <1>1, <1>3, <1>4 DEF Init, reserveGovernanceOperationJournal, CeremonyInv, JournalsTrue,
         DeployerKnows, ContinuationKnows, ChallengesBehindGovernance, CompletionIsBacked

-----------------------------------------------------------------------------
(* Steps of a deploy run that touch nothing the gates speak of and leave the
   run where it has nothing to show. *)
LEMMA QuietRun ==
    ASSUME CeremonyInv, NEW d \in Deployers, NEW x \in Run,
           x.pc \notin {"observe", "phase2", "publish"},
           dep' = [dep EXCEPT ![d] = x],
           UNCHANGED <<manifest, preJournal, finJournal, chainVars, packet, con>>
    PROVE  CeremonyInv'
<1>1. CeremonyShape'
  BY DEF CeremonyInv, CeremonyShape, chainVars
<1>2. ChainsAgree' /\ JournalsTrue' /\ ContinuationKnows'
  BY DEF CeremonyInv, ChainsAgree, JournalsTrue, ContinuationKnows, chainVars
<1>3. \A e \in Deployers : DeployerKnows(e)'
  BY DEF CeremonyInv, CeremonyShape, DeployerKnows, chainVars
<1>4. (manifest # None => deployed = 2)' /\ ChallengesBehindGovernance' /\ CompletionIsBacked'
  BY DEF CeremonyInv, ChallengesBehindGovernance, CompletionIsBacked, chainVars
<1>5. QED
  BY <1>1, <1>2, <1>3, <1>4 DEF CeremonyInv

LEMMA QuietRunSteps ==
    ASSUME CeremonyInv, NEW d \in Deployers,
           \/ validateAndReserveCanonicalDeployment(d) \/ createReservation(d)
           \/ reserveManifestOutput(d) \/ archiveReservation(d) \/ retireReservation(d)
           \/ crash(d) \/ rpcFails(d)
    PROVE  CeremonyInv'
<1> DEFINE at(pc) == [dep[d] EXCEPT !.pc = pc]
<1>1. dep \in [Deployers -> Run] /\ dep[d] \in Run
  BY DEF CeremonyInv, CeremonyShape
<1>2. idle \in Run /\ idle.pc = "idle"
  BY DEF idle, Run
<1>3. [idle EXCEPT !.pc = "done"] \in Run /\ [idle EXCEPT !.pc = "done"].pc = "done"
  BY <1>2 DEF Run
<1>4. \A pc \in {"reserve", "vacant", "phase1", "retire"} : at(pc) \in Run /\ at(pc).pc = pc
  BY <1>1 DEF Run
<1> HIDE DEF at
<1>5. UNCHANGED <<manifest, preJournal, finJournal, chainVars, packet, con>>
  BY DEF validateAndReserveCanonicalDeployment, createReservation, reserveManifestOutput,
         archiveReservation, retireReservation, crash, rpcFails, keep, fileVars, outside
<1>6. \/ dep' = [dep EXCEPT ![d] = idle] \/ dep' = [dep EXCEPT ![d] = [idle EXCEPT !.pc = "done"]]
      \/ \E pc \in {"reserve", "vacant", "phase1", "retire"} : dep' = [dep EXCEPT ![d] = at(pc)]
  BY <1>1 DEF at, validateAndReserveCanonicalDeployment, createReservation, reserveManifestOutput,
         archiveReservation, retireReservation, crash, rpcFails, stop, goto
<1>7. QED
  BY <1>2, <1>3, <1>4, <1>5, <1>6, QuietRun

(* The two phases.  The second is reached only through the gate. *)
LEMMA PhaseSteps ==
    ASSUME CeremonyInv, NEW d \in Deployers, executeFirstPhase(d) \/ executeSecondPhase(d)
    PROVE  CeremonyInv'
<1>1. dep \in [Deployers -> Run] /\ deployed \in 0..2
  BY DEF CeremonyInv, CeremonyShape
<1>2. PICK n \in {1, 2}, to \in {"anchor", "publish"} :
         /\ dep' = [dep EXCEPT ![d].pc = to]
         /\ deployed' = IF deployed < n THEN n ELSE deployed
         /\ n = 1 <=> to = "anchor"
         /\ n = 2 => dep[d].pc = "phase2"
         /\ UNCHANGED <<manifest, preJournal, finJournal, ops, finalOps, packet, con>>
  BY DEF executeFirstPhase, executeSecondPhase, deployTo, goto, fileVars, outside
<1>3. /\ deployed' \in 0..2 /\ (deployed = 2 => deployed' = 2) /\ (to = "publish" => deployed' = 2)
      /\ (deployed' = 2 => deployed = 2 \/ dep[d].pc = "phase2")
  BY <1>1, <1>2
<1>4. CeremonyShape'
  BY <1>1, <1>2, <1>3 DEF CeremonyInv, CeremonyShape, Run
<1>5. ChainsAgree' /\ JournalsTrue' /\ ContinuationKnows'
  BY <1>2, <1>3 DEF CeremonyInv, ChainsAgree, JournalsTrue, ContinuationKnows
<1>6. \A e \in Deployers : DeployerKnows(e)'
  BY <1>1, <1>2, <1>3 DEF CeremonyInv, DeployerKnows, Run
<1>7. ChallengesBehindGovernance'
  BY <1>2, <1>3 DEF CeremonyInv, ChallengesBehindGovernance, DeployerKnows, Journals
<1>8. (manifest # None => deployed = 2)' /\ CompletionIsBacked'
  BY <1>2, <1>3 DEF CeremonyInv, CompletionIsBacked
<1>9. QED
  BY <1>4, <1>5, <1>6, <1>7, <1>8 DEF CeremonyInv

LEMMA AnchorStep ==
    ASSUME CeremonyInv, NEW d \in Deployers, collectFinalityAnchor(d)
    PROVE  CeremonyInv'
<1>1. dep \in [Deployers -> Run] /\ IsTimelock(finalOps) /\ finalOps \in Timelock /\ Pre \subseteq Ops
  BY DEF CeremonyInv, CeremonyShape, ChainsAgree, IsTimelock, Ops
<1>2. /\ dep' = [dep EXCEPT ![d].pc = "observe", ![d].seen = finalOps, ![d].left = Pre]
      /\ UNCHANGED <<manifest, preJournal, finJournal, ops, finalOps, deployed, packet, con>>
  BY DEF collectFinalityAnchor, agreedFinalized, keep, fileVars, chainVars, outside
<1>3. CeremonyShape'
  BY <1>1, <1>2 DEF CeremonyInv, CeremonyShape, Run
<1>4. ChainsAgree' /\ JournalsTrue' /\ ContinuationKnows'
  BY <1>2 DEF CeremonyInv, ChainsAgree, JournalsTrue, ContinuationKnows
<1>5. DeployerKnows(d)'
  BY <1>1, <1>2 DEF DeployerKnows, Run, Precedes
<1>6. \A e \in Deployers \ {d} : DeployerKnows(e)'
  BY <1>1, <1>2 DEF CeremonyInv, DeployerKnows
<1>7. (manifest # None => deployed = 2)' /\ ChallengesBehindGovernance' /\ CompletionIsBacked'
  BY <1>2 DEF CeremonyInv, ChallengesBehindGovernance, CompletionIsBacked
<1>8. QED
  BY <1>3, <1>4, <1>5, <1>6, <1>7 DEF CeremonyInv

(* What a run observed at its anchor, as the finalized chain shows it now. *)
LEMMA SeenIsFinal ==
    ASSUME CeremonyInv, NEW t, IsTimelock(t), Precedes(t, finalOps), NEW o \in Ops, accepted(t[o])
    PROVE  /\ Journals(evidence(t[o]), finalOps[o])
           /\ evidence(t[o]) \in Paths
  BY AcceptedStays, EvidenceIsPath DEF CeremonyInv, ChainsAgree, Journals

(* Observing a prerequisite: a run that journals writes what every other
   run that saw the operation executed has written. *)
LEMMA ObserveStep ==
    ASSUME CeremonyInv, NEW d \in Deployers, NEW o \in Pre, observePrerequisite(d, o)
    PROVE  CeremonyInv'
<1> DEFINE op == dep[d].seen[o]
<1>1. /\ dep \in [Deployers -> Run] /\ o \in Ops
      /\ preJournal \in [Pre -> Paths \cup {None}]
  BY DEF CeremonyInv, CeremonyShape, Ops
<1>2. /\ dep[d].pc = "observe" /\ o \in dep[d].left
      /\ UNCHANGED <<manifest, finJournal, ops, finalOps, deployed, packet, con>>
  BY DEF observePrerequisite, keep, chainVars, outside
<1>3. IsTimelock(dep[d].seen) /\ Precedes(dep[d].seen, finalOps) /\ dep[d].left \subseteq Pre
  BY <1>2 DEF CeremonyInv, DeployerKnows
<1>4. CASE dep' = [dep EXCEPT ![d] = idle] /\ UNCHANGED preJournal
  <2>1. idle \in Run /\ idle.pc = "idle"
    BY DEF idle, Run
  <2>2. QED
    BY <1>2, <1>4, <2>1, QuietRun DEF chainVars
<1>5. CASE /\ dep' = [dep EXCEPT ![d].left = @ \ {o}, ![d].bad = TRUE]
           /\ UNCHANGED preJournal
  <2>1. CeremonyShape'
    BY <1>1, <1>2, <1>5 DEF CeremonyInv, CeremonyShape, Run
  <2>2. ChainsAgree' /\ JournalsTrue' /\ ContinuationKnows'
    BY <1>2, <1>5 DEF CeremonyInv, ChainsAgree, JournalsTrue, ContinuationKnows
  <2>3. DeployerKnows(d)'
    BY <1>1, <1>2, <1>3, <1>5 DEF DeployerKnows, Run
  <2>4. \A e \in Deployers \ {d} : DeployerKnows(e)'
    BY <1>1, <1>2, <1>5 DEF CeremonyInv, DeployerKnows
  <2>5. (manifest # None => deployed = 2)' /\ ChallengesBehindGovernance' /\ CompletionIsBacked'
    BY <1>2, <1>5 DEF CeremonyInv, ChallengesBehindGovernance, CompletionIsBacked
  <2>6. QED
    BY <2>1, <2>2, <2>3, <2>4, <2>5 DEF CeremonyInv
<1>6. CASE /\ accepted(op)
           /\ preJournal' = [preJournal EXCEPT ![o] = evidence(op)]
           /\ dep' = [dep EXCEPT ![d].left = @ \ {o}]
  <2>1. Journals(evidence(op), finalOps[o]) /\ evidence(op) \in Paths
    BY <1>1, <1>3, <1>6, SeenIsFinal
  <2>2. CeremonyShape'
    BY <1>1, <1>2, <1>6, <2>1 DEF CeremonyInv, CeremonyShape, Run
  <2>3. ChainsAgree' /\ JournalsTrue' /\ ContinuationKnows'
    BY <1>1, <1>2, <1>6, <2>1 DEF CeremonyInv, ChainsAgree, JournalsTrue, ContinuationKnows
  <2>4. DeployerKnows(d)'
    BY <1>1, <1>2, <1>3, <1>6 DEF CeremonyInv, DeployerKnows, Run, Journals
  <2>5. ASSUME NEW e \in Deployers \ {d} PROVE DeployerKnows(e)'
    <3>1. dep'[e] = dep[e] /\ DeployerKnows(e)
      BY <1>1, <1>6 DEF CeremonyInv
    <3>2. ASSUME dep[e].pc = "observe", accepted(dep[e].seen[o])
          PROVE  Journals(evidence(op), dep[e].seen[o])
      <4>1. Journals(evidence(dep[e].seen[o]), finalOps[o])
        BY <1>1, <3>1, <3>2, SeenIsFinal DEF DeployerKnows
      <4>2. QED
        BY <2>1, <3>2, <4>1 DEF Journals
    <3>3. QED
      BY <1>1, <1>2, <1>6, <2>1, <3>1, <3>2 DEF DeployerKnows, Journals
  <2>6. ChallengesBehindGovernance'
    BY <1>1, <1>2, <1>6, <2>1 DEF CeremonyInv, ChallengesBehindGovernance, Journals
  <2>7. (manifest # None => deployed = 2)' /\ CompletionIsBacked'
    BY <1>2 DEF CeremonyInv, CompletionIsBacked
  <2>8. QED
    BY <2>2, <2>3, <2>4, <2>5, <2>6, <2>7 DEF CeremonyInv
<1>7. QED
  BY <1>4, <1>5, <1>6 DEF observePrerequisite, stop

(* The gate: every prerequisite was seen executed and was journaled. *)
LEMMA GateStep ==
    ASSUME CeremonyInv, NEW d \in Deployers, verifyMultiBoardPredeploymentGovernancePhase(d)
    PROVE  CeremonyInv'
<1>1. dep \in [Deployers -> Run]
  BY DEF CeremonyInv, CeremonyShape
<1>2. /\ dep[d].pc = "observe" /\ dep[d].left = {}
      /\ UNCHANGED <<manifest, preJournal, finJournal, ops, finalOps, deployed, packet, con>>
  BY DEF verifyMultiBoardPredeploymentGovernancePhase, keep, fileVars, chainVars, outside
<1>3. idle \in Run /\ idle.pc = "idle"
  BY DEF idle, Run
<1>4. CASE dep[d].bad
  BY <1>2, <1>3, <1>4, QuietRun DEF verifyMultiBoardPredeploymentGovernancePhase, phaseOpen, chainVars
<1>5. CASE ~dep[d].bad
  <2>1. dep' = [dep EXCEPT ![d] = [idle EXCEPT !.pc = "phase2"]]
    BY <1>5 DEF verifyMultiBoardPredeploymentGovernancePhase, phaseOpen
  <2>2. [idle EXCEPT !.pc = "phase2"] \in Run /\ [idle EXCEPT !.pc = "phase2"].pc = "phase2"
    BY <1>3 DEF Run
  <2>3. CeremonyShape'
    BY <1>1, <1>2, <2>1, <2>2 DEF CeremonyInv, CeremonyShape
  <2>4. ChainsAgree' /\ JournalsTrue' /\ ContinuationKnows'
    BY <1>2 DEF CeremonyInv, ChainsAgree, JournalsTrue, ContinuationKnows
  <2>5. ASSUME NEW o \in Pre PROVE Journals(preJournal[o], finalOps[o])
    <3>1. Journals(preJournal[o], dep[d].seen[o])
      BY <1>2, <1>5 DEF CeremonyInv, DeployerKnows
    <3>2. QED
      BY <1>2, <3>1, SeenIsFinal DEF CeremonyInv, DeployerKnows, Journals, Ops
  <2>6. DeployerKnows(d)'
    BY <1>1, <1>2, <2>1, <2>2, <2>5 DEF DeployerKnows
  <2>7. \A e \in Deployers \ {d} : DeployerKnows(e)'
    BY <1>1, <1>2, <2>1 DEF CeremonyInv, DeployerKnows
  <2>8. (manifest # None => deployed = 2)' /\ ChallengesBehindGovernance' /\ CompletionIsBacked'
    BY <1>2 DEF CeremonyInv, ChallengesBehindGovernance, CompletionIsBacked
  <2>9. QED
    BY <2>3, <2>4, <2>6, <2>7, <2>8 DEF CeremonyInv
<1>6. QED
  BY <1>4, <1>5

(* The pending manifest, published by a run that has everything deployed. *)
LEMMA PublishStep ==
    ASSUME CeremonyInv, NEW d \in Deployers, writeManifestAtomically(d)
    PROVE  CeremonyInv'
<1>1. dep \in [Deployers -> Run] /\ deployed = 2
  BY DEF CeremonyInv, CeremonyShape, DeployerKnows, writeManifestAtomically
<1>2. /\ manifest' = [id |-> nextId(d), status |-> "pending"]
      /\ dep' = [dep EXCEPT ![d].pc = "archive"]
      /\ UNCHANGED <<preJournal, finJournal, ops, finalOps, deployed, packet, con>>
  BY DEF writeManifestAtomically, goto, keep, chainVars, outside
<1>3. nextId(d) \in Nat
  <2>1. IsFiniteSet(1..MaxManifests)
    BY CeremonyAssumption, FS_Interval
  <2>2. {m \in 1..MaxManifests : m <= published} \in SUBSET (1..MaxManifests)
    OBVIOUS
  <2>3. IsFiniteSet({m \in 1..MaxManifests : m <= published})
    BY <2>1, <2>2, FS_Subset
  <2>4. Cardinality({m \in 1..MaxManifests : m <= published}) \in Nat
    BY <2>3, FS_CardinalityType
  <2>5. QED
    BY <2>4 DEF nextId
<1>4. CeremonyShape'
  BY <1>1, <1>2, <1>3 DEF CeremonyInv, CeremonyShape, Run
<1>5. ChainsAgree' /\ JournalsTrue' /\ ContinuationKnows'
  BY <1>2 DEF CeremonyInv, ChainsAgree, JournalsTrue, ContinuationKnows
<1>6. \A e \in Deployers : DeployerKnows(e)'
  BY <1>1, <1>2 DEF CeremonyInv, DeployerKnows
<1>7. (manifest # None => deployed = 2)' /\ ChallengesBehindGovernance' /\ CompletionIsBacked'
  BY <1>1, <1>2 DEF CeremonyInv, ChallengesBehindGovernance, CompletionIsBacked
<1>8. QED
  BY <1>4, <1>5, <1>6, <1>7 DEF CeremonyInv

-----------------------------------------------------------------------------
LEMMA ContinueStarts ==
    ASSUME CeremonyInv, continueCeremony
    PROVE  CeremonyInv'
<1>1. con' = [idle EXCEPT !.pc = "observe", !.id = manifest.id, !.left = Ops, !.seen = finalOps]
  BY DEF continueCeremony, collectMultiBoardContinuationSnapshot, agreedFinalized
<1>2. manifest # None /\ manifest.id \in Nat /\ deployed = 2 /\ finalOps \in Timelock
      /\ IsTimelock(finalOps)
  BY DEF continueCeremony, CeremonyInv, CeremonyShape, ChainsAgree, IsTimelock
<1>3. con' \in Run /\ con'.pc = "observe" /\ con'.seen = finalOps /\ con'.left = Ops
  BY <1>1, <1>2 DEF Run, idle
<1>4. UNCHANGED <<manifest, preJournal, finJournal, ops, finalOps, deployed, packet, dep>>
  BY DEF continueCeremony, still, fileVars, chainVars, outside
<1>5. CeremonyShape'
  BY <1>3, <1>4 DEF CeremonyInv, CeremonyShape
<1>6. ChainsAgree' /\ JournalsTrue' /\ \A e \in Deployers : DeployerKnows(e)'
  BY <1>4 DEF CeremonyInv, ChainsAgree, JournalsTrue, DeployerKnows
<1>7. ContinuationKnows'
  BY <1>2, <1>3, <1>4 DEF ContinuationKnows, Precedes
<1>8. (manifest # None => deployed = 2)' /\ ChallengesBehindGovernance' /\ CompletionIsBacked'
  BY <1>4 DEF CeremonyInv, ChallengesBehindGovernance, CompletionIsBacked
<1>9. QED
  BY <1>5, <1>6, <1>7, <1>8 DEF CeremonyInv

(* The final journal: an entry is either confirmed or made, and always from
   the evidence the finalized chain shows. *)
LEMMA RecordStep ==
    ASSUME CeremonyInv, NEW o \in Ops, recordExecution(o)
    PROVE  CeremonyInv'
<1> DEFINE op == con.seen[o]
<1>1. /\ con \in Run /\ con.pc = "observe" /\ finJournal \in [Ops -> Paths \cup {None}]
      /\ con' = [con EXCEPT !.left = @ \ {o}]
      /\ finJournal' = IF accepted(op) /\ recordable(finJournal[o], evidence(op))
                       THEN [finJournal EXCEPT ![o] = evidence(op)] ELSE finJournal
      /\ UNCHANGED <<manifest, preJournal, ops, finalOps, deployed, packet, dep>>
  BY DEF recordExecution, still, chainVars, outside, CeremonyInv, CeremonyShape
<1>2. deployed = 2 /\ IsTimelock(con.seen) /\ Precedes(con.seen, finalOps)
  BY <1>1 DEF CeremonyInv, ContinuationKnows
<1>3. con' \in Run /\ con'.pc = "observe" /\ con'.seen = con.seen /\ con'.left = con.left \ {o}
  BY <1>1 DEF Run
<1>4. ASSUME accepted(op)
      PROVE  /\ finJournal' = [finJournal EXCEPT ![o] = evidence(op)]
             /\ Journals(evidence(op), finalOps[o]) /\ evidence(op) \in Paths
  <2>1. Journals(evidence(op), finalOps[o]) /\ evidence(op) \in Paths
    BY <1>2, <1>4, SeenIsFinal
  <2>2. finJournal[o] = None \/ finJournal[o] = evidence(op)
    BY <2>1 DEF CeremonyInv, JournalsTrue, Journals
  <2>3. QED
    BY <1>1, <1>4, <2>1, <2>2 DEF recordable
<1>5. CASE accepted(op)
  <2>1. CeremonyShape'
    BY <1>1, <1>3, <1>4, <1>5 DEF CeremonyInv, CeremonyShape
  <2>2. ChainsAgree' /\ JournalsTrue' /\ \A e \in Deployers : DeployerKnows(e)'
    BY <1>1, <1>4, <1>5 DEF CeremonyInv, ChainsAgree, JournalsTrue, DeployerKnows
  <2>3. ContinuationKnows'
    BY <1>1, <1>2, <1>3, <1>4, <1>5 DEF CeremonyInv, ContinuationKnows
  <2>4. (manifest # None => deployed = 2)' /\ ChallengesBehindGovernance'
    BY <1>1 DEF CeremonyInv, ChallengesBehindGovernance
  <2>5. CompletionIsBacked'
    BY <1>1, <1>4, <1>5 DEF CeremonyInv, CompletionIsBacked, Journals
  <2>6. QED
    BY <2>1, <2>2, <2>3, <2>4, <2>5 DEF CeremonyInv
<1>6. CASE ~accepted(op)
  <2>1. finJournal' = finJournal
    BY <1>1, <1>6
  <2>2. CeremonyShape'
    BY <1>1, <1>3, <2>1 DEF CeremonyInv, CeremonyShape
  <2>3. ChainsAgree' /\ JournalsTrue' /\ \A e \in Deployers : DeployerKnows(e)'
    BY <1>1, <2>1 DEF CeremonyInv, ChainsAgree, JournalsTrue, DeployerKnows
  <2>4. ContinuationKnows'
    BY <1>1, <1>2, <1>3, <1>6, <2>1 DEF CeremonyInv, ContinuationKnows
  <2>5. (manifest # None => deployed = 2)' /\ ChallengesBehindGovernance' /\ CompletionIsBacked'
    BY <1>1, <2>1 DEF CeremonyInv, ChallengesBehindGovernance, CompletionIsBacked
  <2>6. QED
    BY <2>2, <2>3, <2>4, <2>5 DEF CeremonyInv
<1>7. QED
  BY <1>5, <1>6

(* Completion, whether the snapshot supports it or not, and a failed run. *)
LEMMA CompleteStep ==
    ASSUME CeremonyInv, completeSetupManifest \/ continueFails
    PROVE  CeremonyInv'
<1>1. /\ con' = idle /\ con \in Run
      /\ UNCHANGED <<preJournal, finJournal, ops, finalOps, deployed, packet, dep>>
  BY DEF completeSetupManifest, continueFails, still, fileVars, chainVars, outside, CeremonyInv, CeremonyShape
<1>2. idle \in Run /\ idle.pc = "idle"
  BY DEF idle, Run
<1>3. ChainsAgree' /\ JournalsTrue' /\ \A e \in Deployers : DeployerKnows(e)'
  BY <1>1 DEF CeremonyInv, ChainsAgree, JournalsTrue, DeployerKnows
<1>4. ContinuationKnows' /\ ChallengesBehindGovernance'
  BY <1>1, <1>2 DEF CeremonyInv, ContinuationKnows, ChallengesBehindGovernance
<1>5. CASE manifest' = manifest
  <2>1. CeremonyShape'
    BY <1>1, <1>2, <1>5 DEF CeremonyInv, CeremonyShape
  <2>2. (manifest # None => deployed = 2)' /\ CompletionIsBacked'
    BY <1>1, <1>5 DEF CeremonyInv, CompletionIsBacked
  <2>3. QED
    BY <1>3, <1>4, <2>1, <2>2 DEF CeremonyInv
<1>6. CASE /\ con.pc = "observe" /\ con.left = {}
           /\ assessSetupCompletion(con.seen) /\ packet = published
           /\ manifest' = [id |-> con.id, status |-> "complete"]
  <2>1. con.id \in Nat
    BY <1>1 DEF Run
  <2>2. CeremonyShape'
    BY <1>1, <1>2, <1>6, <2>1 DEF CeremonyInv, CeremonyShape
  <2>3. deployed = 2
    BY <1>6 DEF CeremonyInv, ContinuationKnows
  <2>4. published \in Nat
    BY DEF published, CeremonyInv, CeremonyShape
  <2>5. packet # None
    BY <1>6, <2>4, CeremonyAssumption
  <2>6. ASSUME NEW o \in Ops PROVE accepted(finalOps[o]) /\ finJournal[o] = evidence(finalOps[o])
    <3>1. accepted(con.seen[o])
      BY <1>6 DEF assessSetupCompletion
    <3>2. finJournal[o] = evidence(con.seen[o]) /\ IsTimelock(con.seen) /\ Precedes(con.seen, finalOps)
      BY <1>6, <3>1 DEF CeremonyInv, ContinuationKnows
    <3>3. QED
      BY <3>1, <3>2, SeenIsFinal DEF Journals
  <2>7. CompletionIsBacked'
    BY <1>1, <2>3, <2>5, <2>6 DEF CompletionIsBacked
  <2>8. QED
    BY <1>1, <1>3, <1>4, <2>2, <2>3, <2>7 DEF CeremonyInv
<1>7. QED
  BY <1>5, <1>6 DEF completeSetupManifest, completed, continueFails, fileVars

-----------------------------------------------------------------------------
(* The governance steps: whatever moves, an executed candidate stays, and
   another of the same operation is never executed. *)
LEMMA GovernanceSteps ==
    ASSUME CeremonyInv, NEW o \in Ops, NEW c \in fallbacks(o),
           NEW from \in {"none", "pending"}, NEW to \in OpStates, gov(o, c, from, to),
           to = "executed" => executions(ops[o]) = {}
    PROVE  CeremonyInv'
<1>1. /\ ops \in Timelock /\ DOMAIN ops[o] = fallbacks(o) /\ ops[o] \in OpRecord
      /\ \A q \in Ops : DOMAIN ops[q] = fallbacks(q)
  BY DEF CeremonyInv, ChainsAgree, IsTimelock, Timelock
<1>2. /\ ops[o][c] = from /\ ops' = [ops EXCEPT ![o][c] = to]
      /\ UNCHANGED <<manifest, preJournal, finJournal, finalOps, deployed, packet, dep, con>>
  BY DEF gov, fileVars, outside
<1>3. /\ ops'[o] = [ops[o] EXCEPT ![c] = to]
      /\ \A q \in Ops \ {o} : ops'[q] = ops[q]
  BY <1>1, <1>2 DEF Timelock
<1>4. ops'[o] \in OpRecord /\ DOMAIN ops'[o] = fallbacks(o)
  BY <1>1, <1>3 DEF OpRecord
<1>5. ops' \in Timelock
  BY <1>1, <1>2, <1>3, <1>4 DEF Timelock
<1>6. IsTimelock(ops)'
  BY <1>1, <1>3, <1>4, <1>5 DEF IsTimelock
<1>7. ExecutedOnce(ops)'
  <2>1. ASSUME NEW q \in Ops, NEW x \in fallbacks(q), NEW y \in fallbacks(q),
               ops'[q][x] = "executed", ops'[q][y] = "executed"
        PROVE  x = y
    <3>1. CASE q # o
      BY <1>3, <2>1, <3>1 DEF CeremonyInv, ChainsAgree, ExecutedOnce
    <3>2. CASE q = o /\ to = "executed"
      <4>1. \A z \in fallbacks(o) : ops[o][z] # "executed"
        BY <1>1, <3>2 DEF executions
      <4>2. QED
        BY <1>1, <1>3, <2>1, <3>2, <4>1
    <3>3. CASE q = o /\ to # "executed"
      <4>1. ops[o][x] = "executed" /\ ops[o][y] = "executed"
        BY <1>1, <1>3, <2>1, <3>3
      <4>2. QED
        BY <2>1, <3>3, <4>1 DEF CeremonyInv, ChainsAgree, ExecutedOnce
    <3>4. QED
      BY <3>1, <3>2, <3>3
  <2>2. QED
    BY <2>1 DEF ExecutedOnce
<1>8. Precedes(finalOps, ops)'
  <2>1. ASSUME NEW q \in Ops, NEW x \in fallbacks(q), finalOps[q][x] = "executed"
        PROVE  ops'[q][x] = "executed"
    <3>1. ops[q][x] = "executed"
      BY <2>1 DEF CeremonyInv, ChainsAgree, Precedes
    <3>2. q = o => x # c
      BY <1>2, <3>1
    <3>3. QED
      BY <1>1, <1>3, <2>1, <3>1, <3>2
  <2>2. QED
    BY <1>2, <2>1 DEF Precedes
<1>9. ChainsAgree'
  BY <1>2, <1>6, <1>7, <1>8 DEF CeremonyInv, ChainsAgree
<1>10. CeremonyShape' /\ JournalsTrue' /\ ContinuationKnows' /\ \A e \in Deployers : DeployerKnows(e)'
  BY <1>2 DEF CeremonyInv, CeremonyShape, JournalsTrue, ContinuationKnows, DeployerKnows
<1>11. (manifest # None => deployed = 2)' /\ ChallengesBehindGovernance' /\ CompletionIsBacked'
  BY <1>2 DEF CeremonyInv, ChallengesBehindGovernance, CompletionIsBacked
<1>12. QED
  BY <1>9, <1>10, <1>11 DEF CeremonyInv

(* Finalization: what was seen, journaled or claimed at an earlier finalized
   block is so at the later one. *)
LEMMA FinalizeStep ==
    ASSUME CeremonyInv, Finalize
    PROVE  CeremonyInv'
<1>1. /\ finalOps' = ops
      /\ UNCHANGED <<manifest, preJournal, finJournal, ops, deployed, packet, dep, con>>
  BY DEF Finalize, fileVars, outside
<1>2. IsTimelock(ops) /\ ExecutedOnce(ops) /\ IsTimelock(finalOps) /\ Precedes(finalOps, ops)
  BY DEF CeremonyInv, ChainsAgree
<1>3. \A o \in Ops : accepted(finalOps[o]) =>
         accepted(ops[o]) /\ evidence(ops[o]) = evidence(finalOps[o])
  BY <1>2, AcceptedStays
<1>4. ASSUME NEW t, IsTimelock(t), Precedes(t, finalOps) PROVE Precedes(t, ops)
  BY <1>2, <1>4 DEF Precedes
<1>5. Pre \subseteq Ops
  BY DEF Ops
<1>6. CeremonyShape'
  BY <1>1 DEF CeremonyInv, CeremonyShape
<1>7. ChainsAgree'
  BY <1>1, <1>2 DEF ChainsAgree, Precedes
<1>8. JournalsTrue'
  BY <1>1, <1>3, <1>5 DEF CeremonyInv, JournalsTrue, Journals
<1>9. ASSUME NEW e \in Deployers PROVE DeployerKnows(e)'
  <2>1. DeployerKnows(e)
    BY DEF CeremonyInv
  <2>2. dep[e].pc = "phase2" => \A o \in Pre : Journals(preJournal[o], ops[o])
    BY <1>3, <1>5, <2>1 DEF DeployerKnows, Journals
  <2>3. QED
    BY <1>1, <1>4, <2>1, <2>2 DEF DeployerKnows
<1>10. ContinuationKnows'
  BY <1>1, <1>4 DEF CeremonyInv, ContinuationKnows
<1>11. ChallengesBehindGovernance'
  BY <1>1, <1>3, <1>5 DEF CeremonyInv, ChallengesBehindGovernance
<1>12. (manifest # None => deployed = 2)' /\ CompletionIsBacked'
  BY <1>1, <1>3 DEF CeremonyInv, CompletionIsBacked
<1>13. QED
  BY <1>6, <1>7, <1>8, <1>9, <1>10, <1>11, <1>12 DEF CeremonyInv

(* Role acceptance and the expiry of the inputs. *)
LEMMA OutsideSteps ==
    ASSUME CeremonyInv, AcceptRoles \/ InputsExpire
    PROVE  CeremonyInv'
<1>1. UNCHANGED <<manifest, preJournal, finJournal, chainVars, dep, con>>
  BY DEF AcceptRoles, InputsExpire, fileVars
<1>2. packet' # None \/ packet' = packet
  BY CeremonyAssumption DEF AcceptRoles, InputsExpire, CeremonyInv, CeremonyShape
<1>3. CeremonyShape' /\ ChainsAgree' /\ JournalsTrue' /\ ContinuationKnows'
  BY <1>1 DEF CeremonyInv, CeremonyShape, ChainsAgree, JournalsTrue, ContinuationKnows, chainVars
<1>4. \A e \in Deployers : DeployerKnows(e)'
  BY <1>1 DEF CeremonyInv, DeployerKnows, chainVars
<1>5. (manifest # None => deployed = 2)' /\ ChallengesBehindGovernance'
  BY <1>1 DEF CeremonyInv, ChallengesBehindGovernance, chainVars
<1>6. CompletionIsBacked'
  BY <1>1, <1>2 DEF CeremonyInv, CompletionIsBacked, chainVars
<1>7. QED
  BY <1>3, <1>4, <1>5, <1>6 DEF CeremonyInv

LEMMA CeremonyStutters ==
    ASSUME CeremonyInv, UNCHANGED vars
    PROVE  CeremonyInv'
<1>1. UNCHANGED <<manifest, preJournal, finJournal, chainVars, packet, dep, con>>
  BY DEF vars, fileVars, outside
<1>2. CeremonyShape' /\ ChainsAgree' /\ JournalsTrue' /\ ContinuationKnows'
  BY <1>1 DEF CeremonyInv, CeremonyShape, ChainsAgree, JournalsTrue, ContinuationKnows, chainVars
<1>3. \A e \in Deployers : DeployerKnows(e)'
  BY <1>1 DEF CeremonyInv, DeployerKnows, chainVars
<1>4. (manifest # None => deployed = 2)' /\ ChallengesBehindGovernance' /\ CompletionIsBacked'
  BY <1>1 DEF CeremonyInv, ChallengesBehindGovernance, CompletionIsBacked, chainVars
<1>5. QED
  BY <1>2, <1>3, <1>4 DEF CeremonyInv

LEMMA CeremonyInvNext == CeremonyInv /\ [Next]_vars => CeremonyInv'
<1> SUFFICES ASSUME CeremonyInv, [Next]_vars PROVE CeremonyInv'
  OBVIOUS
<1>1. ASSUME NEW d \in Deployers, validateAndReserveCanonicalDeployment(d) \/ crash(d) \/ rpcFails(d)
      PROVE  CeremonyInv'
  BY <1>1, QuietRunSteps
<1>2. ASSUME NEW d \in Deployers, deployStep(d) PROVE CeremonyInv'
  BY <1>2, QuietRunSteps, PhaseSteps, AnchorStep, ObserveStep, GateStep, PublishStep DEF deployStep
<1>3. CASE continueCeremony \/ continueStep \/ continueFails
  BY <1>3, ContinueStarts, RecordStep, CompleteStep DEF continueStep
<1>4. ASSUME NEW o \in Ops, SchedulePrimary(o) \/ ScheduleFallback(o) \/ GuardianCancels(o)
      PROVE  CeremonyInv'
  <2>1. "primary" \in fallbacks(o)
    BY DEF fallbacks
  <2>2. \E c \in fallbacks(o) : \/ gov(o, c, "none", "pending") \/ gov(o, c, "pending", "cancelled")
    BY <1>4, <2>1 DEF SchedulePrimary, ScheduleFallback, GuardianCancels
  <2>3. QED
    BY <2>2, GovernanceSteps DEF OpStates
<1>5. ASSUME NEW o \in Ops, NEW c \in fallbacks(o), Execute(o, c) PROVE CeremonyInv'
  BY <1>5, GovernanceSteps DEF Execute, OpStates
<1>6. CASE governance \/ \E o \in Ops : GuardianCancels(o)
  BY <1>4, <1>5, <1>6 DEF governance
<1>7. CASE Finalize \/ AcceptRoles \/ InputsExpire
  BY <1>7, FinalizeStep, OutsideSteps
<1>8. CASE UNCHANGED vars
  BY <1>8, CeremonyStutters
<1>9. QED
  BY <1>1, <1>2, <1>3, <1>6, <1>7, <1>8 DEF Next

-----------------------------------------------------------------------------
(* Every reachable state of the ceremony is one the argument above describes,
   whatever the operations, the deployers and the faults. *)
THEOREM CeremonyInvariant == Spec => []CeremonyInv
<1>1. QED
  BY CeremonyInvInit, CeremonyInvNext, PTL DEF Spec

(* No manifest says complete before everything it claims is deployed and
   finalized on the evidence journaled (completeSetupManifest). *)
THEOREM CompletionAlwaysBacked == Spec => []CompletionIsBacked
<1>1. CeremonyInv => CompletionIsBacked
  BY DEF CeremonyInv
<1>2. QED
  BY <1>1, CeremonyInvariant, PTL

(* The challenge managers are never deployed ahead of the prerequisites
   (verifyMultiBoardPredeploymentGovernancePhase). *)
THEOREM ChallengesAlwaysBehindGovernance == Spec => []ChallengesBehindGovernance
<1>1. CeremonyInv => ChallengesBehindGovernance
  BY DEF CeremonyInv
<1>2. QED
  BY <1>1, CeremonyInvariant, PTL
=============================================================================
