----------------------------- MODULE MCResolver ------------------------------
(****************************************************************************)
(* The resolver's parts for TLC: posting decisions (ResolverAgent, in two   *)
(* settings), the signers' reruns (ResolverRerun) and the publication of a  *)
(* transcript (TranscriptPublication). A behaviour runs one part, chosen in *)
(* the initial state; the parts share no state, so the others stay where    *)
(* they start.                                                              *)
(****************************************************************************)
EXTENDS TranscriptPublication, ResolverAgent, TLC

CONSTANTS Parts, c1, c2, s1, s2, s3, p1, p2

VARIABLES part,  \* the part this behaviour runs
    \* ResolverRerun
    now, chal, intent, tomb, issued, requests, expiry, prep, bound, authorized, signed, authz,
    artifact, sgn, rerunJournal, rerunSlot, installed, disp, unit, job, results, rerunFaults

\* Transcripts: what they ask for, what the report says, how claim and score relate.
evidence(action, report, relation) ==
    [action |-> action, report |-> report, relation |-> relation, wrong |-> "none"]
ExactScore == evidence("none", "accepted", "exact")
Underclaimed == evidence("score_underclaimed", "accepted", "claimed_better_than_verified")
Misbound == [Underclaimed EXCEPT !.wrong = "identity"]
Quarantined == evidence("quarantine", "none", "none")

CONSTANT RerunOverlaps  \* may a signer's two rerun commands overlap?

\* Two boards share a stake of one bond: the constants of the cfg.
oneEvidence == {Underclaimed}
truth == [c \in Challenges |-> Underclaimed]

\* The challenge c1 alone, any transcript.
Signing == INSTANCE ResolverAgent WITH
    Evidence <- {Underclaimed, ExactScore, Misbound, Quarantined}, Threshold <- 2, Overlap <- 1,
    Faults <- {"crash", "rotate", "hold", "reorg", "deep", "drop", "slash", "elsewhere"}

Rerun == INSTANCE ResolverRerun WITH
    Packets <- {p1, p2}, Ttl <- 1, MaxNonces <- 2, MaxTime <- 2, MaxFaults <- 1,
    Overlapping <- RerunOverlaps, Crashing <- {"prepare", "sign", "unit"},
    journal <- rerunJournal, slot <- rerunSlot, faults <- rerunFaults

\* The theorems about decisions assume what holds of these boards.
ASSUME PartsAssumption ==
    /\ AgentAssumption /\ NoneIsNothing /\ OwnDecisionsStay
    /\ Signing!AgentAssumption /\ Rerun!RerunAssumption

rerunVariables == <<now, chal, intent, tomb, issued, requests, expiry, prep, bound,
                    authorized, signed, authz, artifact, sgn, rerunJournal, rerunSlot,
                    installed, disp, unit, job, results, rerunFaults>>
allVars == <<part, publicationVars, vars, rerunVariables>>

MCInit ==
    /\ part \in Parts
    /\ PublicationInit
    /\ part # "publication" => decoy = FALSE
    /\ IF part = "signing" THEN Signing!Init ELSE Init
    /\ Rerun!Init

onlyFirst == ch'[c2] = ch[c2] /\ lock' # c2

MCNext ==
    \/ part = "publication" /\ PublicationNext /\ UNCHANGED <<part, vars, rerunVariables>>
    \/ part = "boards" /\ Next /\ UNCHANGED <<part, rerunVariables, publicationVars>>
    \/ /\ part = "signing" /\ Signing!Next /\ onlyFirst
       /\ UNCHANGED <<part, rerunVariables, publicationVars>>
    \/ part = "rerun" /\ Rerun!Next /\ UNCHANGED <<part, vars, publicationVars>>

MCSpec == MCInit /\ [][MCNext]_allVars

Symmetry == Permutations({s1, s2, s3}) \cup Permutations({p1, p2})

-----------------------------------------------------------------------------
(* An expired rerun attempt is renewed only when it has no receipt, authorization or
   signature, and none appears after its tombstone (issueResolverRerunChallenge). *)
TombstonesClean == Rerun!TombstonesClean

(* A rerun signature rests on an authorization that names its attempt, on the attempt's
   bound receipt and on results the executor wrote, however often commands crashed. *)
SignatureRests == Rerun!SignatureRests
=============================================================================
