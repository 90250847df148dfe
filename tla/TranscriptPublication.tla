----------------------- MODULE TranscriptPublication -----------------------
(***************************************************************************)
(* The resolver's publication of one transcript on Arweave                 *)
(* (agent/resolver.mjs publishResolverTranscript, transcript-arweave.mjs,  *)
(* da-arweave.mjs, transcript-store.mjs): search, sign, journal, post,     *)
(* journal the receipt, confirm, retrieve.  Every post of a new            *)
(* transaction costs money; the process may die anywhere.                  *)
(***************************************************************************)
EXTENDS Integers, FiniteSets

CONSTANTS
    MaxUploads, \* transactions the wallet may come to sign
    MayDecoy,   \* may the owner have an older upload with this tag and other bytes
    MaxNetFaults,  \* failed or lost network answers
    MaxCrashes,
    MaxWipes    \* losses of the runtime directory

ASSUME PublicationConstants ==
    {MaxUploads, MaxNetFaults, MaxCrashes, MaxWipes} \subseteq Nat /\ MayDecoy \in BOOLEAN

VARIABLES
    net,     \* where each of the wallet's transactions is
    indexed, \* the ones the tag search returns
    decoy,   \* does the search return the older upload too
    journal, \* the files: the signed upload and the receipt, 0 for none
    proc, mishaps

publicationVars == <<net, indexed, decoy, journal, proc, mishaps>>

Ids == 1 .. MaxUploads
Accepted == {"posted", "mined"}

PublicationInit ==
    /\ net = [i \in Ids |-> "none"] /\ indexed = {}
    /\ decoy \in {FALSE, MayDecoy}
    /\ journal = [prepared |-> 0, receipt |-> 0]
    /\ proc = [pc |-> "off", tx |-> 0]
    /\ mishaps = [net |-> 0, crash |-> 0, wipe |-> 0]

Go(pc, tx) == proc' = [pc |-> pc, tx |-> tx]

\* An error ends the attempt; the resolver's next pass begins another.
Throws ==
    /\ mishaps.net < MaxNetFaults /\ mishaps' = [mishaps EXCEPT !.net = @ + 1]
    /\ Go("off", 0)

----------------------------------------------------------------------------
\* Trusting the network search instead of the signed upload.
publishResolverTranscript_searchAgain ==
    /\ proc.pc = "off"
    /\ IF journal.receipt # 0 THEN Go("confirm", journal.receipt) ELSE Go("search", 0)
    /\ UNCHANGED <<net, indexed, decoy, journal, mishaps>>

\* A journaled receipt is only confirmed again, a journaled upload is posted
\* again, and without either the network is searched first.
publishResolverTranscript ==
    /\ proc.pc = "off"
    /\ IF journal.receipt # 0 THEN Go("confirm", journal.receipt)
       ELSE IF journal.prepared # 0 THEN Go("post", journal.prepared)
       ELSE Go("search", 0)
    /\ UNCHANGED <<net, indexed, decoy, journal, mishaps>>

\* The first candidate whose bytes are the transcript's is taken; with none, one
\* that could not be fetched forbids a new upload.
arweaveTranscriptPublisher ==
    /\ proc.pc = "search"
    /\ \E reachable \in SUBSET (indexed \cup (IF decoy THEN {0} ELSE {})) :
         IF reachable \ {0} # {}
         THEN /\ \E i \in reachable \ {0} : Go("receipt", i)
              /\ UNCHANGED mishaps
         ELSE IF indexed = {} /\ (decoy => 0 \in reachable)
              THEN Go("sign", 0) /\ UNCHANGED mishaps
              ELSE Throws
    /\ UNCHANGED <<net, indexed, decoy, journal>>

createTransaction ==
    /\ proc.pc = "sign"
    /\ \E i \in Ids : /\ net[i] = "none"
                      /\ \A j \in Ids : j < i => net[j] # "none"
                      /\ net' = [net EXCEPT ![i] = "signed"]
                      /\ Go("prepare", i)
    /\ UNCHANGED <<indexed, decoy, journal, mishaps>>

\* A journal file is written once, whole, and never replaced.
writePublicationReceiptExclusive(name) == [journal EXCEPT ![name] = IF @ = 0 THEN proc.tx ELSE @]

\* Journal the signed upload, before it is posted.
onPrepared ==
    /\ proc.pc = "prepare"
    /\ journal' = writePublicationReceiptExclusive("prepared")
    /\ Go("post", proc.tx)
    /\ UNCHANGED <<net, indexed, decoy, mishaps>>

taken == [net EXCEPT ![proc.tx] = IF @ = "mined" THEN @ ELSE "posted"]

\* 200 or 208: accepted now or known already.
postTransaction ==
    /\ proc.pc = "post"
    /\ net' = taken
    /\ Go("receipt", proc.tx)
    /\ UNCHANGED <<indexed, decoy, journal, mishaps>>

\* The post is refused, or it is accepted and the answer is lost.
PostFails ==
    /\ proc.pc = "post"
    /\ net' \in {net, taken}
    /\ Throws
    /\ UNCHANGED <<indexed, decoy, journal>>

\* persistAcceptedReceipt: the receipt is journaled once, before anything is confirmed.
persistAcceptedReceipt ==
    /\ proc.pc = "receipt"
    /\ journal' = writePublicationReceiptExclusive("receipt")
    /\ IF journal.receipt \in {0, proc.tx} THEN Go("confirm", proc.tx) ELSE Go("off", 0)
    /\ UNCHANGED <<net, indexed, decoy, mishaps>>

confirmations(i) == IF net[i] = "mined" THEN 1 ELSE 0

waitForConfirmation ==
    /\ proc.pc = "confirm" /\ confirmations(proc.tx) >= 1
    /\ Go("replicas", proc.tx)
    /\ UNCHANGED <<net, indexed, decoy, journal, mishaps>>

\* The attempts run out before the transaction is mined.
ConfirmationTimesOut ==
    /\ proc.pc = "confirm" /\ confirmations(proc.tx) = 0
    /\ Throws
    /\ UNCHANGED <<net, indexed, decoy, journal>>

\* Two gateway hosts return the exact bytes.
verifyGatewayReplication ==
    /\ proc.pc = "replicas"
    /\ \/ Go("verify", proc.tx) /\ UNCHANGED mishaps
       \/ Throws
    /\ UNCHANGED <<net, indexed, decoy, journal>>

\* Every configured endpoint returns them too.
verifyPublicationReceipt ==
    /\ proc.pc = "verify"
    /\ \/ Go("published", proc.tx) /\ UNCHANGED mishaps
       \/ Throws
    /\ UNCHANGED <<net, indexed, decoy, journal>>

\* assertActionPublication: a process that comes back to the action confirms and
\* retrieves again before it uses it.
assertActionPublication ==
    /\ proc.pc = "published" /\ mishaps.crash < MaxCrashes
    /\ mishaps' = [mishaps EXCEPT !.crash = @ + 1]
    /\ Go("confirm", journal.receipt)
    /\ UNCHANGED <<net, indexed, decoy, journal>>

----------------------------------------------------------------------------
MineUpload ==
    /\ \E i \in Ids : net[i] = "posted" /\ net' = [net EXCEPT ![i] = "mined"]
    /\ UNCHANGED <<indexed, decoy, journal, proc, mishaps>>

Index ==
    /\ \E i \in Ids \ indexed : net[i] \in Accepted /\ indexed' = indexed \cup {i}
    /\ UNCHANGED <<net, decoy, journal, proc, mishaps>>

PublisherCrash ==
    /\ proc.pc \notin {"off", "published"} /\ mishaps.crash < MaxCrashes
    /\ mishaps' = [mishaps EXCEPT !.crash = @ + 1]
    /\ Go("off", 0)
    /\ UNCHANGED <<net, indexed, decoy, journal>>

\* The runtime directory is lost, once what was accepted can be searched for.
Wipe ==
    /\ proc.pc \in {"off", "published"} /\ mishaps.wipe < MaxWipes
    /\ \A i \in Ids : net[i] \in Accepted => i \in indexed
    /\ mishaps' = [mishaps EXCEPT !.wipe = @ + 1]
    /\ journal' = [prepared |-> 0, receipt |-> 0]
    /\ Go("off", 0)
    /\ UNCHANGED <<net, indexed, decoy>>

Publisher ==
    \/ publishResolverTranscript \/ arweaveTranscriptPublisher \/ createTransaction \/ onPrepared
    \/ postTransaction \/ PostFails \/ persistAcceptedReceipt \/ waitForConfirmation
    \/ ConfirmationTimesOut \/ verifyGatewayReplication
    \/ verifyPublicationReceipt \/ assertActionPublication

Done == proc.pc = "published" /\ UNCHANGED publicationVars

PublicationNext == Publisher \/ MineUpload \/ Index \/ PublisherCrash \/ Wipe \/ Done

PublicationSpec == PublicationInit /\ [][PublicationNext]_publicationVars

\* The resolver keeps running and the network mines what it accepted.
FairPublicationSpec ==
    PublicationSpec /\ WF_publicationVars(Publisher) /\ WF_publicationVars(MineUpload)

----------------------------------------------------------------------------
PublicationTypeOK ==
    /\ proc.pc \in {"off", "search", "sign", "prepare", "post", "receipt", "confirm", "replicas", "verify", "published"}
    /\ proc.tx \in 0 .. MaxUploads /\ indexed \subseteq {i \in Ids : net[i] \in Accepted}
    /\ journal.prepared \in 0 .. MaxUploads /\ journal.receipt \in 0 .. MaxUploads
    /\ journal.receipt # 0 => net[journal.receipt] \in Accepted

\* agent/README.md:470-473: whatever is lost or dies, the wallet never pays for a
\* second upload of the same transcript.
PaidOnce == Cardinality({i \in Ids : net[i] \in Accepted}) <= 1

\* A transcript counts as published only under the transaction its journal
\* names, once that one is on chain: a receipt written before the confirmation
\* is not taken for one (resolver.mjs:1232-1253).
PublishedIsConfirmed == proc.pc = "published" => proc.tx = journal.receipt /\ net[proc.tx] = "mined"

\* With a network that mines what it accepts, the publication is completed.
Publishes == <>(proc.pc = "published")

=============================================================================
