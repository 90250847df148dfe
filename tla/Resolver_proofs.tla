--------------------------- MODULE Resolver_proofs ---------------------------
(***************************************************************************)
(* Theorems about the publication of transcripts (TranscriptPublication)   *)
(* and about decisions and signers (ResolverAgent).                        *)
(***************************************************************************)
EXTENDS TranscriptPublication, ResolverAgent, FiniteSetTheorems, TLAPS

(***************************************************************************)
(* A transcript is paid for once, for any number of uploads the wallet     *)
(* could sign, any failures of the network, crashes and losses of the      *)
(* runtime directory.                                                      *)
(*                                                                         *)
(* The argument: before the signed upload is journaled nothing it could    *)
(* compete with is accepted anywhere; from then on it is the only one that *)
(* is ever posted; and what is accepted without being journaled is in the  *)
(* index, where the search finds it or forbids another upload.             *)
(***************************************************************************)

Taken(i) == net[i] \in Accepted

PublicationShape ==
    /\ net \in [Ids -> {"none", "signed", "posted", "mined"}]
    /\ indexed \in SUBSET Ids
    /\ journal \in [prepared : Ids \cup {0}, receipt : Ids \cup {0}]
    /\ proc \in [pc : {"off", "search", "sign", "prepare", "post", "receipt", "confirm",
                       "replicas", "verify", "published"},
                 tx : Ids \cup {0}]

(* The journal binds the upload: once it is prepared nothing else is accepted,
   and what is accepted without it can be found. *)
JournalBinds ==
    /\ \A i \in indexed : Taken(i)
    /\ journal.prepared # 0 => \A i \in Ids : Taken(i) => i = journal.prepared
    /\ journal.prepared = 0 => \A i \in Ids : Taken(i) => i \in indexed
    /\ journal.receipt # 0 => Taken(journal.receipt)
    /\ \A i, j \in Ids : Taken(i) /\ Taken(j) => i = j

(* What the publisher may rely on where it stands (publishResolverTranscript). *)
PublisherKnows ==
    /\ proc.pc \in {"search", "sign", "prepare"} => journal.prepared = 0 /\ journal.receipt = 0
    /\ proc.pc \in {"sign", "prepare"} => \A i \in Ids : ~Taken(i)
    /\ proc.pc = "prepare" => proc.tx # 0
    /\ proc.pc = "post" => proc.tx # 0 /\ proc.tx = journal.prepared
    /\ proc.pc = "receipt" => proc.tx # 0 /\ Taken(proc.tx)
    /\ proc.pc \in {"confirm", "replicas", "verify", "published"} =>
          proc.tx # 0 /\ proc.tx = journal.receipt
    /\ proc.pc \in {"replicas", "verify", "published"} => net[proc.tx] = "mined"

PublicationInv == PublicationShape /\ JournalBinds /\ PublisherKnows

LEMMA PublicationInvInit == PublicationInit => PublicationInv
  BY PublicationConstants
     DEF PublicationInit, PublicationInv, PublicationShape, JournalBinds, PublisherKnows, Taken,
         Accepted, Ids

LEMMA PublisherKeepsInv == PublicationInv /\ Publisher => PublicationInv'
<1> SUFFICES ASSUME PublicationInv, Publisher PROVE PublicationInv'
  OBVIOUS
<1> USE DEF PublicationInv, PublicationShape, JournalBinds, PublisherKnows, Taken, Accepted, Go
<1>0. 0 \notin Ids
  BY DEF Ids
<1>1. CASE publishResolverTranscript
  BY <1>0, <1>1 DEF publishResolverTranscript
<1>2. CASE arweaveTranscriptPublisher
  <2>1. PICK reachable \in SUBSET (indexed \cup (IF decoy THEN {0} ELSE {})) :
           \/ \E i \in reachable \ {0} : Go("receipt", i)
           \/ indexed = {} /\ Go("sign", 0)
           \/ Go("off", 0)
    BY <1>2 DEF arweaveTranscriptPublisher, Throws
  <2>2. UNCHANGED <<net, indexed, decoy, journal>> /\ proc.pc = "search"
    BY <1>2 DEF arweaveTranscriptPublisher
  <2>3. CASE \E i \in reachable \ {0} : Go("receipt", i)
    <3>1. PICK i \in reachable \ {0} : Go("receipt", i)
      BY <2>3
    <3>2. i \in indexed
      BY <3>1, <2>1
    <3>3. QED
      BY <1>0, <2>2, <3>1, <3>2
  <2>4. CASE indexed = {} /\ Go("sign", 0)
    BY <1>0, <2>2, <2>4
  <2>5. CASE Go("off", 0)
    BY <1>0, <2>2, <2>5
  <2>6. QED
    BY <2>1, <2>3, <2>4, <2>5
<1>3. CASE createTransaction
  BY <1>0, <1>3 DEF createTransaction
<1>4. CASE onPrepared
  BY <1>0, <1>4 DEF onPrepared, writePublicationReceiptExclusive
<1>5. CASE postTransaction
  BY <1>0, <1>5 DEF postTransaction, taken
<1>6. CASE PostFails
  BY <1>0, <1>6 DEF PostFails, taken, Throws
<1>7. CASE persistAcceptedReceipt
  BY <1>0, <1>7 DEF persistAcceptedReceipt, writePublicationReceiptExclusive
<1>8. CASE waitForConfirmation
  BY <1>0, <1>8 DEF waitForConfirmation, confirmations
<1>9. CASE ConfirmationTimesOut
  BY <1>0, <1>9 DEF ConfirmationTimesOut, Throws
<1>10. CASE verifyGatewayReplication
  BY <1>0, <1>10 DEF verifyGatewayReplication, Throws
<1>11. CASE verifyPublicationReceipt
  BY <1>0, <1>11 DEF verifyPublicationReceipt, Throws
<1>12. CASE assertActionPublication
  BY <1>0, <1>12 DEF assertActionPublication
<1>13. QED
  BY <1>1, <1>2, <1>3, <1>4, <1>5, <1>6, <1>7, <1>8, <1>9, <1>10, <1>11, <1>12 DEF Publisher

LEMMA PublicationInvStep == PublicationInv /\ [PublicationNext]_publicationVars => PublicationInv'
<1> SUFFICES ASSUME PublicationInv, [PublicationNext]_publicationVars PROVE PublicationInv'
  OBVIOUS
<1>0. 0 \notin Ids
  BY DEF Ids
<1>1. CASE Publisher
  BY <1>1, PublisherKeepsInv
<1> USE DEF PublicationInv, PublicationShape, JournalBinds, PublisherKnows, Taken, Accepted, Go
<1>2. CASE MineUpload
  BY <1>0, <1>2 DEF MineUpload
<1>3. CASE Index
  BY <1>0, <1>3 DEF Index
<1>4. CASE PublisherCrash
  BY <1>0, <1>4 DEF PublisherCrash
<1>5. CASE Wipe
  BY <1>0, <1>5 DEF Wipe
<1>6. CASE UNCHANGED publicationVars
  BY <1>6 DEF publicationVars
<1>7. QED
  BY <1>1, <1>2, <1>3, <1>4, <1>5, <1>6 DEF PublicationNext, Done

(* The journal binds the only upload, and the publisher knows where it stands
   (publishResolverTranscript). *)
THEOREM PublicationInvariant == PublicationSpec => []PublicationInv
<1>1. QED
  BY PublicationInvInit, PublicationInvStep, PTL DEF PublicationSpec

(* Whatever is lost or dies, the wallet never pays for a second upload of the
   same transcript (arweaveTranscriptPublisher, onPrepared). *)
THEOREM AlwaysPaidOnce == PublicationSpec => []PaidOnce
<1>1. PublicationInv => PaidOnce
  <2> SUFFICES ASSUME PublicationInv PROVE PaidOnce
    OBVIOUS
  <2> DEFINE S == {i \in Ids : net[i] \in Accepted}
  <2>1. CASE S = {}
    BY <2>1, FS_EmptySet DEF PaidOnce
  <2>2. CASE S # {}
    <3>1. PICK i : i \in S
      BY <2>2
    <3>2. S = {i}
      BY <3>1 DEF PublicationInv, JournalBinds, Taken
    <3>3. Cardinality(S) = 1
      BY <3>2, FS_Singleton
    <3>4. QED
      BY <3>3 DEF PaidOnce
  <2>3. QED
    BY <2>1, <2>2
<1>2. QED
  BY <1>1, PublicationInvariant, PTL

(* A transcript is published only under the transaction its journal names, and
   that one is on chain (assertActionPublication). *)
THEOREM AlwaysPublishedConfirmed == PublicationSpec => []PublishedIsConfirmed
<1>1. PublicationInv => PublishedIsConfirmed
  BY DEF PublicationInv, PublisherKnows, PublishedIsConfirmed
<1>2. QED
  BY <1>1, PublicationInvariant, PTL

-----------------------------------------------------------------------------
(***************************************************************************)
(* The same stake is never promised twice, for any boards, signers,        *)
(* transcripts, crashes, pauses, rotations, dropped transactions and       *)
(* slashes, as long as OwnDecisionsStay; and no signer ever equivocates.   *)
(*                                                                         *)
(* The argument: a board reserves only what no other board has reserved    *)
(* of the stake that is there, under the one lock; and stake is spent only *)
(* by a transaction of a board whose reservation still stands, as from its *)
(* broadcast until it is mined the action stays the one it belongs to, and *)
(* no step that can run then takes the reservation out of the ledger.      *)
(***************************************************************************)

ChallengeStates == {"none", "open", "decided", "settled", "closed", "gone"}
TransactionStates == {"none", "policy", "signed", "pending", "mined", "reverted", "final",
                      "failed", "orphaned"}

TransactionShape ==
    /\ DOMAIN tx = Policies
    /\ tx = [p \in Policies |-> tx[p]]
    /\ \A p \in Policies : /\ tx[p].st \in TransactionStates
                           /\ tx[p] = [st |-> tx[p].st, nonce |-> tx[p].nonce]

AgentShape ==
    /\ act \in [Challenges -> Action \cup {None}]
    /\ ledger \in [Challenges -> {None, "reserved", "onchain"}]
    /\ ch \in [Challenges -> [st : ChallengeStates, blk : Int]]
    /\ TransactionShape
    /\ epoch \in Epochs /\ stake \in Int /\ head \in Int
    /\ sigs \subseteq Signers \X Challenges \X Epochs

(* What a board's own file, its entry and its transactions have to do with each other. *)
BoardInv(c) ==
    /\ act[c] # None \/ ledger[c] # None => ch[c].st # "none"
    /\ act[c] # None /\ act[c].pol # None => act[c].quorum /\ act[c].pol.c = c
    /\ ledger[c] = "onchain" => act[c] # None /\ act[c].st = "submitted"
    /\ act[c] # None /\ act[c].st = "submitted" =>
          act[c].pol # None /\ tx[act[c].pol].st \in onChain
    /\ act[c] # None /\ act[c].quorum /\ act[c].st \notin TERMINAL_ACTIONS /\ ch[c].st = "open"
          => ledger[c] # None
    /\ lock = c /\ pc \in {"sign", "send"} =>
          act[c] # None /\ act[c].pol # None /\ act[c].st \notin TERMINAL_ACTIONS

(* A transaction on its way is that of its board's action, which says so. *)
PendingInv(p) ==
    tx[p].st = "pending" =>
        /\ ch[p.c].st # "none"
        /\ ch[p.c].st = "open" => act[p.c] # None /\ act[p.c].pol = p /\ act[p.c].st = "broadcast"

AgentInv ==
    /\ AgentShape
    /\ \A c \in Challenges : BoardInv(c)
    /\ \A p \in Policies : PendingInv(p)
    /\ PromisesBacked

Promised == {c \in Challenges : ledger[c] = "reserved" /\ ch[c].st = "open"}

(* A call policy names one of the challenges. *)
LEMMA PolicyOfChallenge == \A p \in Policies : p.c \in Challenges
  BY DEF Policies

(* One transaction takes a new state, or is written anew; the others stay. *)
LEMMA TransactionMoves ==
    ASSUME TransactionShape, NEW p \in Policies, NEW s \in TransactionStates, NEW n,
           tx' = [tx EXCEPT ![p].st = s] \/ tx' = [tx EXCEPT ![p] = [st |-> s, nonce |-> n]]
    PROVE  /\ TransactionShape' /\ tx'[p].st = s
           /\ \A q \in Policies : q # p => tx'[q].st = tx[q].st
<1>1. PICK m : tx' = [q \in Policies |-> IF q = p THEN [st |-> s, nonce |-> m] ELSE tx[q]]
  <2>1. CASE tx' = [tx EXCEPT ![p].st = s]
    <3>1. [tx[p] EXCEPT !.st = s] = [st |-> s, nonce |-> tx[p].nonce]
      <4>1. PICK x, y : tx[p] = [st |-> x, nonce |-> y]
        BY DEF TransactionShape
      <4>2. QED
        BY <4>1
    <3>2. tx' = [q \in Policies |-> IF q = p THEN [tx[p] EXCEPT !.st = s] ELSE tx[q]]
      BY <2>1 DEF TransactionShape
    <3>3. tx' = [q \in Policies |->
                    IF q = p THEN [st |-> s, nonce |-> tx[p].nonce] ELSE tx[q]]
      BY <3>1, <3>2
    <3>4. QED
      BY <3>3
  <2>2. CASE tx' = [tx EXCEPT ![p] = [st |-> s, nonce |-> n]]
    <3>1. tx' = [q \in Policies |-> IF q = p THEN [st |-> s, nonce |-> n] ELSE tx[q]]
      BY <2>2 DEF TransactionShape
    <3>2. QED
      BY <3>1
  <2>3. QED
    BY <2>1, <2>2
<1>2. /\ tx'[p] = [st |-> s, nonce |-> m]
      /\ \A q \in Policies : q # p => tx'[q] = tx[q]
  BY <1>1
<1>3. tx' = [q \in Policies |-> tx'[q]] /\ DOMAIN tx' = Policies
  BY <1>1
<1>4. QED
  BY <1>2, <1>3 DEF TransactionShape

(* A board that gives up entries or changes them in place promises nothing new. *)
LEMMA NothingPromised ==
    ASSUME AgentAssumption, PromisesBacked, stake \in Int, stake' \in Int,
           Promised' \subseteq Promised, stake' >= stake
    PROVE  PromisesBacked'
<1>1. IsFiniteSet(Promised) /\ Promised \in SUBSET Challenges
  BY FS_Subset DEF AgentAssumption, Promised
<1>2. Cardinality(Promised') <= Cardinality(Promised) /\ IsFiniteSet(Promised')
  BY <1>1, FS_Subset
<1>3. Cardinality(Promised') \in Nat /\ Cardinality(Promised) \in Nat
  BY <1>1, <1>2, FS_CardinalityType
<1>4. /\ Cardinality(Promised) <= stake
      /\ Cardinality(Promised') <= stake' => PromisesBacked'
  BY DEF PromisesBacked, Promised
<1>5. QED
  BY <1>2, <1>3, <1>4

(* currentChallenge lets a board promise one bond that nobody else has promised. *)
LEMMA OnePromised ==
    ASSUME AgentAssumption, NEW c \in Challenges, stake \in Int, UNCHANGED stake,
           stake >= 1 + sharedReservedStake(c),
           \A d \in Challenges \ {c} : ledger'[d] = "reserved" => ledger[d] = "reserved"
    PROVE  PromisesBacked'
<1> DEFINE others == {d \in Challenges \ {c} : ledger[d] = "reserved"}
<1>1. IsFiniteSet(others)
  BY FS_Subset DEF AgentAssumption
<1>2. IsFiniteSet(others \cup {c}) /\ Cardinality(others \cup {c}) = Cardinality(others) + 1
  BY <1>1, FS_AddElement
<1>3. Promised' \in SUBSET (others \cup {c})
  BY DEF Promised
<1>4. IsFiniteSet(Promised') /\ Cardinality(Promised') <= Cardinality(others \cup {c})
  BY <1>2, <1>3, FS_Subset
<1>5. Cardinality(Promised') \in Nat /\ Cardinality(others) \in Nat
  BY <1>1, <1>4, FS_CardinalityType
<1>6. /\ sharedReservedStake(c) = Cardinality(others)
      /\ Cardinality(Promised') <= stake' => PromisesBacked'
  BY DEF sharedReservedStake, PromisesBacked, Promised
<1>7. QED
  BY <1>2, <1>4, <1>5, <1>6

(* A step of one board under the lock: its action, its entry, its transactions. *)
LEMMA BoardStep ==
    ASSUME AgentAssumption, AgentInv, NEW c \in Challenges, lock' \in {c, None},
           lock = c,
           NEW a \in Action \cup {None}, act' = [act EXCEPT ![c] = a],
           NEW l \in {None, "reserved", "onchain"}, ledger' = [ledger EXCEPT ![c] = l],
           UNCHANGED <<ch, epoch, stake, head, sigs>>, TransactionShape',
           \A p \in Policies : p.c # c => tx'[p].st = tx[p].st,
           BoardInv(c)', \A p \in Policies : p.c = c => PendingInv(p)',
           l = "reserved" => ledger[c] = "reserved" \/ stake >= 1 + sharedReservedStake(c)
    PROVE  AgentInv'
<1>1. AgentShape'
  BY DEF AgentInv, AgentShape
<1>2. ASSUME NEW d \in Challenges, d # c PROVE BoardInv(d)'
  <2>1. act'[d] = act[d] /\ ledger'[d] = ledger[d] /\ lock' # d
    BY <1>2 DEF AgentInv, AgentShape, AgentAssumption
  <2>2. BoardInv(d)
    BY DEF AgentInv
  <2>3. CASE act[d] # None /\ act[d].pol # None
    <3>1. act[d].pol \in Policies /\ act[d].pol.c = d
      BY <2>2, <2>3 DEF BoardInv, AgentInv, AgentShape, Action
    <3>2. tx'[act[d].pol].st = tx[act[d].pol].st
      BY <3>1, <1>2
    <3>3. QED
      BY <2>1, <2>2, <2>3, <3>2 DEF BoardInv, onChain
  <2>4. CASE ~(act[d] # None /\ act[d].pol # None)
    BY <2>1, <2>2, <2>4 DEF BoardInv
  <2>5. QED
    BY <2>3, <2>4
<1>3. ASSUME NEW p \in Policies, p.c # c PROVE PendingInv(p)'
  <2>1. act'[p.c] = act[p.c] /\ PendingInv(p)
    BY <1>3, PolicyOfChallenge DEF AgentInv, AgentShape
  <2>2. QED
    BY <2>1, <1>3 DEF PendingInv
<1>4. PromisesBacked'
  <2>1. CASE l = "reserved" /\ ledger[c] # "reserved"
    BY <2>1, OnePromised DEF AgentInv, AgentShape
  <2>2. CASE ~(l = "reserved" /\ ledger[c] # "reserved")
    <3>1. Promised' \subseteq Promised
      BY <2>2 DEF Promised, AgentInv, AgentShape
    <3>2. QED
      BY <3>1, NothingPromised DEF AgentInv, AgentShape
  <2>3. QED
    BY <2>1, <2>2
<1>5. QED
  BY <1>1, <1>2, <1>3, <1>4 DEF AgentInv

-----------------------------------------------------------------------------
(* The passes of a board. *)

(* What assumption and invariant say of an action that is there. *)
LEMMA ActionThere ==
    ASSUME NoneIsNothing, AgentShape, NEW c \in Challenges, act[c] # None, NEW st \in Statuses
    PROVE  /\ act[c] \in Action
           /\ [act[c] EXCEPT !.st = st] \in Action \ {None}
           /\ [act[c] EXCEPT !.st = st].st = st
           /\ [act[c] EXCEPT !.st = st].quorum = act[c].quorum
           /\ [act[c] EXCEPT !.st = st].pol = act[c].pol
<1>1. act[c] \in Action
  BY DEF AgentShape
<1>2. QED
  BY <1>1 DEF Action, NoneIsNothing

(* A decision goes on only while its challenge is open and unreserved stake covers it. *)
LEMMA CurrentChallenge ==
    ASSUME AgentAssumption, stake \in Int, NEW c
    PROVE  /\ currentChallenge(c) # "ok" =>
                currentChallenge(c) \in {"superseded", "awaiting_registry_binding",
                    "onchain_observed", "awaiting_quorum_unpause", "awaiting_quorum_stake"}
           /\ currentChallenge(c) = "ok" =>
                ch[c].st = "open" /\ stake >= 1 + sharedReservedStake(c)
<1>1. sharedReservedStake(c) \in Nat
  <2> DEFINE S == {d \in Challenges \ {c} : ledger[d] = "reserved"}
  <2>1. IsFiniteSet(S)
    BY FS_Subset DEF AgentAssumption
  <2>2. QED
    BY <2>1, FS_CardinalityType DEF sharedReservedStake
<1>2. QED
  BY <1>1 DEF currentChallenge

(* The action takes another status, and its entry follows (syncSharedQuorumReservation). *)
LEMMA SetStatusStep ==
    ASSUME AgentAssumption, NoneIsNothing, AgentInv, NEW c \in Challenges, lock = c,
           lock' = None, act[c] # None, act[c].quorum, act[c].st \notin TERMINAL_ACTIONS,
           NEW st \in Statuses, setStatus(c, st),
           UNCHANGED <<ch, epoch, stake, head, sigs>>, TransactionShape',
           \A p \in Policies : p.c # c => tx'[p].st = tx[p].st,
           st = "submitted" => act[c].pol # None /\ tx'[act[c].pol].st \in onChain,
           act[c].st = "submitted" => st \in TERMINAL_ACTIONS \cup {"submitted"},
           \A p \in Policies : p.c = c /\ ch[c].st = "open" /\ tx'[p].st = "pending"
                                  => act[c].pol = p /\ st = "broadcast"
    PROVE  AgentInv'
<1> DEFINE a == [act[c] EXCEPT !.st = st]
           l == syncedEntry(ledger[c], a)
<1>1. act' = [act EXCEPT ![c] = a] /\ ledger' = [ledger EXCEPT ![c] = l]
  BY DEF setStatus, AgentInv, AgentShape
<1>2. /\ a \in Action \ {None} /\ act[c] \in Action
      /\ a.st = st /\ a.quorum = act[c].quorum /\ a.pol = act[c].pol
  BY ActionThere DEF AgentInv
<1> HIDE DEF a
<1>3. /\ l = IF ledger[c] = None THEN None
             ELSE IF st \in TERMINAL_ACTIONS THEN None
             ELSE IF st = "submitted" THEN "onchain" ELSE "reserved"
      /\ l \in {None, "reserved", "onchain"}
  BY <1>2 DEF syncedEntry, phaseOf
<1> HIDE DEF l
<1>4. act'[c] = a /\ ledger'[c] = l /\ BoardInv(c) /\ c # None
  BY <1>1 DEF AgentInv, AgentShape, AgentAssumption
<1>5. "submitted" \notin TERMINAL_ACTIONS /\ None \notin {"reserved", "onchain"}
  BY DEF TERMINAL_ACTIONS, AgentAssumption
<1>6. l = "reserved" => ledger[c] = "reserved"
  BY <1>2, <1>3, <1>4, <1>5 DEF BoardInv, AgentInv, AgentShape
<1>7. BoardInv(c)'
  BY <1>2, <1>3, <1>4, <1>5 DEF BoardInv, onChain
<1>8. \A p \in Policies : p.c = c => PendingInv(p)'
  BY <1>2, <1>4 DEF PendingInv, BoardInv
<1>9. QED
  BY <1>1, <1>2, <1>3, <1>6, <1>7, <1>8, BoardStep

(* The action takes another status that no entry depends on, or is bound to its policy. *)
LEMMA WaitStep ==
    ASSUME AgentAssumption, NoneIsNothing, AgentInv, NEW c \in Challenges, lock = c,
           lock' \in {c, None}, act[c] # None, act[c].quorum,
           NEW a \in Action \ {None}, act' = [act EXCEPT ![c] = a],
           UNCHANGED <<ledger, ch, epoch, stake, head, sigs>>, TransactionShape',
           \A p \in Policies : p.c # c => tx'[p].st = tx[p].st,
           \A p \in Policies : tx'[p].st = "pending" => tx[p].st = "pending",
           a.quorum, a.pol # None => a.pol.c = c,
           act[c].st \notin TERMINAL_ACTIONS, a.st \notin TERMINAL_ACTIONS,
           act[c].st = "submitted" <=> a.st = "submitted",
           act[c].st = "submitted" => a.pol # None /\ tx'[a.pol].st \in onChain,
           lock' = c => a.pol # None,
           \A p \in Policies : p.c = c /\ ch[c].st = "open" /\ tx[p].st = "pending"
                                  => a.pol = p /\ a.st = "broadcast"
    PROVE  AgentInv'
<1>1. act'[c] = a /\ ledger'[c] = ledger[c] /\ BoardInv(c)
  BY DEF AgentInv, AgentShape
<1>2. ledger' = [ledger EXCEPT ![c] = ledger[c]] /\ ledger[c] \in {None, "reserved", "onchain"}
  BY DEF AgentInv, AgentShape
<1>3. BoardInv(c)'
  BY <1>1 DEF BoardInv, onChain
<1>4. \A p \in Policies : p.c = c => PendingInv(p)'
  BY <1>1 DEF PendingInv, BoardInv
<1>5. QED
  BY <1>1, <1>2, <1>3, <1>4, BoardStep

(* Nothing of a pass changes but its place. *)
LEMMA PassMoves ==
    ASSUME AgentAssumption, AgentInv,
           \/ lock = None /\ pc' = "scan"
           \/ lock' = None
           \/ lock' = lock /\ pc' \notin {"sign", "send"}
           \/ /\ lock' = lock /\ lock \in Challenges
              /\ act[lock] # None /\ act[lock].pol # None /\ act[lock].st \notin TERMINAL_ACTIONS,
           UNCHANGED <<act, ledger, ch, stake, epoch, head, sigs, tx>>
    PROVE  AgentInv'
<1>1. AgentShape' /\ PromisesBacked'
  BY DEF AgentInv, AgentShape, TransactionShape, PromisesBacked
<1>2. ASSUME NEW c \in Challenges PROVE BoardInv(c)'
  <2>1. BoardInv(c) /\ c # None
    BY DEF AgentInv, AgentAssumption
  <2>2. QED
    BY <2>1 DEF BoardInv, onChain
<1>3. \A p \in Policies : PendingInv(p)'
  BY DEF AgentInv, PendingInv
<1>4. QED
  BY <1>1, <1>2, <1>3 DEF AgentInv

(* The pass begins: every entry follows the action of its board (scanOnce,
   reconcileSharedQuorumReservations). *)
LEMMA BeginPassKeeps ==
    ASSUME AgentAssumption, NoneIsNothing, AgentInv, NEW b \in Challenges, BeginPass(b)
    PROVE  AgentInv'
<1>1. /\ lock' = b /\ pc' = "scan" /\ ledger' = reconciledLedger
      /\ UNCHANGED <<act, ch, stake, epoch, head, sigs, tx>>
  BY DEF BeginPass, chainVars, signerVars
<1>2. ASSUME NEW c \in Challenges
      PROVE  /\ ledger'[c] \in {None, "reserved", "onchain"}
             /\ ledger'[c] = "reserved" => ledger[c] = "reserved"
             /\ BoardInv(c)'
  <2>1. BoardInv(c) /\ ledger[c] \in {None, "reserved", "onchain"}
    BY DEF AgentInv, AgentShape
  <2>2. ledger'[c] = IF ledger[c] = None \/ act[c] = None THEN None
                     ELSE IF act[c].st \in TERMINAL_ACTIONS THEN None
                     ELSE IF act[c].st = "submitted" THEN "onchain" ELSE "reserved"
    BY <1>1 DEF reconciledLedger, phaseOf
  <2>3. QED
    BY <1>1, <2>1, <2>2 DEF BoardInv, onChain, AgentAssumption
<1>3. AgentShape'
  <2>1. ledger' = [c \in Challenges |-> ledger'[c]]
    BY <1>1 DEF reconciledLedger
  <2>2. QED
    BY <1>1, <1>2, <2>1 DEF AgentInv, AgentShape, TransactionShape
<1>4. \A p \in Policies : PendingInv(p)'
  BY <1>1 DEF AgentInv, PendingInv
<1>5. Promised' \subseteq Promised
  BY <1>1, <1>2 DEF Promised
<1>6. PromisesBacked'
  BY <1>1, <1>5, NothingPromised DEF AgentInv, AgentShape
<1>7. QED
  BY <1>2, <1>3, <1>4, <1>6 DEF AgentInv

(* What prepareAction makes is an action; with a transport only if the stake covers it. *)
LEMMA Prepared ==
    ASSUME AgentAssumption, NoneIsNothing, AgentInv, NEW c \in Challenges
    PROVE  /\ preparedAction(c) \in Action \ {None}
           /\ preparedAction(c).pol = None
           /\ preparedAction(c).st \notin {"submitted", "broadcast"}
           /\ preparedAction(c).quorum => stake >= 1 + sharedReservedStake(c)
<1>1. epoch \in 0 .. MaxEpoch /\ 0 \in 0 .. MaxEpoch /\ stake \in Int
  BY DEF AgentInv, AgentShape, Epochs, AgentAssumption
<1>2. ASSUME NEW st \in Statuses \ {"submitted", "broadcast"}
      PROVE  /\ bareAction(st) \in Action /\ bareAction(st).pol = None
             /\ bareAction(st).st \notin {"submitted", "broadcast"} /\ ~bareAction(st).quorum
  BY <1>1, <1>2 DEF bareAction, Action
<1>3. /\ transcriptStatus(c) # "found" => transcriptStatus(c) \in Statuses \ {"submitted", "broadcast"}
      /\ currentChallenge(c) # "ok" => currentChallenge(c) \in Statuses \ {"submitted", "broadcast"}
      /\ {"awaiting_publication", "awaiting_quorum_signatures"}
             \subseteq Statuses \ {"submitted", "broadcast"}
  BY <1>1, CurrentChallenge DEF transcriptStatus, Statuses, RETRYABLE, TERMINAL_ACTIONS
<1>4. CASE /\ transcriptStatus(c) = "found" /\ transcriptPublished(c)
           /\ currentChallenge(c) = "ok"
  <2>1. preparedAction(c) =
            [st |-> "awaiting_quorum_signatures", quorum |-> TRUE, e |-> epoch, pol |-> None]
    BY <1>4 DEF preparedAction
  <2>2. stake >= 1 + sharedReservedStake(c)
    BY <1>1, <1>4, CurrentChallenge
  <2>3. preparedAction(c) \in Action
    BY <1>1, <1>3, <2>1 DEF Action
  <2>4. /\ preparedAction(c).pol = None /\ preparedAction(c).st = "awaiting_quorum_signatures"
    BY <2>1
  <2>5. QED
    BY <2>2, <2>3, <2>4 DEF NoneIsNothing
<1>5. CASE ~(/\ transcriptStatus(c) = "found" /\ transcriptPublished(c)
             /\ currentChallenge(c) = "ok")
  <2>1. \E st \in Statuses \ {"submitted", "broadcast"} : preparedAction(c) = bareAction(st)
    BY <1>3, <1>5 DEF preparedAction
  <2>2. QED
    BY <1>2, <2>1 DEF NoneIsNothing
<1>6. QED
  BY <1>4, <1>5

(* The scan writes the packet and the reservation before the state; it may die between
   the two (scanOnceUnlocked, prepareAction, markOrphanedActions). *)
LEMMA ScanKeeps ==
    ASSUME AgentAssumption, NoneIsNothing, AgentInv, NEW c \in Challenges, Scan(c) \/ ScanCrash(c)
    PROVE  AgentInv'
<1> DEFINE a == preparedAction(c)
           orphan == [act[c] EXCEPT !.st = "orphaned_reorg"]
<1>1. /\ lock = c /\ preparedFiles(c)
      /\ UNCHANGED <<ch, stake, epoch, head, sigs, tx>>
      /\ \/ lock' = c /\ pc' = "cursor"
            /\ act' = [act EXCEPT ![c] = IF orphans(c) THEN orphan
                                         ELSE IF prepares(c) THEN a ELSE act[c]]
         \/ lock' = None /\ UNCHANGED act
  BY DEF Scan, ScanCrash, at, goto, endPass, chainVars, signerVars, AgentInv, AgentShape
<1>2. /\ BoardInv(c) /\ ledger[c] \in {None, "reserved", "onchain"} /\ c # None
      /\ act[c] \in Action \cup {None} /\ None \notin {"reserved", "onchain"}
  BY DEF AgentInv, AgentShape, AgentAssumption
<1>3. /\ a \in Action \ {None} /\ a.pol = None /\ a.st \notin {"submitted", "broadcast"}
      /\ a.quorum => stake >= 1 + sharedReservedStake(c)
  BY Prepared
<1> HIDE DEF a
<1>4. act[c] # None => /\ orphan \in Action \ {None} /\ orphan.st = "orphaned_reorg"
                       /\ orphan.pol = act[c].pol /\ orphan.quorum = act[c].quorum
  BY ActionThere DEF AgentInv, Statuses, TERMINAL_ACTIONS
<1> HIDE DEF orphan
<1>5. /\ "orphaned_reorg" \in TERMINAL_ACTIONS /\ "orphaned_reorg" # "submitted"
      /\ {"submitted", "broadcast"} \cap RETRYABLE = {}
  BY DEF TERMINAL_ACTIONS, RETRYABLE
<1>6. TransactionShape'
  BY <1>1 DEF AgentInv, AgentShape, TransactionShape
<1>7. /\ orphans(c) => act[c] # None /\ ch[c].st \in {"none", "gone"}
      /\ prepares(c) => ch[c].st \notin {"none", "gone"} /\ (act[c] = None \/ act[c].st \in RETRYABLE)
  BY DEF orphans, prepares, eventSeen
<1>8. CASE prepares(c)
  <2>1. ~orphans(c)
    BY <1>7, <1>8
  <2>2. ledger[c] # "onchain"
    BY <1>2, <1>5, <1>7, <1>8 DEF BoardInv
  <2>3. PICK l \in {None, "reserved", "onchain"} :
           /\ ledger' = [ledger EXCEPT ![c] = l] /\ l # "onchain"
           /\ a.quorum => l = "reserved"
           /\ ~a.quorum => l = ledger[c]
    <3>1. CASE a.quorum
      <4>1. ledger' = [ledger EXCEPT ![c] = "reserved"]
        BY <1>1, <1>2, <1>8, <2>2, <3>1 DEF preparedFiles, a, AgentInv, AgentShape
      <4>2. QED
        BY <4>1, <3>1
    <3>2. CASE ~a.quorum
      <4>1. ledger' = [ledger EXCEPT ![c] = ledger[c]]
        BY <1>1, <1>8, <2>1, <3>2 DEF preparedFiles, a, AgentInv, AgentShape
      <4>2. QED
        BY <4>1, <3>2, <2>2, <1>2
    <3>3. QED
      BY <3>1, <3>2
  <2>4. PICK b \in Action \cup {None} : act' = [act EXCEPT ![c] = b] /\ b \in {a, act[c]}
           /\ (lock' = c => b = a)
    <3>1. CASE lock' = c
      <4>1. act' = [act EXCEPT ![c] = a]
        BY <1>1, <1>2, <1>8, <2>1, <3>1
      <4>2. QED
        BY <4>1, <1>3
    <3>2. CASE lock' # c
      <4>1. act' = [act EXCEPT ![c] = act[c]]
        BY <1>1, <3>2 DEF AgentInv, AgentShape
      <4>2. QED
        BY <4>1, <3>2, <1>2
    <3>3. QED
      BY <3>1, <3>2
  <2>5. act'[c] = b /\ ledger'[c] = l
    BY <2>3, <2>4 DEF AgentInv, AgentShape
  <2>6. b # None => b.st \notin {"submitted", "broadcast"}
    BY <1>3, <1>5, <1>7, <1>8, <2>4
  <2>7. BoardInv(c)'
    BY <1>1, <1>2, <1>3, <1>7, <1>8, <2>2, <2>3, <2>4, <2>5, <2>6 DEF BoardInv
  <2>8. \A p \in Policies : p.c = c => PendingInv(p)'
    <3> SUFFICES ASSUME NEW p \in Policies, p.c = c PROVE PendingInv(p)'
      OBVIOUS
    <3>1. PendingInv(p)
      BY DEF AgentInv
    <3>2. QED
      BY <1>1, <1>5, <1>7, <1>8, <3>1 DEF PendingInv
  <2>9. l = "reserved" => ledger[c] = "reserved" \/ stake >= 1 + sharedReservedStake(c)
    BY <1>3, <2>3
  <2>10. QED
    BY <1>1, <1>6, <2>3, <2>4, <2>7, <2>8, <2>9, BoardStep
<1>9. CASE orphans(c)
  <2>1. ~prepares(c)
    BY <1>7, <1>9
  <2>2. PICK l \in {None, "reserved", "onchain"} :
           /\ ledger' = [ledger EXCEPT ![c] = l]
           /\ l = IF act[c].quorum THEN None ELSE ledger[c]
    <3>1. ledger' = [ledger EXCEPT ![c] = IF act[c].quorum THEN None ELSE ledger[c]]
      BY <1>1, <1>9, <2>1 DEF preparedFiles, AgentInv, AgentShape
    <3>2. QED
      BY <3>1, <1>2
  <2>3. PICK b \in Action \cup {None} : act' = [act EXCEPT ![c] = b] /\ b \in {orphan, act[c]}
    <3>1. CASE lock' = c
      <4>1. act' = [act EXCEPT ![c] = orphan]
        BY <1>1, <1>2, <1>9, <3>1
      <4>2. QED
        BY <4>1, <1>4, <1>7, <1>9
    <3>2. CASE lock' # c
      <4>1. act' = [act EXCEPT ![c] = act[c]]
        BY <1>1, <3>2 DEF AgentInv, AgentShape
      <4>2. QED
        BY <4>1, <1>2
    <3>3. QED
      BY <3>1, <3>2
  <2>4. act'[c] = b /\ ledger'[c] = l
    BY <2>2, <2>3 DEF AgentInv, AgentShape
  <2>5. ledger[c] = "onchain" => act[c].quorum
    BY <1>2, <1>7, <1>9 DEF BoardInv
  <2>6. BoardInv(c)'
    BY <1>1, <1>2, <1>4, <1>5, <1>7, <1>9, <2>2, <2>3, <2>4, <2>5 DEF BoardInv
  <2>7. \A p \in Policies : p.c = c => PendingInv(p)'
    BY <1>1, <1>7, <1>9 DEF PendingInv, AgentInv
  <2>8. QED
    BY <1>1, <1>2, <1>6, <2>2, <2>3, <2>6, <2>7, BoardStep
<1>10. CASE ~prepares(c) /\ ~orphans(c)
  <2>1. UNCHANGED <<act, ledger>>
    <3>1. act = [act EXCEPT ![c] = act[c]]
      BY DEF AgentInv, AgentShape
    <3>2. UNCHANGED ledger
      BY <1>1, <1>10 DEF preparedFiles
    <3>3. QED
      BY <1>1, <1>10, <3>1, <3>2
  <2>2. QED
    BY <1>1, <1>2, <2>1, PassMoves
<1>11. QED
  BY <1>8, <1>9, <1>10

(* The call policy names its own challenge and is one of those there are. *)
LEMMA PolicyBuilt ==
    ASSUME AgentAssumption, AgentInv, NEW c \in Challenges, act[c] # None, act[c].e = epoch,
           ~(Cardinality(collected(c)) < Threshold)
    PROVE  quorumCallPolicy(c) \in Policies /\ quorumCallPolicy(c).c = c
<1>1. collected(c) \subseteq Signers
  BY DEF collected, signatureArtifacts, AgentInv, AgentShape
<1>2. Cardinality(collected(c)) \in Nat /\ Threshold \in Nat
  BY <1>1, FS_Subset, FS_CardinalityType DEF AgentAssumption
<1>3. epoch \in Epochs
  BY DEF AgentInv, AgentShape
<1>4. QED
  BY <1>1, <1>2, <1>3 DEF quorumCallPolicy, Policies

(* reconcileAction, up to the call policy. *)
LEMMA ReconcileKeeps ==
    ASSUME AgentAssumption, NoneIsNothing, AgentInv, NEW c \in Challenges, Reconcile(c)
    PROVE  AgentInv'
<1>1. /\ lock = c /\ lock' \in {c, None}
      /\ UNCHANGED <<ch, stake, epoch, head, sigs>>
  BY DEF Reconcile, at, goto, endPass, hydrate, chainVars, signerVars
<1>2. BoardInv(c) /\ c # None
  BY DEF AgentInv, AgentAssumption
<1>3. CASE lock' = None /\ UNCHANGED <<act, ledger, tx>>
  BY <1>1, <1>3, PassMoves
<1>4. CASE /\ act[c] # None /\ act[c].st \notin TERMINAL_ACTIONS /\ act[c].quorum
           /\ act[c].pol # None /\ lock' = lock /\ UNCHANGED <<act, ledger, tx>>
  BY <1>1, <1>4, PassMoves
<1>5. CASE /\ act[c] # None /\ act[c].st \notin TERMINAL_ACTIONS /\ act[c].quorum
           /\ act[c].pol = None /\ hydrate(c)
  <2>1. act[c].st # "submitted"
    BY <1>2, <1>5 DEF BoardInv
  <2>2. \A p \in Policies : p.c = c /\ ch[c].st = "open" => tx[p].st # "pending"
    BY <1>5 DEF AgentInv, PendingInv, NoneIsNothing
  <2>3. TransactionShape
    BY DEF AgentInv, AgentShape
  <2>4. act[c] \in Action
    BY <1>5, ActionThere DEF AgentInv, Statuses
  <2>5. CASE currentChallenge(c) # "ok"
    <3>1. /\ setStatus(c, currentChallenge(c)) /\ lock' = None /\ UNCHANGED tx
      BY <1>5, <2>5 DEF hydrate, endPass
    <3>2. currentChallenge(c) \in Statuses /\ currentChallenge(c) # "submitted"
      BY <2>5, CurrentChallenge DEF AgentInv, AgentShape, Statuses, RETRYABLE, TERMINAL_ACTIONS
    <3>3. TransactionShape'
      BY <2>3, <3>1 DEF TransactionShape
    <3>4. QED
      BY <1>1, <1>5, <2>1, <2>2, <3>1, <3>2, <3>3, SetStatusStep
  <2>6. ASSUME NEW st \in {"awaiting_quorum_epoch_refresh", "awaiting_quorum_signatures"},
               act' = [act EXCEPT ![c].st = st], lock' = None, UNCHANGED <<ledger, tx>>
        PROVE  AgentInv'
    <3> DEFINE a == [act[c] EXCEPT !.st = st]
    <3>1. st \in Statuses /\ st \notin TERMINAL_ACTIONS /\ st # "submitted"
      BY DEF Statuses, RETRYABLE, TERMINAL_ACTIONS
    <3>2. /\ a \in Action \ {None} /\ a.st = st
          /\ a.quorum = act[c].quorum /\ a.pol = act[c].pol
      BY <1>5, <3>1, ActionThere DEF AgentInv
    <3>3. act' = [act EXCEPT ![c] = a]
      BY <2>6
    <3>4. TransactionShape'
      BY <2>3, <2>6 DEF TransactionShape
    <3> HIDE DEF a
    <3>5. /\ UNCHANGED <<ledger, ch, epoch, stake, head, sigs>>
          /\ lock = c /\ lock' \in {c, None} /\ (lock' = c => a.pol # None)
          /\ act[c] # None /\ act[c].quorum /\ act[c].st \notin TERMINAL_ACTIONS /\ a.quorum
          /\ a.st \notin TERMINAL_ACTIONS /\ (act[c].st = "submitted" <=> a.st = "submitted")
      BY <1>1, <1>2, <1>5, <2>1, <2>6, <3>1, <3>2
    <3>6. \A p \in Policies : tx'[p].st = tx[p].st
      BY <2>6
    <3>7. a.pol = None /\ act[c].st # "submitted"
      BY <1>5, <2>1, <3>2
    <3>8. /\ act[c].st = "submitted" => a.pol # None /\ tx'[a.pol].st \in onChain
          /\ a.pol # None => a.pol.c = c
          /\ \A p \in Policies : p.c = c /\ ch[c].st = "open" /\ tx[p].st = "pending"
                                   => a.pol = p /\ a.st = "broadcast"
          /\ \A p \in Policies : tx'[p].st = "pending" => tx[p].st = "pending"
          /\ \A p \in Policies : p.c # c => tx'[p].st = tx[p].st
      BY <2>2, <3>6, <3>7
    <3>9. QED
      BY <3>2, <3>3, <3>4, <3>5, <3>8, WaitStep
  <2>7. CASE currentChallenge(c) = "ok" /\ act[c].e = epoch /\ ~(Cardinality(collected(c)) < Threshold)
    <3> DEFINE p == quorumCallPolicy(c)
               a == [act[c] EXCEPT !.st = "prepared", !.pol = p]
    <3>1. p \in Policies /\ p.c = c
      BY <1>5, <2>7, PolicyBuilt
    <3>2. /\ act' = [act EXCEPT ![c] = a]
          /\ tx' = [tx EXCEPT ![p].st = IF @ = "none" THEN "policy" ELSE @]
          /\ lock' = c /\ UNCHANGED ledger
      BY <1>1, <1>5, <2>7 DEF hydrate, goto
    <3> HIDE DEF p
    <3>3. "prepared" \in Statuses /\ "prepared" \notin TERMINAL_ACTIONS
      BY DEF Statuses, TERMINAL_ACTIONS
    <3>4. a \in Action /\ a.st = "prepared" /\ a.pol = p /\ a.quorum = act[c].quorum
      BY <2>4, <3>1, <3>3 DEF Action
    <3>5. a # None
      BY <3>4 DEF NoneIsNothing
    <3> HIDE DEF a
    <3>6. PICK s \in TransactionStates : /\ tx' = [tx EXCEPT ![p].st = s]
                                         /\ s = IF tx[p].st = "none" THEN "policy" ELSE tx[p].st
      <4>1. tx' = [tx EXCEPT ![p].st = IF tx[p].st = "none" THEN "policy" ELSE tx[p].st]
        BY <2>3, <3>1, <3>2 DEF TransactionShape
      <4>2. QED
        BY <2>3, <3>1, <4>1 DEF TransactionShape, TransactionStates
    <3>7. /\ TransactionShape' /\ tx'[p].st = s
          /\ \A q \in Policies : q # p => tx'[q].st = tx[q].st
      BY <2>3, <3>1, <3>6, TransactionMoves
    <3>8. \A q \in Policies : tx'[q].st = "pending" => tx[q].st = "pending"
      BY <3>6, <3>7
    <3>9. p # None
      BY <3>1 DEF NoneIsNothing
    <3>10. /\ UNCHANGED <<ledger, ch, epoch, stake, head, sigs>>
           /\ lock = c /\ lock' \in {c, None} /\ a.pol # None /\ a.pol.c = c
           /\ act[c] # None /\ act[c].quorum /\ act[c].st \notin TERMINAL_ACTIONS /\ a.quorum
           /\ a.st \notin TERMINAL_ACTIONS /\ (act[c].st = "submitted" <=> a.st = "submitted")
      BY <1>1, <1>2, <1>5, <2>1, <3>1, <3>2, <3>3, <3>4, <3>9
    <3>11. \A q \in Policies : q.c # c => tx'[q].st = tx[q].st
      BY <3>1, <3>7
    <3>12. QED
      BY <2>1, <2>2, <3>2, <3>4, <3>5, <3>7, <3>8, <3>10, <3>11, WaitStep
  <2>8. QED
    BY <1>5, <2>5, <2>6, <2>7 DEF hydrate, endPass
<1>6. QED
  BY <1>1, <1>3, <1>4, <1>5 DEF Reconcile, goto, endPass

(* ensureSignedAction: the policy is signed once, and only for the challenge as it is. *)
LEMMA SignKeeps ==
    ASSUME AgentAssumption, NoneIsNothing, AgentInv, NEW c \in Challenges, Sign(c)
    PROVE  AgentInv'
<1> DEFINE p == act[c].pol
<1>1. /\ lock = c /\ pc = "sign" /\ lock' \in {c, None}
      /\ UNCHANGED <<ch, stake, epoch, head, sigs>>
  BY DEF Sign, at, goto, endPass, chainVars, signerVars
<1>2. BoardInv(c) /\ c # None /\ TransactionShape
  BY DEF AgentInv, AgentShape, AgentAssumption
<1>3. /\ act[c] # None /\ act[c].pol # None /\ act[c].st \notin TERMINAL_ACTIONS /\ act[c].quorum
      /\ p.c = c /\ p # None
  BY <1>1, <1>2 DEF BoardInv
<1>4. act[c] \in Action /\ p \in Policies
  BY <1>3 DEF AgentInv, AgentShape, Action
<1>5. \A q \in Policies : q.c = c /\ ch[c].st = "open" /\ tx[q].st = "pending" =>
          p = q /\ act[c].st = "broadcast"
  BY DEF AgentInv, PendingInv
<1>6. act[c].st = "submitted" => tx[p].st \in onChain
  BY <1>2, <1>3 DEF BoardInv
<1> HIDE DEF p
<1>7. CASE lock' = None /\ UNCHANGED <<act, ledger, tx>>
  BY <1>1, <1>7, PassMoves
<1>8. CASE /\ act' = [act EXCEPT ![c].st = IF @ = "prepared" THEN "signed" ELSE @]
           /\ lock' = lock /\ UNCHANGED <<ledger, tx>>
  <2> DEFINE st == IF act[c].st = "prepared" THEN "signed" ELSE act[c].st
             a == [act[c] EXCEPT !.st = st]
  <2>1. st \in Statuses /\ st \notin TERMINAL_ACTIONS
    BY <1>3, <1>4 DEF Action, Statuses, TERMINAL_ACTIONS
  <2>2. /\ a \in Action \ {None} /\ a.st = st
        /\ a.quorum = act[c].quorum /\ a.pol = act[c].pol
    BY <1>3, <2>1, ActionThere DEF AgentInv
  <2>3. act' = [act EXCEPT ![c] = a]
    BY <1>8
  <2>4. TransactionShape' /\ \A q \in Policies : tx'[q].st = tx[q].st
    BY <1>2, <1>8 DEF TransactionShape
  <2>5. /\ st = "submitted" <=> act[c].st = "submitted"
        /\ act[c].st = "broadcast" => st = "broadcast"
    OBVIOUS
  <2> HIDE DEF a, st
  <2>6. /\ UNCHANGED <<ledger, ch, epoch, stake, head, sigs>>
        /\ lock = c /\ lock' \in {c, None} /\ a.pol = p /\ a.pol # None /\ a.pol.c = c
        /\ a.quorum /\ a.st \notin TERMINAL_ACTIONS
        /\ (act[c].st = "submitted" <=> a.st = "submitted")
    BY <1>1, <1>3, <1>8, <2>1, <2>2, <2>5 DEF p
  <2>7. /\ act[c].st = "submitted" => tx'[a.pol].st \in onChain
        /\ \A q \in Policies : q.c = c /\ ch[c].st = "open" /\ tx[q].st = "pending"
                                  => a.pol = q /\ a.st = "broadcast"
    BY <1>4, <1>5, <1>6, <2>2, <2>4, <2>5, <2>6 DEF onChain
  <2>8. QED
    BY <1>3, <2>2, <2>3, <2>4, <2>6, <2>7, WaitStep
<1>9. CASE /\ tx[p].st = "policy" /\ currentChallenge(c) # "ok"
           /\ setStatus(c, currentChallenge(c)) /\ lock' = None /\ UNCHANGED tx
  <2>1. currentChallenge(c) \in Statuses /\ currentChallenge(c) # "submitted"
    BY <1>9, CurrentChallenge DEF AgentInv, AgentShape, Statuses, RETRYABLE, TERMINAL_ACTIONS
  <2>2. TransactionShape' /\ \A q \in Policies : tx'[q].st = tx[q].st
    BY <1>2, <1>9 DEF TransactionShape
  <2>3. act[c].st # "submitted" /\ \A q \in Policies : q.c = c /\ ch[c].st = "open" => tx[q].st # "pending"
    BY <1>5, <1>6, <1>9 DEF onChain
  <2>4. QED
    BY <1>1, <1>3, <1>9, <2>1, <2>2, <2>3, SetStatusStep
<1>10. CASE /\ tx[p].st = "policy" /\ lock' = lock /\ UNCHANGED <<act, ledger>>
            /\ tx' = [tx EXCEPT ![p] = [st |-> "signed", nonce |-> pendingNonce]]
  <2>1. "signed" \in TransactionStates
    BY DEF TransactionStates
  <2>2. /\ TransactionShape' /\ tx'[p].st = "signed"
        /\ \A q \in Policies : q # p => tx'[q].st = tx[q].st
    BY <1>2, <1>4, <1>10, <2>1, TransactionMoves
  <2>3. act' = [act EXCEPT ![c] = act[c]] /\ act[c] # None
    BY <1>3, <1>10 DEF AgentInv, AgentShape
  <2>4. act[c].st # "submitted" /\ \A q \in Policies : q.c = c /\ ch[c].st = "open" => tx[q].st # "pending"
    BY <1>5, <1>6, <1>10 DEF onChain
  <2>5. /\ UNCHANGED <<ledger, ch, epoch, stake, head, sigs>>
        /\ lock = c /\ lock' \in {c, None} /\ act[c].pol # None /\ act[c].pol.c = c
    BY <1>1, <1>3, <1>10 DEF p
  <2>6. /\ \A q \in Policies : q.c # c => tx'[q].st = tx[q].st
        /\ \A q \in Policies : tx'[q].st = "pending" => tx[q].st = "pending"
    BY <1>3, <2>2
  <2>7. PICK a \in Action \ {None} : a = act[c]
    BY <1>4, <2>3
  <2>8. /\ a.quorum /\ a.pol # None /\ a.pol.c = c /\ act[c].quorum /\ act[c] # None
        /\ act[c].st \notin TERMINAL_ACTIONS /\ a.st \notin TERMINAL_ACTIONS
        /\ act[c].st = "submitted" <=> a.st = "submitted"
        /\ act[c].st = "submitted" => a.pol # None /\ tx'[a.pol].st \in onChain
        /\ act' = [act EXCEPT ![c] = a]
    BY <1>3, <2>3, <2>4, <2>5, <2>7
  <2>9. \A q \in Policies : q.c = c /\ ch[c].st = "open" /\ tx[q].st = "pending"
                                => a.pol = q /\ a.st = "broadcast"
    BY <2>4
  <2>10. QED
    BY <2>2, <2>5, <2>6, <2>8, <2>9, WaitStep
<1>11. QED
  BY <1>1, <1>7, <1>8, <1>9, <1>10 DEF Sign, goto, endPass, p

(* The rest of reconcileAction: the receipt is noted, or the same bytes go out again. *)
LEMMA SendKeeps ==
    ASSUME AgentAssumption, NoneIsNothing, AgentInv, NEW c \in Challenges, Send(c)
    PROVE  AgentInv'
<1> DEFINE p == act[c].pol
<1>1. /\ lock = c /\ pc = "send" /\ lock' = None
      /\ UNCHANGED <<ch, stake, epoch, head, sigs>>
  BY DEF Send, at, endPass, chainVars, signerVars
<1>2. BoardInv(c) /\ c # None /\ TransactionShape
  BY DEF AgentInv, AgentShape, AgentAssumption
<1>3. /\ act[c] # None /\ act[c].pol # None /\ act[c].st \notin TERMINAL_ACTIONS /\ act[c].quorum
      /\ p.c = c /\ p # None
  BY <1>1, <1>2 DEF BoardInv
<1>4. act[c] \in Action /\ p \in Policies
  BY <1>3 DEF AgentInv, AgentShape, Action
<1>5. \A q \in Policies : q.c = c /\ ch[c].st = "open" /\ tx[q].st = "pending" =>
          p = q /\ act[c].st = "broadcast"
  BY DEF AgentInv, PendingInv
<1>6. act[c].st = "submitted" => tx[p].st \in onChain
  BY <1>2, <1>3 DEF BoardInv
<1>7. act[c].pol = p
  OBVIOUS
<1>8. /\ {"submitted", "confirmed", "broadcast_reverted", "reorged", "broadcast"} \subseteq Statuses
      /\ {"confirmed", "broadcast_reverted"} \subseteq TERMINAL_ACTIONS
  BY DEF Statuses, TERMINAL_ACTIONS
<1> HIDE DEF p
<1>9. ASSUME NEW st \in Statuses, setStatus(c, st), UNCHANGED tx,
             st = "submitted" => tx[p].st \in onChain,
             act[c].st = "submitted" => st \in TERMINAL_ACTIONS \cup {"submitted"},
             tx[p].st = "pending" => st = "broadcast"
      PROVE  AgentInv'
  <2>1. TransactionShape' /\ \A q \in Policies : tx'[q].st = tx[q].st
    BY <1>2, <1>9 DEF TransactionShape
  <2>2. /\ st = "submitted" => act[c].pol # None /\ tx'[act[c].pol].st \in onChain
        /\ \A q \in Policies : q.c = c /\ ch[c].st = "open" /\ tx'[q].st = "pending"
                                  => act[c].pol = q /\ st = "broadcast"
    BY <1>3, <1>4, <1>5, <1>7, <1>9, <2>1 DEF onChain
  <2>3. QED
    BY <1>1, <1>3, <1>9, <2>1, <2>2, SetStatusStep
<1>10. CASE receiptState(p) \notin {"none", "reorged"} /\ setStatus(c, receiptState(p)) /\ UNCHANGED tx
  <2>1. /\ tx[p].st \in onChain /\ receiptState(p) \in {"submitted", "confirmed", "broadcast_reverted"}
    BY <1>10 DEF receiptState, onChain
  <2>2. QED
    BY <1>8, <1>9, <1>10, <2>1 DEF onChain
<1>11. CASE tx[p].st = "pending" /\ setStatus(c, "broadcast") /\ UNCHANGED tx
  BY <1>6, <1>8, <1>9, <1>11 DEF onChain
<1>12. CASE /\ tx[p].st \in {"signed", "orphaned"} /\ currentChallenge(c) # "ok"
            /\ setStatus(c, currentChallenge(c)) /\ UNCHANGED tx
  <2>1. currentChallenge(c) \in Statuses /\ currentChallenge(c) # "submitted"
    BY <1>12, CurrentChallenge DEF AgentInv, AgentShape, Statuses, RETRYABLE, TERMINAL_ACTIONS
  <2>2. QED
    BY <1>6, <1>9, <1>12, <2>1 DEF onChain
<1>13. CASE /\ tx[p].st \in {"signed", "orphaned"} /\ setStatus(c, "broadcast")
            /\ tx' = [tx EXCEPT ![p].st = "pending"]
  <2>1. "pending" \in TransactionStates
    BY DEF TransactionStates
  <2>2. /\ TransactionShape' /\ tx'[p].st = "pending"
        /\ \A q \in Policies : q # p => tx'[q].st = tx[q].st
    BY <1>2, <1>4, <1>13, <2>1, TransactionMoves
  <2>3. /\ act[c].st # "submitted"
        /\ \A q \in Policies : q.c = c /\ ch[c].st = "open" /\ tx'[q].st = "pending" => p = q
    BY <1>5, <1>6, <1>13, <2>2 DEF onChain
  <2>4. \A q \in Policies : q.c # c => tx'[q].st = tx[q].st
    BY <1>3, <2>2
  <2>5. QED
    BY <1>1, <1>3, <1>7, <1>8, <1>13, <2>2, <2>3, <2>4, SetStatusStep
<1>14. CASE tx[p].st = "orphaned" /\ setStatus(c, "reorged") /\ UNCHANGED tx
  BY <1>6, <1>8, <1>9, <1>14 DEF onChain
<1>15. CASE UNCHANGED <<act, ledger, tx>>
  BY <1>1, <1>15, PassMoves
<1>16. receiptState(p) = "reorged" => tx[p].st = "orphaned"
  BY DEF receiptState
<1>17. QED
  BY <1>10, <1>11, <1>12, <1>13, <1>14, <1>15, <1>16 DEF Send, p

-----------------------------------------------------------------------------
(* Signers, chain, runner and wallet owner. *)

(* A step outside the passes: no challenge opens again, no transaction starts on its way. *)
LEMMA OutsideStep ==
    ASSUME AgentAssumption, AgentInv, UNCHANGED <<act, ledger, lock, pc>>, AgentShape',
           \A c \in Challenges : /\ ch'[c].st = "none" => ch[c].st = "none"
                                 /\ ch'[c].st = "open" => ch[c].st \in {"open", "none"},
           \A p \in Policies : /\ tx[p].st \in onChain => tx'[p].st \in onChain
                               /\ tx'[p].st = "pending" => tx[p].st = "pending",
           stake' >= stake \/ PromisesBacked'
    PROVE  AgentInv'
<1>1. ASSUME NEW c \in Challenges PROVE BoardInv(c)'
  <2>1. BoardInv(c) /\ act[c] \in Action \cup {None} /\ act' = act /\ ledger' = ledger
    BY DEF AgentInv, AgentShape
  <2>2. act[c] # None /\ act[c].st = "submitted" =>
            act[c].pol # None /\ tx'[act[c].pol].st \in onChain
    <3> SUFFICES ASSUME act[c] # None, act[c].st = "submitted"
                 PROVE  act[c].pol # None /\ tx'[act[c].pol].st \in onChain
      OBVIOUS
    <3>1. act[c].pol # None /\ tx[act[c].pol].st \in onChain /\ act[c].pol \in Policies
      BY <2>1 DEF BoardInv, Action
    <3>2. QED
      BY <3>1
  <2>3. QED
    BY <2>1, <2>2 DEF BoardInv, onChain
<1>2. ASSUME NEW p \in Policies PROVE PendingInv(p)'
  BY PolicyOfChallenge DEF AgentInv, PendingInv
<1>3. PromisesBacked'
  <2>1. Promised' \subseteq Promised
    BY DEF Promised, AgentInv, BoardInv, AgentAssumption
  <2>2. QED
    BY <2>1, NothingPromised DEF AgentInv, AgentShape
<1>4. QED
  BY <1>1, <1>2, <1>3 DEF AgentInv

(* Nothing moves that the invariant is about, but what was signed. *)
LEMMA SignersKeep ==
    ASSUME AgentAssumption, AgentInv, UNCHANGED <<act, ledger, lock, pc, ch, stake, tx>>,
           epoch' \in Epochs, head' \in Int, sigs' \subseteq Signers \X Challenges \X Epochs
    PROVE  AgentInv'
<1>1. AgentShape'
  BY DEF AgentInv, AgentShape, TransactionShape
<1>2. QED
  BY <1>1, OutsideStep DEF AgentInv, AgentShape

(* The mined decision of a board is the one whose stake it has reserved. *)
LEMMA MineKeeps ==
    ASSUME AgentAssumption, NoneIsNothing, AgentInv, NEW p \in Policies, Mine(p)
    PROVE  AgentInv'
<1> DEFINE c == p.c
<1>1. /\ tx[p].st = "pending" /\ c \in Challenges /\ TransactionShape
      /\ UNCHANGED <<act, ledger, lock, pc, head, epoch, sigs>>
  BY PolicyOfChallenge DEF Mine, quietAgent, agentVars, signerVars, AgentInv, AgentShape
<1>2. /\ {"mined", "reverted"} \subseteq TransactionStates \cap onChain
      /\ "decided" \in ChallengeStates /\ "pending" \notin onChain
  BY DEF TransactionStates, onChain, ChallengeStates
<1>3. CASE resolveSucceeds(p)
  <2>1. /\ tx' = [tx EXCEPT ![p].st = "mined"]
        /\ ch' = [ch EXCEPT ![c].st = "decided"] /\ stake' = stake - 1
        /\ ch[c].st = "open"
    BY <1>3 DEF Mine, resolveSucceeds
  <2>2. /\ TransactionShape' /\ tx'[p].st = "mined"
        /\ \A q \in Policies : q # p => tx'[q].st = tx[q].st
    BY <1>1, <1>2, <2>1, TransactionMoves
  <2>3. /\ ch'[c].st = "decided" /\ \A d \in Challenges \ {c} : ch'[d] = ch[d]
        /\ ch' \in [Challenges -> [st : ChallengeStates, blk : Int]]
    BY <1>1, <1>2, <2>1 DEF AgentInv, AgentShape
  <2>4. AgentShape'
    BY <1>1, <2>1, <2>2, <2>3 DEF AgentInv, AgentShape
  <2>5. c \in Promised
    <3>1. act[c] # None /\ act[c].pol = p /\ act[c].st = "broadcast"
      BY <1>1, <2>1 DEF AgentInv, PendingInv
    <3>2. p # None /\ BoardInv(c) /\ "broadcast" \notin TERMINAL_ACTIONS
      BY <1>1 DEF AgentInv, NoneIsNothing, TERMINAL_ACTIONS
    <3>3. ledger[c] # None /\ ledger[c] # "onchain"
      BY <2>1, <3>1, <3>2 DEF BoardInv
    <3>4. QED
      BY <1>1, <2>1, <3>3 DEF Promised, AgentInv, AgentShape
  <2>6. Promised' = Promised \ {c}
    BY <1>1, <2>3 DEF Promised
  <2>7. IsFiniteSet(Promised)
    BY FS_Subset DEF Promised, AgentAssumption
  <2>8. IsFiniteSet(Promised') /\ Cardinality(Promised') = Cardinality(Promised) - 1
    BY <2>5, <2>6, <2>7, FS_RemoveElement
  <2>9. Cardinality(Promised) \in Nat /\ stake \in Int /\ Cardinality(Promised) <= stake
    BY <2>7, FS_CardinalityType DEF AgentInv, AgentShape, PromisesBacked, Promised
  <2>10. PromisesBacked'
    <3>1. Cardinality(Promised') <= stake'
      BY <2>1, <2>8, <2>9
    <3>2. QED
      BY <3>1 DEF PromisesBacked, Promised
  <2>11. /\ \A d \in Challenges : /\ ch'[d].st = "none" => ch[d].st = "none"
                                  /\ ch'[d].st = "open" => ch[d].st \in {"open", "none"}
         /\ \A q \in Policies : /\ tx[q].st \in onChain => tx'[q].st \in onChain
                                /\ tx'[q].st = "pending" => tx[q].st = "pending"
    BY <1>1, <1>2, <2>2, <2>3
  <2>12. QED
    BY <1>1, <2>4, <2>10, <2>11, OutsideStep
<1>4. CASE ~resolveSucceeds(p)
  <2>1. tx' = [tx EXCEPT ![p].st = "reverted"] /\ UNCHANGED <<ch, stake>>
    BY <1>4 DEF Mine
  <2>2. /\ TransactionShape' /\ tx'[p].st = "reverted"
        /\ \A q \in Policies : q # p => tx'[q].st = tx[q].st
    BY <1>1, <1>2, <2>1, TransactionMoves
  <2>3. AgentShape'
    BY <1>1, <2>1, <2>2 DEF AgentInv, AgentShape
  <2>4. /\ \A d \in Challenges : ch'[d] = ch[d]
        /\ \A q \in Policies : /\ tx[q].st \in onChain => tx'[q].st \in onChain
                               /\ tx'[q].st = "pending" => tx[q].st = "pending"
        /\ stake' >= stake
    BY <1>1, <1>2, <2>1, <2>2, <2>3 DEF AgentInv, AgentShape
  <2>5. QED
    BY <1>1, <2>3, <2>4, OutsideStep
<1>5. QED
  BY <1>3, <1>4

(* A transaction becomes final, or is forgotten by the network. *)
LEMMA TransactionKeeps ==
    ASSUME AgentAssumption, AgentInv, NEW p \in Policies, FinalizeTx(p) \/ DropTx(p)
    PROVE  AgentInv'
<1>1. /\ TransactionShape /\ UNCHANGED <<act, ledger, lock, pc, head, epoch, sigs, ch, stake>>
  BY DEF FinalizeTx, DropTx, quietAgent, agentVars, signerVars, chainVars, AgentInv, AgentShape
<1>2. PICK s \in TransactionStates \ {"pending"} :
         /\ tx' = [tx EXCEPT ![p].st = s]
         /\ tx[p].st \in onChain => s \in onChain
  <2>1. CASE FinalizeTx(p)
    <3> DEFINE s == IF tx[p].st = "mined" THEN "final" ELSE "failed"
    <3>1. s \in TransactionStates \ {"pending"} /\ s \in onChain
      BY DEF TransactionStates, onChain
    <3>2. tx' = [tx EXCEPT ![p].st = s]
      BY <2>1, <1>1 DEF FinalizeTx, TransactionShape
    <3>3. QED
      BY <3>1, <3>2
  <2>2. CASE DropTx(p)
    BY <2>2 DEF DropTx, TransactionStates, onChain
  <2>3. QED
    BY <2>1, <2>2
<1>3. /\ TransactionShape' /\ tx'[p].st = s
      /\ \A q \in Policies : q # p => tx'[q].st = tx[q].st
  BY <1>1, <1>2, TransactionMoves
<1>4. AgentShape'
  BY <1>1, <1>3 DEF AgentInv, AgentShape
<1>5. /\ \A d \in Challenges : ch'[d] = ch[d]
      /\ \A q \in Policies : /\ tx[q].st \in onChain => tx'[q].st \in onChain
                             /\ tx'[q].st = "pending" => tx[q].st = "pending"
      /\ stake' >= stake
  BY <1>1, <1>2, <1>3 DEF AgentInv, AgentShape
<1>6. QED
  BY <1>1, <1>4, <1>5, OutsideStep

(* A challenge opens once, and is closed, released, slashed or taken away. *)
LEMMA ChallengeKeeps ==
    ASSUME AgentAssumption, AgentInv, NEW c \in Challenges,
           Challenge(c) \/ CloseDispute(c) \/ Release(c) \/ Slash(c) \/ DeepReorg(c)
    PROVE  AgentInv'
<1>1. UNCHANGED <<act, ledger, lock, pc, head, epoch, sigs, tx>> /\ stake' \in {stake, stake + 1}
  BY DEF Challenge, CloseDispute, Release, Slash, DeepReorg, quietAgent, agentVars, signerVars
<1>2. /\ ch \in [Challenges -> [st : ChallengeStates, blk : Int]] /\ head \in Int /\ stake \in Int
  BY DEF AgentInv, AgentShape
<1>3. PICK s \in {"open", "closed", "settled", "gone"}, n \in Int :
         /\ ch' = [ch EXCEPT ![c] = [st |-> s, blk |-> n]]
         /\ s = "open" => ch[c].st = "none"
  <2>1. CASE Challenge(c)
    <3>1. ch' = [ch EXCEPT ![c] = [st |-> "open", blk |-> head + 1]] /\ ch[c].st = "none"
      BY <2>1 DEF Challenge
    <3>2. "open" \in {"open", "closed", "settled", "gone"} /\ head + 1 \in Int
      BY <1>2
    <3>3. QED
      BY <3>1, <3>2
  <2>2. ASSUME NEW s \in {"closed", "settled", "gone"}, ch' = [ch EXCEPT ![c].st = s]
        PROVE  ch' = [ch EXCEPT ![c] = [st |-> s, blk |-> ch[c].blk]] /\ ch[c].blk \in Int
    <3>1. ch[c] \in [st : ChallengeStates, blk : Int]
      BY <1>2
    <3>2. ch[c].blk \in Int /\ [ch[c] EXCEPT !.st = s] = [st |-> s, blk |-> ch[c].blk]
      BY <3>1
    <3>3. ch' = [ch EXCEPT ![c] = [ch[c] EXCEPT !.st = s]]
      BY <2>2
    <3>4. QED
      BY <3>2, <3>3
  <2>3. CASE CloseDispute(c)
    BY <2>2, <2>3 DEF CloseDispute
  <2>4. CASE Release(c) \/ Slash(c)
    BY <2>2, <2>4 DEF Release, Slash
  <2>5. CASE DeepReorg(c)
    BY <2>2, <2>5 DEF DeepReorg
  <2>6. QED
    BY <2>1, <2>3, <2>4, <2>5
<1>4. /\ ch'[c].st = s /\ \A d \in Challenges \ {c} : ch'[d] = ch[d]
      /\ ch' \in [Challenges -> [st : ChallengeStates, blk : Int]]
  BY <1>2, <1>3 DEF ChallengeStates
<1>5. AgentShape'
  BY <1>1, <1>2, <1>4 DEF AgentInv, AgentShape, TransactionShape
<1>6. /\ \A d \in Challenges : /\ ch'[d].st = "none" => ch[d].st = "none"
                               /\ ch'[d].st = "open" => ch[d].st \in {"open", "none"}
      /\ \A q \in Policies : tx'[q] = tx[q]
      /\ stake' >= stake
  BY <1>1, <1>2, <1>3, <1>4
<1>7. QED
  BY <1>1, <1>5, <1>6, OutsideStep

LEMMA AgentInvInit == ASSUME AgentAssumption, NoneIsNothing, Init PROVE AgentInv
<1>1. AgentShape
  <2>1. tx = [p \in Policies |-> [st |-> "none", nonce |-> 0]]
    BY DEF Init
  <2>2. TransactionShape
    BY <2>1 DEF TransactionShape, TransactionStates
  <2>3. QED
    BY <2>2 DEF Init, AgentShape, ChallengeStates, Epochs, AgentAssumption
<1>2. \A c \in Challenges : BoardInv(c)
  BY DEF Init, BoardInv, AgentAssumption
<1>3. \A p \in Policies : PendingInv(p)
  BY DEF Init, PendingInv
<1>4. PromisesBacked
  <2>1. Promised = {}
    BY DEF Init, Promised, AgentAssumption
  <2>2. Cardinality(Promised) = 0 /\ stake >= 0
    BY <2>1, FS_EmptySet DEF Init, AgentAssumption
  <2>3. QED
    BY <2>2 DEF PromisesBacked, Promised
<1>5. QED
  BY <1>1, <1>2, <1>3, <1>4 DEF AgentInv

LEMMA AgentInvStep ==
    ASSUME AgentAssumption, NoneIsNothing, OwnDecisionsStay, AgentInv, [Next]_vars
    PROVE  AgentInv'
<1>1. ASSUME NEW c \in Challenges, BeginPass(c) \/ Pass(c) \/ ScanCrash(c) PROVE AgentInv'
  <2>1. CASE persistCursor(c)
    <3>1. /\ lock' = lock /\ pc' \notin {"sign", "send"}
          /\ UNCHANGED <<act, ledger, ch, stake, epoch, head, sigs, tx>>
      BY <2>1 DEF persistCursor, goto, signerVars
    <3>2. QED
      BY <3>1, PassMoves
  <2>2. QED
    BY <1>1, <2>1, BeginPassKeeps, ScanKeeps, ReconcileKeeps, SignKeeps, SendKeeps DEF Pass
<1>2. CASE Crash
  <2>1. lock' = None /\ UNCHANGED <<act, ledger, ch, stake, epoch, head, sigs, tx>>
    BY <1>2 DEF Crash, endPass, chainVars, signerVars, agentVars
  <2>2. QED
    BY <2>1, PassMoves
<1>3. ASSUME NEW s \in Signers, NEW c \in Challenges, NEW e \in Epochs,
             Authorize(s, c, e) \/ SignDecision(s, c, e)
      PROVE  AgentInv'
  <2>1. /\ UNCHANGED <<act, ledger, lock, pc, ch, stake, tx, epoch, head>>
        /\ sigs' \in {sigs, sigs \cup {<<s, c, e>>}}
    BY <1>3 DEF Authorize, SignDecision, chainVars, agentVars
  <2>2. QED
    BY <2>1, SignersKeep DEF AgentInv, AgentShape
<1>4. CASE AdvanceBlock \/ LiftHold \/ RotateSigners \/ \E h \in {"paused", "unbound"} : SetHold(h)
  <2>1. /\ UNCHANGED <<act, ledger, lock, pc, ch, stake, tx, sigs>>
        /\ head' \in {head, head + 1} /\ (epoch' = epoch \/ (epoch < MaxEpoch /\ epoch' = epoch + 1))
    BY <1>4 DEF AdvanceBlock, LiftHold, RotateSigners, SetHold, quietAgent, agentVars, signerVars
  <2>2. head' \in Int /\ epoch' \in Epochs
    BY <2>1 DEF AgentInv, AgentShape, Epochs, AgentAssumption
  <2>3. QED
    BY <2>1, <2>2, SignersKeep DEF AgentInv, AgentShape
<1>5. ASSUME NEW c \in Challenges,
             \/ Challenge(c) \/ CloseDispute(c) \/ PublishTranscript(c) \/ Release(c) \/ Slash(c)
             \/ RelayElsewhere(c) \/ DeepReorg(c)
             \/ \E t \in Evidence : DeliverTranscript(c, t)
      PROVE  AgentInv'
  <2>1. ~RelayElsewhere(c)
    BY DEF RelayElsewhere, fault, OwnDecisionsStay
  <2>2. CASE PublishTranscript(c) \/ \E t \in Evidence : DeliverTranscript(c, t)
    <3>1. UNCHANGED <<act, ledger, lock, pc, ch, stake, tx, epoch, head, sigs>>
      BY <2>2 DEF PublishTranscript, DeliverTranscript, quietAgent, agentVars, signerVars, chainVars
    <3>2. QED
      BY <3>1, SignersKeep DEF AgentInv, AgentShape
  <2>3. QED
    BY <1>5, <2>1, <2>2, ChallengeKeeps
<1>6. ASSUME NEW p \in Policies,
             Provision(p) \/ Mine(p) \/ FinalizeTx(p) \/ DropTx(p) \/ ReorgTx(p)
      PROVE  AgentInv'
  <2>1. ~ReorgTx(p)
    BY DEF ReorgTx, fault, OwnDecisionsStay
  <2>2. CASE Provision(p)
    <3>1. UNCHANGED <<act, ledger, lock, pc, ch, stake, tx, epoch, head, sigs>>
      BY <2>2 DEF Provision, quietAgent, agentVars, signerVars
    <3>2. QED
      BY <3>1, SignersKeep DEF AgentInv, AgentShape
  <2>3. QED
    BY <1>6, <2>1, <2>2, MineKeeps, TransactionKeeps
<1>7. CASE UNCHANGED vars
  <2>1. UNCHANGED <<act, ledger, lock, pc, ch, stake, tx, epoch, head, sigs>>
    BY <1>7 DEF vars, agentVars, signerVars, chainVars
  <2>2. QED
    BY <2>1, SignersKeep DEF AgentInv, AgentShape
<1>8. QED
  BY <1>1, <1>2, <1>3, <1>4, <1>5, <1>6, <1>7 DEF Next

(* The inductive invariant of the resolvers' boards: action, ledger entry and transactions
   agree, and what is promised is there (resolver.mjs:1083-1190, :1545-1570). *)
THEOREM AgentInvariant ==
    AgentAssumption /\ NoneIsNothing /\ OwnDecisionsStay => (Spec => []AgentInv)
<1> SUFFICES ASSUME AgentAssumption, NoneIsNothing, OwnDecisionsStay PROVE Spec => []AgentInv
  OBVIOUS
<1>1. Init => AgentInv
  BY AgentInvInit
<1>2. AgentInv /\ [Next]_vars => AgentInv'
  BY AgentInvStep
<1>3. QED
  BY <1>1, <1>2, PTL DEF Spec

(* The shared stake covers every decision that is promised and not yet on chain, for any
   boards and any crashes, pauses, rotations, slashes, lost transactions and vanished
   challenges (sharedReservedStakeWei, currentChallenge). *)
THEOREM PromisesAlwaysBacked ==
    AgentAssumption /\ NoneIsNothing /\ OwnDecisionsStay => (Spec => []PromisesBacked)
<1>1. AgentInv => PromisesBacked
  BY DEF AgentInv
<1>2. QED
  BY <1>1, AgentInvariant, PTL

-----------------------------------------------------------------------------
(* A signature rests on the one authorization its signer has for the challenge. *)
SignerInv ==
    /\ auth \in [Signers -> [Challenges -> Epochs \cup {0}]]
    /\ \A s \in Signers, c \in Challenges, e \in Epochs : <<s, c, e>> \in sigs => auth[s][c] = e

(* No signer signs two packets of one challenge, over any rotations and whatever happens
   between authorization and signature (persistSignerAuthorization); nothing is assumed. *)
THEOREM NeverEquivocates == Spec => []NoEquivocation
<1>1. Init => SignerInv
  BY DEF Init, SignerInv
<1>2. SignerInv /\ [Next]_vars => SignerInv'
  <2> SUFFICES ASSUME SignerInv, [Next]_vars PROVE SignerInv'
    OBVIOUS
  <2>1. ASSUME NEW s \in Signers, NEW c \in Challenges, NEW e \in Epochs, Authorize(s, c, e)
        PROVE  SignerInv'
    <3>1. /\ auth[s][c] = 0 /\ auth' = [auth EXCEPT ![s][c] = e] /\ UNCHANGED sigs
          /\ 0 \notin Epochs
      BY <2>1 DEF Authorize, mayAuthorize, Epochs
    <3>2. auth' = [r \in Signers |-> [d \in Challenges |->
                      IF r = s /\ d = c THEN e ELSE auth[r][d]]]
      BY <3>1 DEF SignerInv
    <3>3. QED
      BY <3>1, <3>2 DEF SignerInv
  <2>2. ASSUME NEW s \in Signers, NEW c \in Challenges, NEW e \in Epochs, SignDecision(s, c, e)
        PROVE  SignerInv'
    BY <2>2 DEF SignDecision, SignerInv
  <2>3. CASE UNCHANGED <<auth, sigs>>
    BY <2>3 DEF SignerInv
  <2>4. QED
    <3>1. CASE UNCHANGED vars
      BY <2>3, <3>1 DEF vars, signerVars
    <3>2. ASSUME NEW c \in Challenges, BeginPass(c) \/ Pass(c) \/ ScanCrash(c)
          PROVE  UNCHANGED <<auth, sigs>>
      BY <3>2 DEF BeginPass, Pass, ScanCrash, Scan, persistCursor, Reconcile, Sign, Send, signerVars
    <3>3. CASE Crash \/ AdvanceBlock \/ LiftHold \/ RotateSigners
               \/ \E h \in {"paused", "unbound"} : SetHold(h)
      BY <2>3, <3>3 DEF Crash, AdvanceBlock, LiftHold, RotateSigners, SetHold, quietAgent, signerVars
    <3>4. ASSUME NEW c \in Challenges,
                 \/ Challenge(c) \/ CloseDispute(c) \/ PublishTranscript(c) \/ Release(c)
                 \/ Slash(c) \/ RelayElsewhere(c) \/ DeepReorg(c)
                 \/ \E t \in Evidence : DeliverTranscript(c, t)
          PROVE  UNCHANGED <<auth, sigs>>
      BY <3>4 DEF Challenge, CloseDispute, PublishTranscript, Release, Slash, RelayElsewhere,
                  DeepReorg, DeliverTranscript, quietAgent, signerVars
    <3>5. ASSUME NEW p \in Policies,
                 Provision(p) \/ Mine(p) \/ FinalizeTx(p) \/ DropTx(p) \/ ReorgTx(p)
          PROVE  UNCHANGED <<auth, sigs>>
      BY <3>5 DEF Provision, Mine, FinalizeTx, DropTx, ReorgTx, quietAgent, signerVars
    <3>6. QED
      BY <2>1, <2>2, <2>3, <3>1, <3>2, <3>3, <3>4, <3>5 DEF Next
<1>3. SignerInv => NoEquivocation
  <2> SUFFICES ASSUME SignerInv, NEW s \in Signers, NEW c \in Challenges
               PROVE  Cardinality({e \in Epochs : <<s, c, e>> \in sigs}) <= 1
    BY DEF NoEquivocation
  <2> DEFINE E == {e \in Epochs : <<s, c, e>> \in sigs}
  <2>1. E \in SUBSET {auth[s][c]}
    BY DEF SignerInv
  <2>2. IsFiniteSet({auth[s][c]}) /\ Cardinality({auth[s][c]}) = 1
    BY FS_Singleton
  <2>3. Cardinality(E) <= 1
    BY <2>1, <2>2, FS_Subset
  <2>4. QED
    BY <2>3
<1>4. QED
  BY <1>1, <1>2, <1>3, PTL DEF Spec
=============================================================================
