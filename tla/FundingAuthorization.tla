------------------------ MODULE FundingAuthorization ------------------------
(***************************************************************************)
(* The OPEN-to-PAID gate of P42SubmissionManager: a treasury-submitted     *)
(* authorization that carries three role signatures, an owner-side cancel  *)
(* and the one-way armFunding switch.  `signed' is the set of EIP-712      *)
(* messages the three off-chain authorities have signed; a signature never *)
(* disappears, so any of them may be presented late.                       *)
(***************************************************************************)
EXTENDS PayoutLedger

CONSTANTS
    Digests,                  \* launch authorization digests
    NoDigest,                 \* bytes32(0)
    Authorities,              \* launch, security and governance signers
    AuthorizationExpiries,    \* expiry instants the signers may choose
    MaxNonce,                 \* bound on the authorization nonce, for TLC only
    ObjectiveProofsActive,    \* objectiveProofCapabilityActive(), fixed by the verifier's code
    armNotBefore,             \* deployedAt + challengeWindowSeconds
    GateStarts                \* which reachable gate states a run starts from

GateStates == {"fresh", "authorized", "armed"}

ASSUME GateAssumption ==
    /\ NoDigest \notin Digests
    /\ AuthorizationExpiries \subseteq Nat
    /\ MaxNonce \in Nat
    /\ ObjectiveProofsActive \in BOOLEAN
    /\ armNotBefore \in Nat
    /\ GateStarts \subseteq GateStates
    /\ ~ObjectiveProofsActive => GateStarts \subseteq {"fresh"}

VARIABLES
    authorizedFundingDigest, fundingAuthorizationExpiresAt,
    fundingAuthorizationNonce,
    fundingArmed, fundingAuthorizationDigest,
    signed

gateVars == <<authorizedFundingDigest, fundingAuthorizationExpiresAt,
              fundingAuthorizationNonce, fundingArmed,
              fundingAuthorizationDigest, signed>>

Messages == [role : Authorities, digest : Digests,
             expiresAt : AuthorizationExpiries, nonce : 0..MaxNonce]

(* The signatures authorizeFunding(digest, expiresAt, nonce) must present. *)
signatures(digest, expiresAt, nonce) ==
    [role : Authorities, digest : {digest}, expiresAt : {expiresAt}, nonce : {nonce}]

(* A run starts from the deployed gate, or from a board on which the ceremony
   has gone through and nothing else has happened yet. *)
GateInit ==
    \/ /\ "fresh" \in GateStarts
       /\ authorizedFundingDigest = NoDigest
       /\ fundingAuthorizationExpiresAt = 0
       /\ fundingAuthorizationNonce = 0
       /\ fundingArmed = FALSE
       /\ fundingAuthorizationDigest = NoDigest
       /\ signed = {}
    \/ \E digest \in Digests, expiresAt \in AuthorizationExpiries :
         /\ authorizedFundingDigest = digest
         /\ fundingAuthorizationExpiresAt = expiresAt
         /\ fundingAuthorizationNonce = 1
         /\ signed = signatures(digest, expiresAt, 0)
         /\ \/ /\ "authorized" \in GateStarts
               /\ fundingArmed = FALSE /\ fundingAuthorizationDigest = NoDigest
            \/ /\ "armed" \in GateStarts
               /\ fundingArmed = TRUE /\ fundingAuthorizationDigest = digest

GateTypeOK ==
    /\ authorizedFundingDigest \in Digests \cup {NoDigest}
    /\ fundingAuthorizationExpiresAt \in Nat
    /\ fundingAuthorizationNonce \in Nat
    /\ fundingArmed \in BOOLEAN
    /\ fundingAuthorizationDigest \in Digests \cup {NoDigest}
    /\ signed \subseteq Messages

-----------------------------------------------------------------------------
(* An authority signs a message off-chain. *)
sign(message) ==
    /\ message \in Messages \ signed
    /\ signed' = signed \cup {message}
    /\ UNCHANGED <<authorizedFundingDigest, fundingAuthorizationExpiresAt,
                   fundingAuthorizationNonce, fundingArmed, fundingAuthorizationDigest>>

authorizationActive ==
    authorizedFundingDigest # NoDigest /\ now <= fundingAuthorizationExpiresAt

(* Each authorization and each cancel spends the current nonce. *)
freshNonce(nonce) == nonce = fundingAuthorizationNonce

(* Called by the treasury. *)
authorizeFunding(digest, expiresAt, nonce) ==
    /\ ObjectiveProofsActive
    /\ ~fundingArmed
    /\ ~authorizationActive
    /\ now <= expiresAt
    /\ freshNonce(nonce)
    /\ signatures(digest, expiresAt, nonce) \subseteq signed
    /\ fundingAuthorizationNonce' = nonce + 1
    /\ authorizedFundingDigest' = digest
    /\ fundingAuthorizationExpiresAt' = expiresAt
    /\ UNCHANGED <<fundingArmed, fundingAuthorizationDigest, signed>>

(* Called by the owner. *)
cancelFundingAuthorization(digest) ==
    /\ ~fundingArmed
    /\ digest = authorizedFundingDigest
    /\ authorizationActive
    /\ authorizedFundingDigest' = NoDigest
    /\ fundingAuthorizationExpiresAt' = 0
    /\ fundingAuthorizationNonce' = fundingAuthorizationNonce + 1
    /\ UNCHANGED <<fundingArmed, fundingAuthorizationDigest, signed>>

(* Called by the owner. *)
armFunding(digest) ==
    /\ ObjectiveProofsActive
    /\ ~fundingArmed
    /\ digest # NoDigest /\ digest = authorizedFundingDigest
    /\ now <= fundingAuthorizationExpiresAt
    /\ now >= armNotBefore
    /\ fundingArmed' = TRUE
    /\ fundingAuthorizationDigest' = digest
    /\ UNCHANGED <<authorizedFundingDigest, fundingAuthorizationExpiresAt,
                   fundingAuthorizationNonce, signed>>

-----------------------------------------------------------------------------
(* Whatever was authorized, cancelled or left to expire before, the digest that
   stands, and the one that armed funding, carries the signature of every
   authority over that digest, that expiry and the nonce it spent
   (authorizeFunding, armFunding). *)
ArmedBySignatures ==
    /\ authorizedFundingDigest # NoDigest =>
         \A authority \in Authorities :
             [role |-> authority, digest |-> authorizedFundingDigest,
              expiresAt |-> fundingAuthorizationExpiresAt,
              nonce |-> fundingAuthorizationNonce - 1] \in signed
    /\ fundingArmed =>
         /\ fundingAuthorizationDigest # NoDigest
         /\ fundingAuthorizationDigest = authorizedFundingDigest

(* No signature is good twice: an authorization that takes effect uses
   signatures over a nonce no authorization or cancel has spent before, and
   nonces only grow.  A cancelled or expired set is dead for good. *)
SignaturesSpentOnce ==
    [][/\ fundingAuthorizationNonce' >= fundingAuthorizationNonce
       /\ UNCHANGED fundingAuthorizationNonce
            => UNCHANGED <<authorizedFundingDigest, fundingAuthorizationExpiresAt>>
       /\ authorizedFundingDigest' # NoDigest /\ fundingAuthorizationNonce' # fundingAuthorizationNonce
            => \A authority \in Authorities :
                 \E m \in signed : m.role = authority /\ m.nonce = fundingAuthorizationNonce]_gateVars

(* Arming is one-way: no cancel, expiry or later authorization touches an armed
   gate, so the OPEN phase never comes back under a paid submission. *)
ArmedForGood ==
    [][fundingArmed => UNCHANGED <<authorizedFundingDigest, fundingAuthorizationExpiresAt,
                                   fundingAuthorizationNonce, fundingArmed,
                                   fundingAuthorizationDigest>>]_gateVars
=============================================================================
