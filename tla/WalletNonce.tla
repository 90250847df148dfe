----------------------------- MODULE WalletNonce -----------------------------
(***************************************************************************)
(* The durable nonce allocator of one chain and one session wallet         *)
(* (agent/wallet-nonce-coordinator.mjs and the operator's own copy of it). *)
(* Every runtime that signs with the wallet keeps its allocations in one   *)
(* journal, which it reads, changes and replaces atomically while it holds *)
(* the wallet lock of module OwnerLock.                                    *)
(*                                                                         *)
(* A signed transaction is named by its action and its nonce: the record   *)
(* file of an action is written once, so it has no second hash.  The       *)
(* journal's observed_* counters are written and never read; they are left *)
(* out.                                                                    *)
(***************************************************************************)
EXTENDS Naturals, FiniteSets

CONSTANTS Actions   \* wallet actions, one for each candidate and call policy

VARIABLES allocations,  \* the journal's rows
          next_nonce    \* the lowest nonce never allocated

nonceVars == <<allocations, next_nonce>>

States == {"reserved", "signed", "broadcast", "fenced"}
Allocation == [action_id : Actions, nonce : Nat, state : States]

maxOf(x, y) == IF x >= y THEN x ELSE y

NonceInit == allocations = {} /\ next_nonce = 0

\* A journal with a nonce given twice, or one at or above next_nonce, is refused.
validateJournal(rows, next) ==
    /\ \A x, y \in rows : x.nonce = y.nonce => x = y
    /\ \A x \in rows : x.nonce < next

rowsOf(a) == {x \in allocations : x.action_id = a}
rowOf(a, n) == {x \in rowsOf(a) : x.nonce = n}
reservedOf(a) == {x \in rowsOf(a) : x.state = "reserved"}
belongsToAnother(a, n) == \E x \in allocations : x.nonce = n /\ x.action_id # a

withState(x, s) == [x EXCEPT !.state = s]
setState(rows, s) == (allocations \ rows) \cup {withState(x, s) : x \in rows}

\* A reservation is used again unless the chain has moved past it.
reusable(a, finalized, pending) ==
    {x \in reservedOf(a) : x.nonce >= finalized /\ x.nonce >= pending}

\* Mutant: the allocator trusts the chain alone and forgets what it handed out.
freshNonceFromChain(finalized, pending) == maxOf(finalized, pending)

\* The nonce a new reservation gets: nobody's yet, and free on every chain view.
freshNonce(finalized, pending) == maxOf(next_nonce, maxOf(finalized, pending))

\* reserveWalletNonceLocked without a signed record.
reserveNonce(a, finalized, pending) ==
    \/ /\ reusable(a, finalized, pending) # {}
       /\ UNCHANGED nonceVars
    \/ /\ reusable(a, finalized, pending) = {}
       /\ LET n == freshNonce(finalized, pending)
          IN /\ allocations' = setState(reservedOf(a), "fenced")
                               \cup {[action_id |-> a, nonce |-> n, state |-> "reserved"]}
             /\ next_nonce' = maxOf(n + 1, next_nonce)

\* reserveWalletNonceLocked with one: its nonce is taken, whatever the chain says.
recoverNonce(a, n) ==
    /\ ~belongsToAnother(a, n)
    /\ allocations' = IF rowOf(a, n) = {}
                      THEN allocations \cup {[action_id |-> a, nonce |-> n, state |-> "signed"]}
                      ELSE setState({x \in rowOf(a, n) : x.state = "reserved"}, "signed")
    /\ next_nonce' = maxOf(next_nonce, n + 1)

\* Signed bytes need a reservation that is still good.
activeRow(a, n) == \E x \in rowOf(a, n) : x.state # "fenced"

recordSigned(a, n) ==
    /\ activeRow(a, n)
    /\ allocations' = setState({x \in rowOf(a, n) : x.state # "broadcast"}, "signed")
    /\ UNCHANGED next_nonce

recordBroadcast(a, n) ==
    /\ activeRow(a, n)
    /\ allocations' = setState(rowOf(a, n), "broadcast")
    /\ UNCHANGED next_nonce

\* walletNonceBroadcastDecisionLocked: somebody else has used the nonce.
advanced(n, finalized, pending) == finalized > n \/ pending > n

fence(a, n) ==
    /\ activeRow(a, n)
    /\ allocations' = setState(rowOf(a, n), "fenced")
    /\ UNCHANGED next_nonce
=============================================================================
