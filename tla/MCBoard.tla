------------------------------ MODULE MCBoard ------------------------------
(**************************************************************************)
(* Small boards for TLC: the configurations choose the actors, the gate   *)
(* the run starts from and the switches the owner uses.  A behaviour runs *)
(* one part, chosen in the initial state: the board with its indexer, or  *)
(* the pool and the ledger below an abstract credit recorder, which       *)
(* credits several solvers in any amounts.                                *)
(**************************************************************************)
EXTENDS IndexedBoard

CONSTANT Parts

VARIABLE part  \* the part this behaviour runs

MCInit == IndexedInit /\ part \in Parts

MCNext ==
    \/ part = "board" /\ IndexedNext /\ UNCHANGED part
    \/ /\ part = "settlement" /\ SettlementNext
       /\ UNCHANGED <<part, managerVars, disputeVars, finalizedAt, replay, duplicateRejected>>

MCSpec == MCInit /\ [][MCNext]_<<indexerVars, part>>

Symmetry == Permutations(Actors) \cup Permutations(Cids)

(* The replayed log rebuilds the board (replay and compareReplayToSnapshot); the abstract
   recorder of the other part emits no events. *)
BoardReplayRebuilds == part = "board" => ReplayRebuilds
=============================================================================
