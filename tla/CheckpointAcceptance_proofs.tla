--------------------- MODULE CheckpointAcceptance_proofs ---------------------
(***************************************************************************)
(* The high-water gate keeps its promises for any number of portals, any   *)
(* set of checkpoints, any clock and any interference with the database:   *)
(* the accepted history only advances, a chain that was left never comes   *)
(* back, what a portal serves is in the history and not older than what    *)
(* was accepted when its request began, and is served in time.             *)
(*                                                                         *)
(* The argument: the newest acceptance is of the newest identity, so a     *)
(* transition that is compared with that one row is ordered after the      *)
(* whole history, and the history is ordered pairwise by induction.        *)
(***************************************************************************)
EXTENDS CheckpointAcceptance, SequenceTheorems, TLAPS

Identities == {c.identity : c \in Checkpoints}
Acceptance == [epoch : Nat \ {0}, checkpoint : Checkpoints]

\* An acceptance names its epoch, and the newest one the newest epoch.
EpochsNamed ==
    /\ Len(epochs) = 0 <=> Len(acceptances) = 0
    /\ \A i \in DOMAIN acceptances :
         /\ acceptances[i].epoch \in DOMAIN epochs
         /\ epochs[acceptances[i].epoch] = acceptances[i].checkpoint.identity
    /\ Len(acceptances) > 0 => CurrentAcceptance.epoch = Len(epochs)

\* No identity is accepted twice.
EpochsDistinct ==
    \A d, e \in DOMAIN epochs : epochs[d] = epochs[e] => d = e

\* A request was answered from a fresh snapshot, in a history that has only grown since.
RequestsFresh ==
    \A p \in Portals : request[p].pc # "idle" =>
        LET c == request[p].snapshot
            t == request[p].loadedAt
        IN /\ request[p].floor <= Len(acceptances)
           /\ t <= clock /\ clock <= t + GateTimeout
           /\ t - c.time <= MaxAge
           /\ request[p].funding => t <= c.expiresAt /\ t < fundingDeadline

AcceptanceInv ==
    /\ TypeOK
    /\ EpochsNamed
    /\ EpochsDistinct
    /\ HistoryAdvances
    /\ RequestsFresh
    /\ ServedIsCurrent

-----------------------------------------------------------------------------
(* Appending to a history keeps what is there and puts the new row at the end. *)
LEMMA AppendToHistory ==
    ASSUME NEW S, NEW s \in Seq(S), NEW e \in S
    PROVE  /\ Append(s, e) \in Seq(S)
           /\ Len(s) \in Nat
           /\ Len(Append(s, e)) = Len(s) + 1
           /\ DOMAIN s = 1..Len(s)
           /\ DOMAIN Append(s, e) = 1..(Len(s) + 1)
           /\ \A i \in 1..Len(s) : Append(s, e)[i] = s[i]
           /\ Append(s, e)[Len(s) + 1] = e
  BY AppendProperties, LenProperties

(* An empty history. *)
LEMMA AcceptanceInvInit == Init => AcceptanceInv
<1> SUFFICES ASSUME Init
             PROVE  AcceptanceInv
  OBVIOUS
<1> USE DEF Init
<1>1. epochs = << >> /\ acceptances = << >> /\ DOMAIN epochs = {} /\ DOMAIN acceptances = {}
  OBVIOUS
<1>2. TypeOK
  BY EmptySeq DEF TypeOK
<1>3. EpochsNamed /\ EpochsDistinct /\ HistoryAdvances
  BY <1>1 DEF EpochsNamed, EpochsDistinct, HistoryAdvances, ChainLeftForGood
<1>4. RequestsFresh /\ ServedIsCurrent
  BY DEF RequestsFresh, ServedIsCurrent, NoRequest
<1>5. QED
  BY <1>2, <1>3, <1>4 DEF AcceptanceInv

-----------------------------------------------------------------------------
(* The rows before the newest one precede it; the newest one is of the present identity. *)
LEMMA NewestIsLast ==
    ASSUME AcceptanceInv, Len(epochs) > 0
    PROVE  /\ Len(acceptances) \in DOMAIN acceptances
           /\ CurrentAcceptance.checkpoint \in Checkpoints
           /\ CurrentAcceptance.checkpoint.identity = CurrentIdentity
           /\ \A i \in DOMAIN acceptances :
                i = Len(acceptances) \/ Precedes(acceptances[i], CurrentAcceptance)
<1>1. acceptances \in Seq(Acceptance) /\ DOMAIN acceptances = 1..Len(acceptances)
      /\ Len(acceptances) \in Nat /\ Len(epochs) \in Nat
  BY DEF AcceptanceInv, TypeOK, Acceptance
<1>2. Len(acceptances) \in DOMAIN acceptances
  BY <1>1 DEF AcceptanceInv, EpochsNamed
<1>3. CurrentAcceptance \in Acceptance
  BY <1>1, <1>2 DEF CurrentAcceptance
<1>4. CurrentAcceptance.checkpoint.identity = CurrentIdentity
  BY <1>1, <1>2 DEF AcceptanceInv, EpochsNamed, CurrentAcceptance, CurrentIdentity
<1>5. ASSUME NEW i \in DOMAIN acceptances, i # Len(acceptances)
      PROVE  Precedes(acceptances[i], CurrentAcceptance)
  <2>1. i < Len(acceptances)
    BY <1>1, <1>5
  <2>2. QED
    BY <1>2, <1>5, <2>1 DEF AcceptanceInv, HistoryAdvances, CurrentAcceptance
<1>6. QED
  BY <1>2, <1>3, <1>4, <1>5 DEF Acceptance

(* A row that every old row precedes, and whose chain is the newest row's or a new one,
   keeps the history ordered. *)
LEMMA OrderedAppend ==
    ASSUME AcceptanceInv, NEW n \in Acceptance,
           \A i \in DOMAIN acceptances : Precedes(acceptances[i], n),
           \/ /\ Len(acceptances) > 0
              /\ sameChain(CurrentAcceptance.checkpoint.identity, n.checkpoint)
           \/ \A i \in DOMAIN acceptances : ~sameChain(acceptances[i].checkpoint.identity, n.checkpoint),
           acceptances' = Append(acceptances, n)
    PROVE  HistoryAdvances'
<1> DEFINE L == Len(acceptances)
<1>1. /\ L \in Nat /\ DOMAIN acceptances = 1..L /\ DOMAIN acceptances' = 1..(L + 1)
      /\ \A i \in 1..L : acceptances'[i] = acceptances[i]
      /\ acceptances'[L + 1] = n
  BY AppendToHistory DEF AcceptanceInv, TypeOK, Acceptance
<1>2. \A i, j \in DOMAIN acceptances' : i < j => Precedes(acceptances'[i], acceptances'[j])
  <2> SUFFICES ASSUME NEW i \in 1..(L + 1), NEW j \in 1..(L + 1), i < j
               PROVE  Precedes(acceptances'[i], acceptances'[j])
    BY <1>1
  <2>1. i \in 1..L /\ acceptances'[i] = acceptances[i]
    BY <1>1
  <2>2. CASE j = L + 1
    BY <1>1, <2>1, <2>2
  <2>3. CASE j # L + 1
    <3>1. j \in 1..L /\ acceptances'[j] = acceptances[j]
      BY <1>1, <2>3
    <3>2. QED
      BY <1>1, <2>1, <3>1 DEF AcceptanceInv, HistoryAdvances
  <2>4. QED
    BY <2>2, <2>3
<1>3. ChainLeftForGood'
  <2> SUFFICES ASSUME NEW i \in 1..(L + 1), NEW j \in 1..(L + 1), NEW k \in 1..(L + 1), i < j, j < k,
                      sameChain(acceptances'[i].checkpoint.identity, acceptances'[k].checkpoint)
               PROVE  sameChain(acceptances'[i].checkpoint.identity, acceptances'[j].checkpoint)
    BY <1>1 DEF ChainLeftForGood
  <2>1. /\ i \in 1..L /\ acceptances'[i] = acceptances[i]
        /\ j \in 1..L /\ acceptances'[j] = acceptances[j]
    BY <1>1
  <2>2. CASE k # L + 1
    <3>1. k \in 1..L /\ acceptances'[k] = acceptances[k]
      BY <1>1, <2>2
    <3>2. QED
      BY <1>1, <2>1, <3>1 DEF AcceptanceInv, HistoryAdvances, ChainLeftForGood
  <2>3. CASE k = L + 1
    <3>1. sameChain(acceptances[i].checkpoint.identity, n.checkpoint)
      BY <1>1, <2>1, <2>3
    <3>2. L \in 1..L /\ sameChain(CurrentAcceptance.checkpoint.identity, n.checkpoint)
      BY <1>1, <2>1, <3>1
    <3>3. sameChain(acceptances[i].checkpoint.identity, acceptances[L].checkpoint)
      BY <3>1, <3>2 DEF sameChain, CurrentAcceptance
    <3>4. QED
      BY <1>1, <2>1, <3>2, <3>3 DEF AcceptanceInv, HistoryAdvances, ChainLeftForGood
  <2>4. QED
    BY <2>2, <2>3
<1>4. QED
  BY <1>2, <1>3 DEF HistoryAdvances

-----------------------------------------------------------------------------
(* A transition whose checkpoint is compared with the newest row alone is ordered after
   every row of the history (p42_transition_indexer_checkpoint). *)
LEMMA TransitionKeepsHistory ==
    ASSUME AcceptanceInv, NEW p \in Portals, request[p].snapshot \in Checkpoints, TransitionTo(p)
    PROVE  /\ epochs' \in Seq(Identities) /\ acceptances' \in Seq(Acceptance)
           /\ EpochsNamed' /\ EpochsDistinct' /\ HistoryAdvances'
           /\ Len(acceptances) \in Nat /\ Len(acceptances') \in Nat
           /\ Len(acceptances) <= Len(acceptances')
           /\ \A i \in DOMAIN acceptances : i \in DOMAIN acceptances' /\ acceptances'[i] = acceptances[i]
           /\ Len(acceptances') \in DOMAIN acceptances'
           /\ acceptances'[Len(acceptances')].checkpoint = request[p].snapshot
<1> DEFINE c == request[p].snapshot
           L == Len(acceptances)
           E == Len(epochs)
<1>1. /\ acceptances \in Seq(Acceptance) /\ L \in Nat /\ DOMAIN acceptances = 1..L
      /\ epochs \in Seq(Identities) /\ E \in Nat /\ DOMAIN epochs = 1..E
      /\ c.identity \in Identities
  BY DEF AcceptanceInv, TypeOK, Acceptance, Identities
<1>2. \A i \in 1..L : /\ acceptances[i] \in Acceptance
                      /\ acceptances[i].epoch \in 1..E
                      /\ epochs[acceptances[i].epoch] = acceptances[i].checkpoint.identity
  BY <1>1 DEF AcceptanceInv, EpochsNamed
<1>3. CASE Same(c) /\ UNCHANGED <<epochs, acceptances>>
  <2>1. L \in DOMAIN acceptances /\ acceptances[L].checkpoint = c
    BY <1>3, NewestIsLast DEF Same, CurrentAcceptance
  <2>2. EpochsNamed' /\ EpochsDistinct' /\ HistoryAdvances'
    BY <1>3 DEF AcceptanceInv, EpochsNamed, EpochsDistinct, HistoryAdvances, ChainLeftForGood,
                CurrentAcceptance
  <2>3. QED
    BY <1>1, <1>3, <2>1, <2>2
<1>4. CASE (First \/ Renew(c)) /\ epochs' = Append(epochs, c.identity) /\ Accept(c, E + 1)
  <2> DEFINE n == [epoch |-> E + 1, checkpoint |-> c]
  <2>1. n \in Acceptance /\ acceptances' = Append(acceptances, n)
    BY <1>1, <1>4 DEF Accept, Acceptance
  <2>2. /\ acceptances' \in Seq(Acceptance) /\ Len(acceptances') = L + 1
        /\ DOMAIN acceptances' = 1..(L + 1) /\ acceptances'[L + 1] = n
        /\ \A i \in 1..L : acceptances'[i] = acceptances[i]
    BY <1>1, <2>1, AppendToHistory
  <2>3. /\ epochs' \in Seq(Identities) /\ Len(epochs') = E + 1
        /\ DOMAIN epochs' = 1..(E + 1) /\ epochs'[E + 1] = c.identity
        /\ \A e \in 1..E : epochs'[e] = epochs[e]
    BY <1>1, <1>4, AppendToHistory
  <2>4. \A e \in 1..E : epochs[e] # c.identity
    BY <1>1, <1>4 DEF First, Renew
  <2>5. EpochsNamed'
    <3>1. \A i \in 1..(L + 1) : /\ acceptances'[i].epoch \in 1..(E + 1)
                                /\ epochs'[acceptances'[i].epoch] = acceptances'[i].checkpoint.identity
      <4> TAKE i \in 1..(L + 1)
      <4>1. CASE i = L + 1
        BY <1>1, <2>2, <2>3, <4>1
      <4>2. CASE i # L + 1
        <5>1. i \in 1..L
          BY <1>1, <4>2
        <5>2. QED
          BY <1>1, <1>2, <2>2, <2>3, <5>1
      <4>3. QED
        BY <4>1, <4>2
    <3>2. QED
      BY <1>1, <2>2, <2>3, <3>1 DEF EpochsNamed, CurrentAcceptance
  <2>6. EpochsDistinct'
    <3> SUFFICES ASSUME NEW d \in 1..(E + 1), NEW e \in 1..(E + 1), epochs'[d] = epochs'[e]
                 PROVE  d = e
      BY <2>3 DEF EpochsDistinct
    <3>1. CASE d = E + 1 \/ e = E + 1
      BY <1>1, <2>3, <2>4, <3>1
    <3>2. CASE d # E + 1 /\ e # E + 1
      <4>1. d \in 1..E /\ e \in 1..E
        BY <1>1, <3>2
      <4>2. QED
        BY <1>1, <2>3, <4>1 DEF AcceptanceInv, EpochsDistinct
    <3>3. QED
      BY <3>1, <3>2
  <2>7. /\ \A i \in DOMAIN acceptances : Precedes(acceptances[i], n)
        /\ \/ L > 0 /\ sameChain(CurrentAcceptance.checkpoint.identity, n.checkpoint)
           \/ \A i \in DOMAIN acceptances : ~sameChain(acceptances[i].checkpoint.identity, n.checkpoint)
    <3>1. CASE First
      BY <1>1, <3>1 DEF First, AcceptanceInv, EpochsNamed
    <3>2. CASE Renew(c)
      <4>1. E > 0
        BY <1>1, <3>2 DEF Renew
      <4> DEFINE last == CurrentAcceptance
      <4>2. /\ L > 0 /\ last \in Acceptance /\ last.checkpoint.identity = CurrentIdentity
            /\ \A i \in 1..L : i = L \/ Precedes(acceptances[i], last)
            /\ last = acceptances[L]
        BY <1>1, <1>2, <4>1, NewestIsLast DEF CurrentAcceptance
      <4>3. /\ c.time > last.checkpoint.time
            /\ sameChain(CurrentIdentity, c) => c.block > last.checkpoint.block
            /\ ~sameChain(CurrentIdentity, c) => \A e \in 1..E : ~sameChain(epochs[e], c)
        BY <1>1, <3>2 DEF Renew
      <4>4. \A i \in 1..L : /\ acceptances[i].checkpoint.time <= last.checkpoint.time
                            /\ sameChain(acceptances[i].checkpoint.identity, last.checkpoint)
                                 => acceptances[i].checkpoint.block <= last.checkpoint.block
        BY <1>2, <4>2, Policy DEF Precedes, Acceptance
      <4>5. ASSUME NEW i \in 1..L
            PROVE  Precedes(acceptances[i], n)
        <5>1. acceptances[i].epoch < E + 1 /\ acceptances[i].checkpoint.identity # c.identity
          BY <1>1, <1>2, <2>4
        <5>2. acceptances[i].checkpoint.time < c.time
          BY <1>2, <4>2, <4>3, <4>4, Policy DEF Acceptance
        <5>3. sameChain(acceptances[i].checkpoint.identity, c) => acceptances[i].checkpoint.block < c.block
          <6>1. HAVE sameChain(acceptances[i].checkpoint.identity, c)
          <6>2. sameChain(CurrentIdentity, c)
            BY <1>2, <4>3, <6>1
          <6>3. sameChain(acceptances[i].checkpoint.identity, last.checkpoint)
            BY <4>2, <6>1, <6>2 DEF sameChain
          <6>4. QED
            BY <1>2, <4>2, <4>3, <4>4, <6>2, <6>3, Policy DEF Acceptance
        <5>4. n.epoch = E + 1 /\ n.checkpoint = c
          OBVIOUS
        <5>5. acceptances[i].epoch \in Nat /\ acceptances[i].checkpoint.time \in Nat /\ c.time \in Nat
          BY <1>2, Policy DEF Acceptance
        <5> HIDE DEF n, c, L, E
        <5>6. QED
          BY <1>1, <5>1, <5>2, <5>3, <5>4, <5>5 DEF Precedes
      <4>6. sameChain(last.checkpoint.identity, c) \/ \A i \in 1..L : ~sameChain(acceptances[i].checkpoint.identity, c)
        BY <1>2, <4>2, <4>3
      <4>7. QED
        BY <1>1, <4>2, <4>5, <4>6
    <3>3. QED
      BY <1>4, <3>1, <3>2
  <2>8. HistoryAdvances'
    BY <2>1, <2>7, OrderedAppend
  <2>9. QED
    BY <1>1, <2>2, <2>3, <2>5, <2>6, <2>8
<1>5. CASE Advance(c) /\ Accept(c, E) /\ UNCHANGED epochs
  <2> DEFINE n == [epoch |-> E, checkpoint |-> c]
             last == CurrentAcceptance
  <2>1. E > 0 /\ n \in Acceptance /\ acceptances' = Append(acceptances, n)
    BY <1>1, <1>5 DEF Accept, Acceptance, Advance
  <2>2. /\ acceptances' \in Seq(Acceptance) /\ Len(acceptances') = L + 1
        /\ DOMAIN acceptances' = 1..(L + 1) /\ acceptances'[L + 1] = n
        /\ \A i \in 1..L : acceptances'[i] = acceptances[i]
    BY <1>1, <2>1, AppendToHistory
  <2>3. /\ L > 0 /\ last \in Acceptance /\ last.checkpoint.identity = CurrentIdentity
        /\ \A i \in 1..L : i = L \/ Precedes(acceptances[i], last)
        /\ last = acceptances[L] /\ last.epoch = E
    <3>1. L \in 1..L /\ last = acceptances[L]
      BY <1>1, <2>1, NewestIsLast DEF CurrentAcceptance
    <3>2. L > 0 /\ last \in Acceptance
      BY <1>1, <1>2, <3>1
    <3>3. last.epoch = E
      BY <3>2 DEF AcceptanceInv, EpochsNamed
    <3>4. QED
      BY <1>1, <2>1, <3>1, <3>2, <3>3, NewestIsLast
  <2>4. CurrentIdentity = c.identity /\ c.time >= last.checkpoint.time /\ c.block > last.checkpoint.block
    BY <1>5 DEF Advance
  <2>5. EpochsNamed'
    <3>1. \A i \in 1..(L + 1) : /\ acceptances'[i].epoch \in 1..E
                                /\ epochs[acceptances'[i].epoch] = acceptances'[i].checkpoint.identity
      <4> TAKE i \in 1..(L + 1)
      <4>1. CASE i = L + 1
        <5>1. acceptances'[i].epoch = E /\ acceptances'[i].checkpoint = c
          BY <2>2, <4>1
        <5>2. epochs[E] = c.identity /\ E \in 1..E
          BY <1>1, <2>1, <2>4 DEF CurrentIdentity
        <5>3. QED
          BY <5>1, <5>2
      <4>2. CASE i # L + 1
        <5>1. i \in 1..L
          BY <1>1, <4>2
        <5>2. QED
          BY <1>1, <1>2, <2>2, <5>1
      <4>3. QED
        BY <4>1, <4>2
    <3>2. QED
      BY <1>1, <1>5, <2>1, <2>2, <3>1 DEF EpochsNamed, CurrentAcceptance
  <2>6. EpochsDistinct'
    BY <1>5 DEF AcceptanceInv, EpochsDistinct
  <2>7. \A i \in DOMAIN acceptances : Precedes(acceptances[i], n)
    <3> SUFFICES ASSUME NEW i \in 1..L
                 PROVE  Precedes(acceptances[i], n)
      BY <1>1
    <3>1. acceptances[i] \in Acceptance /\ n.epoch = E /\ n.checkpoint = c
      BY <1>2
    <3>2. last.epoch = E /\ last.checkpoint.identity = c.identity
      BY <2>3, <2>4
    <3>3. /\ acceptances[i].epoch \in Nat /\ acceptances[i].checkpoint.time \in Nat
          /\ acceptances[i].checkpoint.block \in Nat
          /\ last.checkpoint.time \in Nat /\ last.checkpoint.block \in Nat
          /\ c.time \in Nat /\ c.block \in Nat
      BY <2>3, <3>1, Policy DEF Acceptance
    <3>4. CASE i = L
      <4>1. acceptances[i] = last
        BY <2>3, <3>4
      <4> HIDE DEF n, c, L, E, last
      <4>2. QED
        BY <1>1, <2>4, <3>1, <3>2, <3>3, <4>1 DEF Precedes
    <3>5. CASE i # L
      <4>1. Precedes(acceptances[i], last)
        BY <2>3, <3>5
      <4>2. sameChain(acceptances[i].checkpoint.identity, c)
              => sameChain(acceptances[i].checkpoint.identity, last.checkpoint)
        BY <3>2 DEF sameChain
      <4> HIDE DEF n, c, L, E, last
      <4>3. QED
        BY <1>1, <2>4, <3>1, <3>2, <3>3, <4>1, <4>2 DEF Precedes
    <3>6. QED
      BY <3>4, <3>5
  <2>8. sameChain(last.checkpoint.identity, c)
    BY <2>3, <2>4 DEF sameChain
  <2>9. HistoryAdvances'
    BY <2>1, <2>3, <2>7, <2>8, OrderedAppend
  <2>10. QED
    BY <1>1, <1>5, <2>2, <2>5, <2>6, <2>9
<1>6. QED
  BY <1>3, <1>4, <1>5 DEF TransitionTo

-----------------------------------------------------------------------------
(* A request that is being answered or was served is of a checkpoint. *)
LEMMA RequestTyped ==
    ASSUME TypeOK, NEW p \in Portals, request[p].pc # "idle"
    PROVE  /\ request[p] \in Requests
           /\ request[p].snapshot \in Checkpoints
  BY DEF TypeOK, Requests, NoRequest

(* What a portal answers has the right type. *)
LEMMA AnswerTyped ==
    ASSUME TypeOK, NEW p \in Portals, NEW what \in {NoRequest} \cup Requests, Answer(p, what)
    PROVE  /\ request' \in [Portals -> {NoRequest} \cup Requests]
           /\ request'[p] = what
           /\ \A q \in Portals \ {p} : request'[q] = request[q]
  BY DEF TypeOK, Answer

(* Steps that leave the history alone keep what is said of it. *)
LEMMA HistoryKept ==
    ASSUME AcceptanceInv, UNCHANGED <<epochs, acceptances>>
    PROVE  /\ EpochsNamed' /\ EpochsDistinct' /\ HistoryAdvances'
           /\ epochs' \in Seq({c.identity : c \in Checkpoints})
           /\ acceptances' \in Seq([epoch : Nat \ {0}, checkpoint : Checkpoints])
  BY DEF AcceptanceInv, TypeOK, EpochsNamed, EpochsDistinct, HistoryAdvances, ChainLeftForGood,
         CurrentAcceptance

(* Local rows are served whatever the reason. *)
LEMMA ServeLocalKeepsInv ==
    ASSUME AcceptanceInv, NEW p \in Portals, ServeLocal(p),
           UNCHANGED <<clock, epochs, acceptances, authority>>
    PROVE  AcceptanceInv'
<1>1. /\ request' \in [Portals -> {NoRequest} \cup Requests] /\ request'[p] = NoRequest
      /\ \A q \in Portals \ {p} : request'[q] = request[q]
  BY AnswerTyped DEF AcceptanceInv, ServeLocal
<1>2. AcceptanceInv /\ UNCHANGED <<clock, epochs, acceptances, authority>>
  OBVIOUS
<1>3. TypeOK'
  BY <1>1, <1>2 DEF AcceptanceInv, TypeOK
<1>4. RequestsFresh'
  <2>1. ASSUME NEW q \in Portals, q # p, request'[q].pc # "idle"
        PROVE  request'[q] = request[q] /\ request[q].pc # "idle"
    BY <1>1, <2>1
  <2>2. request'[p].pc = "idle"
    BY <1>1 DEF NoRequest
  <2>3. QED
    BY <1>2, <2>1, <2>2 DEF AcceptanceInv, RequestsFresh
<1>5. ServedIsCurrent'
  <2>1. ASSUME NEW q \in Portals, request'[q].pc = "served"
        PROVE  request'[q] = request[q]
    BY <1>1, <2>1 DEF NoRequest
  <2>2. QED
    BY <1>2, <2>1 DEF AcceptanceInv, ServedIsCurrent
<1>6. EpochsNamed' /\ EpochsDistinct' /\ HistoryAdvances'
  BY <1>2, HistoryKept
<1>7. QED
  BY <1>3, <1>4, <1>5, <1>6 DEF AcceptanceInv

(* Taking a snapshot: the clock and the length of the history are read before the gate. *)
LEMMA LoadKeepsInv ==
    ASSUME AcceptanceInv, NEW p \in Portals, loadPortalReadModel(p)
    PROVE  AcceptanceInv'
<1>1. UNCHANGED <<clock, epochs, acceptances, authority>>
  BY DEF loadPortalReadModel
<1>2. /\ EpochsNamed' /\ EpochsDistinct' /\ HistoryAdvances'
      /\ epochs' \in Seq({c.identity : c \in Checkpoints})
      /\ acceptances' \in Seq([epoch : Nat \ {0}, checkpoint : Checkpoints])
  BY <1>1, HistoryKept
<1>3. clock \in Nat /\ Len(acceptances) \in Nat /\ Len(acceptances') = Len(acceptances)
  BY <1>1 DEF AcceptanceInv, TypeOK
<1>4. PICK c \in Checkpoints \cup {Local} :
        IF c # Local /\ Fresh(c)
        THEN Answer(p, [pc |-> "exact", snapshot |-> c, funding |-> canFund(c),
                        loadedAt |-> clock, floor |-> Len(acceptances)])
        ELSE ServeLocal(p)
  BY DEF loadPortalReadModel, loadActivatedIndexerSnapshot
<1>5. CASE ~(c # Local /\ Fresh(c))
  BY <1>1, <1>4, <1>5, ServeLocalKeepsInv
<1>6. CASE c \in Checkpoints /\ c # Local /\ Fresh(c)
  <2> DEFINE new == [pc |-> "exact", snapshot |-> c, funding |-> canFund(c),
                     loadedAt |-> clock, floor |-> Len(acceptances)]
  <2>1. canFund(c) \in BOOLEAN
    BY DEF canFund
  <2>2. new \in Requests
    BY <1>3, <1>6, <2>1 DEF Requests
  <2>3. /\ request' \in [Portals -> {NoRequest} \cup Requests] /\ request'[p] = new
        /\ \A q \in Portals \ {p} : request'[q] = request[q]
    BY <1>4, <1>6, <2>2, AnswerTyped DEF AcceptanceInv
  <2>4. clock - c.time <= MaxAge /\ c.time \in Nat
    BY <1>6, Policy DEF Fresh
  <2>5. canFund(c) => clock <= c.expiresAt /\ clock < fundingDeadline
    BY <1>3, <1>6, Policy DEF canFund, effectiveTimestamp
  <2>6. RequestsFresh'
    <3> SUFFICES ASSUME NEW q \in Portals, request'[q].pc # "idle"
                 PROVE  /\ request'[q].floor <= Len(acceptances')
                        /\ request'[q].loadedAt <= clock' /\ clock' <= request'[q].loadedAt + GateTimeout
                        /\ request'[q].loadedAt - request'[q].snapshot.time <= MaxAge
                        /\ request'[q].funding =>
                             /\ request'[q].loadedAt <= request'[q].snapshot.expiresAt
                             /\ request'[q].loadedAt < fundingDeadline
      BY DEF RequestsFresh
    <3>1. CASE q = p
      BY <1>1, <1>3, <2>3, <2>4, <2>5, <3>1, Policy
    <3>2. CASE q # p
      BY <1>1, <2>3, <3>2 DEF AcceptanceInv, RequestsFresh
    <3>3. QED
      BY <3>1, <3>2
  <2>7. ServedIsCurrent'
    BY <1>1, <2>3 DEF AcceptanceInv, ServedIsCurrent
  <2>8. QED
    BY <1>1, <1>2, <2>3, <2>6, <2>7 DEF AcceptanceInv, TypeOK
<1>7. QED
  BY <1>5, <1>6

(* Serving chain rows of a checkpoint that is the newest one of the history, whether it was
   there or has just been put there. *)
LEMMA ServeKeepsInv ==
    ASSUME AcceptanceInv, NEW p \in Portals, request[p].pc # "idle", Serve(p),
           UNCHANGED <<clock, authority>>,
           epochs' \in Seq(Identities), acceptances' \in Seq(Acceptance),
           EpochsNamed', EpochsDistinct', HistoryAdvances',
           Len(acceptances) \in Nat, Len(acceptances') \in Nat,
           Len(acceptances) <= Len(acceptances'),
           \A i \in DOMAIN acceptances : i \in DOMAIN acceptances' /\ acceptances'[i] = acceptances[i],
           Len(acceptances') \in DOMAIN acceptances',
           acceptances'[Len(acceptances')].checkpoint = request[p].snapshot
    PROVE  AcceptanceInv'
<1> DEFINE new == [request[p] EXCEPT !.pc = "served"]
<1>1. request[p] \in Requests
  BY RequestTyped DEF AcceptanceInv
<1>2. /\ new \in Requests /\ new.pc = "served" /\ new.snapshot = request[p].snapshot
      /\ new.floor = request[p].floor /\ new.loadedAt = request[p].loadedAt
      /\ new.funding = request[p].funding
  BY <1>1 DEF Requests
<1>3. /\ request' \in [Portals -> {NoRequest} \cup Requests] /\ request'[p] = new
      /\ \A q \in Portals \ {p} : request'[q] = request[q]
  BY <1>2, AnswerTyped DEF AcceptanceInv, Serve
<1>4. \A q \in Portals : /\ request'[q].snapshot = request[q].snapshot
                         /\ request'[q].pc # "idle" =>
                              /\ request[q].pc # "idle" /\ request'[q].floor = request[q].floor
                              /\ request'[q].loadedAt = request[q].loadedAt
                              /\ request'[q].funding = request[q].funding
  BY <1>2, <1>3
<1> HIDE DEF new
<1>5. TypeOK'
  BY <1>3 DEF AcceptanceInv, TypeOK, Identities, Acceptance
<1>6. RequestsFresh'
  <2> SUFFICES ASSUME NEW q \in Portals, request'[q].pc # "idle"
               PROVE  /\ request'[q].floor <= Len(acceptances')
                      /\ request'[q].loadedAt <= clock' /\ clock' <= request'[q].loadedAt + GateTimeout
                      /\ request'[q].loadedAt - request'[q].snapshot.time <= MaxAge
                      /\ request'[q].funding =>
                           /\ request'[q].loadedAt <= request'[q].snapshot.expiresAt
                           /\ request'[q].loadedAt < fundingDeadline
    BY DEF RequestsFresh
  <2>1. request[q] \in Requests
    BY <1>4, RequestTyped DEF AcceptanceInv
  <2>2. QED
    BY <1>4, <2>1 DEF AcceptanceInv, RequestsFresh, Requests
<1>7. ServedIsCurrent'
  <2> SUFFICES ASSUME NEW q \in Portals, request'[q].pc = "served"
               PROVE  \E i \in DOMAIN acceptances' :
                        i >= request'[q].floor /\ acceptances'[i].checkpoint = request'[q].snapshot
    BY DEF ServedIsCurrent
  <2>1. CASE q = p
    <3>1. request'[p].floor <= Len(acceptances')
      BY <1>6, <2>1 DEF RequestsFresh
    <3>2. request'[p].floor \in Nat
      BY <1>2, <1>3 DEF Requests
    <3>3. QED
      BY <1>4, <2>1, <3>1, <3>2
  <2>2. CASE q # p
    BY <1>3, <2>2 DEF AcceptanceInv, ServedIsCurrent
  <2>3. QED
    BY <2>1, <2>2
<1>8. QED
  BY <1>5, <1>6, <1>7 DEF AcceptanceInv

(* The clock: no request waits past the gate's timeouts, and what was served is forgotten. *)
LEMMA ElapseKeepsInv == AcceptanceInv /\ Elapse => AcceptanceInv'
<1> SUFFICES ASSUME AcceptanceInv, Elapse
             PROVE  AcceptanceInv'
  OBVIOUS
<1>1. clock \in Nat /\ clock' = clock + 1 /\ UNCHANGED <<epochs, acceptances, authority>>
  BY DEF Elapse, AcceptanceInv, TypeOK
<1>2. \A q \in Portals : request'[q] = IF request[q].pc = "served" THEN NoRequest ELSE request[q]
  BY DEF Elapse
<1>3. request' \in [Portals -> {NoRequest} \cup Requests]
  BY DEF Elapse, AcceptanceInv, TypeOK
<1>4. RequestsFresh'
  <2> SUFFICES ASSUME NEW q \in Portals, request'[q].pc # "idle"
               PROVE  /\ request'[q].floor <= Len(acceptances')
                      /\ request'[q].loadedAt <= clock' /\ clock' <= request'[q].loadedAt + GateTimeout
                      /\ request'[q].loadedAt - request'[q].snapshot.time <= MaxAge
                      /\ request'[q].funding =>
                           /\ request'[q].loadedAt <= request'[q].snapshot.expiresAt
                           /\ request'[q].loadedAt < fundingDeadline
    BY DEF RequestsFresh
  <2>1. request'[q] = request[q] /\ request[q].pc # "served" /\ request[q].pc # "idle"
    BY <1>2 DEF NoRequest
  <2>2. request[q] \in Requests
    BY <2>1, RequestTyped DEF AcceptanceInv
  <2>3. clock < request[q].loadedAt + GateTimeout
    BY <2>1, <2>2 DEF Elapse, Requests
  <2>4. QED
    BY <1>1, <2>1, <2>2, <2>3, Policy DEF AcceptanceInv, RequestsFresh, Requests
<1>5. ServedIsCurrent'
  BY <1>2 DEF ServedIsCurrent, NoRequest
<1>6. QED
  BY <1>1, <1>3, <1>4, <1>5, HistoryKept DEF AcceptanceInv, TypeOK

-----------------------------------------------------------------------------
(* Every step of the portals and of the database keeps the invariant. *)
LEMMA AcceptanceInvStep == AcceptanceInv /\ [Next]_vars => AcceptanceInv'
<1> SUFFICES ASSUME AcceptanceInv, [Next]_vars
             PROVE  AcceptanceInv'
  OBVIOUS
<1>1. CASE Elapse
  BY <1>1, ElapseKeepsInv
<1>2. CASE Tamper
  BY <1>2, HistoryKept DEF Tamper, AcceptanceInv, TypeOK, RequestsFresh, ServedIsCurrent
<1>3. CASE UNCHANGED vars
  BY <1>3, HistoryKept DEF vars, AcceptanceInv, TypeOK, RequestsFresh, ServedIsCurrent
<1>4. ASSUME NEW p \in Portals, Portal(p)
      PROVE  AcceptanceInv'
  <2>1. CASE loadPortalReadModel(p)
    BY <2>1, LoadKeepsInv
  <2>2. CASE ReadExact(p)
    <3>1. request[p].pc = "exact" /\ request[p] \in Requests /\ UNCHANGED <<clock, epochs, acceptances, authority>>
      BY <2>2, RequestTyped DEF ReadExact, AcceptanceInv
    <3>2. CASE ServeLocal(p)
      BY <3>1, <3>2, ServeLocalKeepsInv
    <3>3. CASE ExactRow(request[p].snapshot) /\ Serve(p)
      <4>1. Len(epochs) > 0 /\ CurrentAcceptance.checkpoint = request[p].snapshot
        BY <3>3 DEF ExactRow, Same
      <4>2. /\ Len(acceptances) \in DOMAIN acceptances
            /\ acceptances[Len(acceptances)].checkpoint = request[p].snapshot
        BY <4>1, NewestIsLast DEF CurrentAcceptance
      <4>3. epochs \in Seq(Identities) /\ acceptances \in Seq(Acceptance) /\ Len(acceptances) \in Nat
        BY DEF AcceptanceInv, TypeOK, Identities, Acceptance
      <4>4. EpochsNamed' /\ EpochsDistinct' /\ HistoryAdvances'
        BY <3>1, HistoryKept
      <4>5. QED
        BY <3>1, <3>3, <4>2, <4>3, <4>4, ServeKeepsInv
    <3>4. CASE Answer(p, [request[p] EXCEPT !.pc = "transition"])
      <4> DEFINE new == [request[p] EXCEPT !.pc = "transition"]
      <4>1. /\ new \in Requests /\ new.pc = "transition" /\ new.snapshot = request[p].snapshot
            /\ new.floor = request[p].floor /\ new.loadedAt = request[p].loadedAt
            /\ new.funding = request[p].funding
        BY <3>1 DEF Requests
      <4>2. /\ request' \in [Portals -> {NoRequest} \cup Requests] /\ request'[p] = new
            /\ \A q \in Portals \ {p} : request'[q] = request[q]
        BY <3>4, <4>1, AnswerTyped DEF AcceptanceInv
      <4> HIDE DEF new
      <4>3. RequestsFresh' /\ ServedIsCurrent'
        BY <3>1, <4>1, <4>2 DEF AcceptanceInv, RequestsFresh, ServedIsCurrent
      <4>4. QED
        BY <3>1, <4>2, <4>3, HistoryKept DEF AcceptanceInv, TypeOK
    <3>5. QED
      BY <2>2, <3>2, <3>3, <3>4 DEF ReadExact
  <2>3. CASE Transition(p)
    <3>1. /\ request[p].pc # "idle" /\ request[p].snapshot \in Checkpoints
          /\ TransitionTo(p) /\ Serve(p) /\ UNCHANGED <<clock, authority>>
      BY <2>3, RequestTyped DEF Transition, AcceptanceInv
    <3>2. QED
      BY <3>1, TransitionKeepsHistory, ServeKeepsInv
  <2>4. CASE TransitionRefused(p)
    BY <2>4, ServeLocalKeepsInv DEF TransitionRefused
  <2>5. CASE GateFails(p)
    BY <2>5, ServeLocalKeepsInv DEF GateFails
  <2>6. QED
    BY <1>4, <2>1, <2>2, <2>3, <2>4, <2>5 DEF Portal
<1>5. QED
  BY <1>1, <1>2, <1>3, <1>4 DEF Next

(* The inductive invariant holds of every behaviour of the gate. *)
THEOREM GateInvariant == Spec => []AcceptanceInv
<1>1. QED
  BY AcceptanceInvInit, AcceptanceInvStep, PTL DEF Spec

(* The accepted history only advances: blocks of a chain grow, timestamps never fall, a new epoch
   is strictly later, and neither an identity nor a chain comes back, whatever number of portals
   race in the transition (p42_transition_indexer_checkpoint). *)
THEOREM HistoryAlwaysAdvances == Spec => []HistoryAdvances
<1>1. AcceptanceInv => HistoryAdvances
  BY DEF AcceptanceInv
<1>2. QED
  BY <1>1, GateInvariant, PTL

(* Chain rows are only served of a checkpoint that is in the history and is not older than the
   newest one when the request began (enforceIndexerCheckpointHighWater). *)
THEOREM ServedAlwaysCurrent == Spec => []ServedIsCurrent
<1>1. AcceptanceInv => ServedIsCurrent
  BY DEF AcceptanceInv
<1>2. QED
  BY <1>1, GateInvariant, PTL

(* Rows are served at most the gate's timeouts after they were fresh, and a funding target is
   published at most that long after its window (portalReadModelFromActivatedSnapshot). *)
THEOREM AlwaysServedInTime == Spec => []ServedInTime
<1>1. AcceptanceInv => ServedInTime
  <2> SUFFICES ASSUME AcceptanceInv, NEW p \in Portals, request[p].pc = "served"
               PROVE  LET c == request[p].snapshot
                      IN /\ clock - c.time <= MaxAge + GateTimeout
                         /\ request[p].funding => /\ clock <= c.expiresAt + GateTimeout
                                                  /\ clock < fundingDeadline + GateTimeout
    BY DEF ServedInTime
  <2>1. request[p] \in Requests /\ request[p].snapshot \in Checkpoints /\ clock \in Nat
    BY RequestTyped DEF AcceptanceInv, TypeOK
  <2>2. request[p].loadedAt \in Nat /\ request[p].snapshot.time \in Nat /\ request[p].snapshot.expiresAt \in Nat
    BY <2>1, Policy DEF Requests
  <2>3. /\ clock <= request[p].loadedAt + GateTimeout
        /\ request[p].loadedAt - request[p].snapshot.time <= MaxAge
        /\ request[p].funding => /\ request[p].loadedAt <= request[p].snapshot.expiresAt
                                 /\ request[p].loadedAt < fundingDeadline
    BY DEF AcceptanceInv, RequestsFresh
  <2>4. QED
    BY <2>1, <2>2, <2>3, Policy
<1>2. QED
  BY <1>1, GateInvariant, PTL
=============================================================================
