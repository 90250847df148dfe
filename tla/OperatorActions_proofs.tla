----------------------- MODULE OperatorActions_proofs -----------------------
(***************************************************************************)
(* The operators' shared wallet and envelopes are safe for any boards,     *)
(* candidates, days and limits, any crashes and exceptions, RPC providers  *)
(* that lag without bound, the primary also behind the other, and any      *)
(* dropped, reorganized or foreign transactions.                           *)
(*                                                                         *)
(* The argument: the wallet lock leaves one operator at a time between the *)
(* allocation of a nonce and the record of what became of it, so what      *)
(* holds of a candidate depends on the point its operator is at (PlaceInv) *)
(* and on what is durable (RestInv).  Signed bytes have the only row of    *)
(* their nonce in the journal, and are sent only while it is not fenced;   *)
(* whatever can still cost a bond is in the envelope, the action given up  *)
(* or not, or ended in a reverted transaction that is final.  Nothing      *)
(* rests on what the primary shows, but for a final receipt.               *)
(***************************************************************************)
EXTENDS OperatorActions, FiniteSetTheorems, SequenceTheorems, TLAPS

Points == {"admitted"} \cup WalletLocked
Later == {"recover", "receipt", "confirm", "revert", "decide", "fenced", "send", "sent"}
Resumable == {"signed", "broadcast", "submitted", "reorged"}

(* Where its operator is with a candidate. *)
where(c) == IF \E p \in Points : at[BoardOf[c]] = <<p, c>> THEN at[BoardOf[c]][1] ELSE "away"

(* Each operator is at a point with a candidate of its own board, and only one of them is
   under the wallet lock. *)
ProcessInv ==
    /\ at \in [Boards -> {Idle} \cup (Points \X Candidates)]
    /\ \A b \in Boards : at[b] # Idle => BoardOf[at[b][2]] = b
    /\ \A b, d \in Boards : at[b][1] \in WalletLocked /\ at[d][1] \in WalletLocked => b = d

-----------------------------------------------------------------------------
(* What a step does to the places of the operators. *)
Moved(c, p) ==
    /\ ProcessInv'
    /\ where(c)' = p
    /\ \A e \in Candidates : e # c => where(e)' = where(e)

LEMMA PointsAreNotIdle == "idle" \notin Points /\ WalletLocked \subseteq Points
BY DEF Points, WalletLocked, BeforeJournal

LEMMA RunningAt ==
    ASSUME ProcessInv, NEW b \in Boards, at[b][1] \in Points
    PROVE  /\ at[b] # Idle /\ candidate(b) \in Candidates /\ BoardOf[candidate(b)] = b
           /\ at[b] = <<at[b][1], candidate(b)>> /\ where(candidate(b)) = at[b][1]
<1>1. at[b] # Idle
  BY PointsAreNotIdle DEF Idle
<1>2. at[b] \in Points \X Candidates
  BY <1>1 DEF ProcessInv
<1>3. at[b] = <<at[b][1], candidate(b)>> /\ candidate(b) \in Candidates
  BY <1>2 DEF candidate
<1>4. BoardOf[candidate(b)] = b
  BY <1>1 DEF ProcessInv, candidate
<1>5. QED
  BY <1>1, <1>3, <1>4 DEF where

LEMMA NotIdleRuns ==
    ASSUME ProcessInv, NEW b \in Boards, at[b] # Idle
    PROVE  at[b][1] \in Points
BY DEF ProcessInv

LEMMA OthersOutside ==
    ASSUME ProcessInv, NEW b \in Boards, at[b][1] \in WalletLocked
    PROVE  \A d \in Boards : d # b => at[d][1] \notin WalletLocked
BY DEF ProcessInv

LEMMA PlacesAfter ==
    ASSUME ActionsAssumption, ProcessInv, NEW b \in Boards, NEW c \in Candidates, BoardOf[c] = b,
           at[b] = Idle \/ at[b][2] = c, NEW p \in Points,
           p \in WalletLocked => \A d \in Boards : d # b => at[d][1] \notin WalletLocked,
           at' = [at EXCEPT ![b] = <<p, c>>]
    PROVE  Moved(c, p)
<1>1. at'[b] = <<p, c>> /\ \A d \in Boards : d # b => at'[d] = at[d]
  BY DEF ProcessInv
<1>2. (at \in [Boards -> {Idle} \cup (Points \X Candidates)])'
  BY DEF ProcessInv
<1>3. \A d \in Boards : at'[d] # Idle => BoardOf[at'[d][2]] = d
  BY <1>1 DEF ProcessInv
<1>4. \A d, f \in Boards : at'[d][1] \in WalletLocked /\ at'[f][1] \in WalletLocked => d = f
  BY <1>1 DEF ProcessInv
<1>5. ProcessInv'
  BY <1>2, <1>3, <1>4 DEF ProcessInv
<1>6. where(c)' = p
  BY <1>1 DEF where
<1>7. ASSUME NEW e \in Candidates, e # c
      PROVE  where(e)' = where(e)
  <2>1. BoardOf[e] \in Boards
    BY DEF ActionsAssumption, EnvelopeAssumption
  <2>2. CASE BoardOf[e] # b
    BY <2>1, <2>2, <1>1 DEF where
  <2>3. CASE BoardOf[e] = b
    <3>1. ~\E q \in Points : at'[b] = <<q, e>>
      BY <1>1, <1>7
    <3>2. ~\E q \in Points : at[b] = <<q, e>>
      BY <1>7 DEF Idle
    <3>3. QED
      BY <2>3, <3>1, <3>2 DEF where
  <2>4. QED
    BY <2>2, <2>3
<1>8. QED
  BY <1>5, <1>6, <1>7 DEF Moved

LEMMA PlacesLeft ==
    ASSUME ActionsAssumption, ProcessInv, NEW b \in Boards, at[b][1] \in Points, leave(b),
           NEW c, c = candidate(b)
    PROVE  Moved(c, "away")
<1>0. BoardOf[c] = b /\ at[b][2] = c /\ c \in Candidates
  BY RunningAt DEF candidate
<1>1. at'[b] = Idle /\ \A d \in Boards : d # b => at'[d] = at[d]
  BY DEF ProcessInv, leave
<1>2. (at \in [Boards -> {Idle} \cup (Points \X Candidates)])'
  BY DEF ProcessInv, leave
<1>3. \A d \in Boards : at'[d] # Idle => BoardOf[at'[d][2]] = d
  BY <1>1 DEF ProcessInv
<1>4. \A d, f \in Boards : at'[d][1] \in WalletLocked /\ at'[f][1] \in WalletLocked => d = f
  BY <1>1, PointsAreNotIdle DEF ProcessInv, Idle
<1>5. ProcessInv'
  BY <1>2, <1>3, <1>4 DEF ProcessInv
<1>6. ASSUME NEW e \in Candidates PROVE ~\E q \in Points : Idle = <<q, e>>
  BY DEF Idle
<1>7. where(c)' = "away"
  BY <1>0, <1>1, <1>6 DEF where
<1>8. ASSUME NEW e \in Candidates, e # c
      PROVE  where(e)' = where(e)
  <2>1. BoardOf[e] \in Boards
    BY DEF ActionsAssumption, EnvelopeAssumption
  <2>2. CASE BoardOf[e] # b
    BY <2>1, <2>2, <1>1 DEF where
  <2>3. CASE BoardOf[e] = b
    <3>1. ~\E q \in Points : at'[b] = <<q, e>>
      BY <1>1, <1>6
    <3>2. ~\E q \in Points : at[b] = <<q, e>>
      BY <1>0, <1>8
    <3>3. QED
      BY <2>3, <3>1, <3>2 DEF where
  <2>4. QED
    BY <2>2, <2>3
<1>9. QED
  BY <1>5, <1>7, <1>8 DEF Moved

LEMMA PlacesGoto ==
    ASSUME ActionsAssumption, ProcessInv, NEW b \in Boards, at[b][1] \in WalletLocked,
           NEW p \in WalletLocked, proceed(b, p), NEW c, c = candidate(b)
    PROVE  Moved(c, p)
<1>1. at[b][1] \in Points /\ p \in Points
  BY PointsAreNotIdle
<1>2. BoardOf[c] = b /\ at[b][2] = c /\ c \in Candidates
  BY <1>1, RunningAt DEF candidate
<1>3. at' = [at EXCEPT ![b] = <<p, c>>]
  BY <1>2 DEF proceed
<1>4. QED
  BY <1>1, <1>2, <1>3, PlacesAfter, OthersOutside

LEMMA PlacesKept ==
    ASSUME ProcessInv, UNCHANGED at
    PROVE  ProcessInv' /\ \A e : where(e)' = where(e)
BY DEF ProcessInv, where

-----------------------------------------------------------------------------
(* The journal is one readJournal accepts. *)
JournalInv ==
    /\ allocations \subseteq Allocation /\ next_nonce \in Nat
    /\ validateJournal(allocations, next_nonce)

(* What every call of the allocator for c leaves: a valid journal, the rows of the others,
   and a row for each nonce that c had one for. *)
RowsKept(c) ==
    /\ JournalInv'
    /\ \A n \in Nat : rowOf(c, n) # {} => rowOf(c, n)' # {}
    /\ \A e \in Candidates : e # c => rowsOf(e)' = rowsOf(e)

LEMMA StateSet ==
    ASSUME NEW x \in Allocation, NEW s \in States
    PROVE  /\ withState(x, s) \in Allocation
           /\ withState(x, s).action_id = x.action_id /\ withState(x, s).nonce = x.nonce
           /\ withState(x, s).state = s
BY DEF Allocation, withState

LEMMA RowsTraced ==
    ASSUME JournalInv, NEW c, NEW R, R \subseteq rowsOf(c), NEW s \in States,
           NEW T, T = setState(R, s)
    PROVE  \A y : y \in T <=>
               \/ y \in allocations /\ y \notin R
               \/ \E x \in R : /\ x \in allocations /\ y = withState(x, s) /\ y \in Allocation
                              /\ y.action_id = c /\ y.nonce = x.nonce /\ y.state = s
<1>1. R \subseteq allocations /\ (\A x \in R : x \in Allocation /\ x.action_id = c)
  BY DEF JournalInv, rowsOf
<1>2. \A x \in R : /\ withState(x, s) \in Allocation /\ withState(x, s).action_id = c
                   /\ withState(x, s).nonce = x.nonce /\ withState(x, s).state = s
  BY <1>1, StateSet
<1>3. \A y : y \in T <=> (y \in allocations /\ y \notin R) \/ \E x \in R : y = withState(x, s)
  BY DEF setState
<1>4. QED
  BY <1>1, <1>2, <1>3

LEMMA RowsChanged ==
    ASSUME JournalInv, NEW c, NEW R, R \subseteq rowsOf(c), NEW s \in States,
           NEW T, T = setState(R, s)
    PROVE  /\ T \subseteq Allocation
           /\ \A x, y \in T : x.nonce = y.nonce => x = y
           /\ \A x \in T : x.nonce < next_nonce
<1>1. \A y \in T : \E x \in allocations :
          /\ x.nonce = y.nonce
          /\ (x \notin R /\ y = x) \/ (x \in R /\ y = withState(x, s) /\ y \in Allocation)
  BY RowsTraced
<1>2. T \subseteq Allocation
  BY <1>1 DEF JournalInv
<1>3. \A x, y \in T : x.nonce = y.nonce => x = y
  <2> SUFFICES ASSUME NEW x \in T, NEW y \in T, x.nonce = y.nonce
               PROVE  x = y
    OBVIOUS
  <2>1. PICK u \in allocations : u.nonce = x.nonce
                /\ ((u \notin R /\ x = u) \/ (u \in R /\ x = withState(u, s)))
    BY <1>1
  <2>2. PICK v \in allocations : v.nonce = y.nonce
                /\ ((v \notin R /\ y = v) \/ (v \in R /\ y = withState(v, s)))
    BY <1>1
  <2>3. u = v
    BY <2>1, <2>2 DEF JournalInv, validateJournal
  <2>4. QED
    BY <2>1, <2>2, <2>3
<1>4. \A x \in T : x.nonce < next_nonce
  BY <1>1 DEF JournalInv, validateJournal
<1>5. QED
  BY <1>2, <1>3, <1>4

(* A call that only sets the state of rows of c. *)
LEMMA StateCallKeeps ==
    ASSUME JournalInv, NEW c, NEW R, R \subseteq rowsOf(c), NEW s \in States,
           allocations' = setState(R, s), UNCHANGED next_nonce
    PROVE  RowsKept(c)
<1>0. PICK T : T = setState(R, s)
  OBVIOUS
<1>1. T \subseteq Allocation /\ (\A x, y \in T : x.nonce = y.nonce => x = y)
      /\ \A x \in T : x.nonce < next_nonce
  BY <1>0, RowsChanged
<1>2. \A y : y \in T <=>
          \/ y \in allocations /\ y \notin R
          \/ \E x \in R : /\ x \in allocations /\ y = withState(x, s) /\ y \in Allocation
                         /\ y.action_id = c /\ y.nonce = x.nonce /\ y.state = s
  BY <1>0, RowsTraced
<1>3. allocations' = T
  BY <1>0
<1>4. JournalInv'
  BY <1>1, <1>3 DEF JournalInv, validateJournal
<1>5. \A x \in R : x \in allocations /\ x.action_id = c /\ withState(x, s) \in T
           /\ withState(x, s).action_id = c /\ withState(x, s).nonce = x.nonce
  BY <1>2, StateSet DEF rowsOf, JournalInv
<1>6. ASSUME NEW n \in Nat, rowOf(c, n) # {}
      PROVE  rowOf(c, n)' # {}
  <2>1. PICK x \in allocations : x.action_id = c /\ x.nonce = n
    BY <1>6 DEF rowOf, rowsOf
  <2>2. \E y \in T : y.action_id = c /\ y.nonce = n
    BY <1>2, <1>5, <2>1
  <2>3. QED
    BY <1>3, <2>2 DEF rowOf, rowsOf
<1>7. ASSUME NEW e \in Candidates, e # c
      PROVE  rowsOf(e)' = rowsOf(e)
  <2>1. \A y : (y \in T /\ y.action_id = e) <=> (y \in allocations /\ y.action_id = e)
    BY <1>2, <1>5, <1>7
  <2>2. QED
    BY <1>3, <2>1 DEF rowsOf
<1>8. QED
  BY <1>4, <1>6, <1>7 DEF RowsKept

LEMMA ReserveKeeps ==
    ASSUME JournalInv, NEW c \in Actions, NEW f \in Nat, NEW p \in Nat, reserveNonce(c, f, p)
    PROVE  RowsKept(c) /\ reservedOf(c)' # {}
<1>1. CASE reusable(c, f, p) # {} /\ UNCHANGED nonceVars
  <2>1. allocations' = allocations /\ next_nonce' = next_nonce
    BY <1>1 DEF nonceVars
  <2>2. reservedOf(c) # {}
    BY <1>1 DEF reusable
  <2>3. QED
    BY <2>1, <2>2 DEF RowsKept, JournalInv, validateJournal, rowOf, rowsOf, reservedOf
<1>2. CASE reusable(c, f, p) = {}
  <2> DEFINE n == freshNonce(f, p)
             row == [action_id |-> c, nonce |-> n, state |-> "reserved"]
  <2>1. PICK T : T = setState(reservedOf(c), "fenced")
    OBVIOUS
  <2>2. reservedOf(c) \subseteq rowsOf(c) /\ "fenced" \in States
    BY DEF reservedOf, States
  <2>3. T \subseteq Allocation /\ (\A x, y \in T : x.nonce = y.nonce => x = y)
        /\ \A x \in T : x.nonce < next_nonce
    BY <2>1, <2>2, RowsChanged
  <2>4. \A y : y \in T <=>
            \/ y \in allocations /\ y \notin reservedOf(c)
            \/ \E x \in reservedOf(c) :
                   /\ x \in allocations /\ y = withState(x, "fenced") /\ y \in Allocation
                   /\ y.action_id = c /\ y.nonce = x.nonce /\ y.state = "fenced"
    BY <2>1, <2>2, RowsTraced
  <2>5. \A x \in reservedOf(c) : x \in allocations /\ x.action_id = c /\ withState(x, "fenced") \in T
             /\ withState(x, "fenced").action_id = c /\ withState(x, "fenced").nonce = x.nonce
    BY <2>2, <2>4, StateSet DEF rowsOf, JournalInv, reservedOf
  <2>6. n \in Nat /\ n >= next_nonce
    BY DEF freshNonce, maxOf, JournalInv
  <2>7. allocations' = T \cup {row} /\ next_nonce' = n + 1
    BY <1>2, <2>1, <2>6 DEF reserveNonce, maxOf, JournalInv
  <2>8. row \in Allocation /\ row.action_id = c /\ row.nonce = n /\ row.state = "reserved"
    BY <2>6 DEF Allocation, States
  <2> HIDE DEF row, n
  <2>9. JournalInv'
    <3>1. allocations' \subseteq Allocation /\ next_nonce' \in Nat
      BY <2>3, <2>6, <2>7, <2>8
    <3>2. \A x \in T : x.nonce \in Nat
      BY <2>3 DEF Allocation
    <3>3. \A x, y \in allocations' : x.nonce = y.nonce => x = y
      BY <2>3, <2>6, <2>7, <2>8, <3>2 DEF JournalInv
    <3>4. \A x \in allocations' : x.nonce < next_nonce'
      BY <2>3, <2>6, <2>7, <2>8, <3>2 DEF JournalInv
    <3>5. QED
      BY <3>1, <3>3, <3>4 DEF JournalInv, validateJournal
  <2>10. ASSUME NEW m \in Nat, rowOf(c, m) # {}
         PROVE  rowOf(c, m)' # {}
    <3>1. PICK x \in allocations : x.action_id = c /\ x.nonce = m
      BY <2>10 DEF rowOf, rowsOf
    <3>2. \E y \in T : y.action_id = c /\ y.nonce = m
      BY <2>4, <2>5, <3>1
    <3>3. QED
      BY <2>7, <3>2 DEF rowOf, rowsOf
  <2>11. ASSUME NEW e \in Candidates, e # c
         PROVE  rowsOf(e)' = rowsOf(e)
    <3>1. \A y : (y \in T /\ y.action_id = e) <=> (y \in allocations /\ y.action_id = e)
      BY <2>4, <2>5, <2>11
    <3>2. QED
      BY <2>7, <2>8, <2>11, <3>1 DEF rowsOf
  <2>12. row \in reservedOf(c)'
    BY <2>7, <2>8 DEF reservedOf, rowsOf
  <2>13. QED
    BY <2>9, <2>10, <2>11, <2>12 DEF RowsKept
<1>3. QED
  BY <1>1, <1>2 DEF reserveNonce

LEMMA RecoverKeeps ==
    ASSUME JournalInv, NEW c \in Actions, NEW n \in Nat, recoverNonce(c, n)
    PROVE  RowsKept(c) /\ rowOf(c, n)' # {}
<1>1. CASE rowOf(c, n) = {}
  <2> DEFINE row == [action_id |-> c, nonce |-> n, state |-> "signed"]
  <2>1. allocations' = allocations \cup {row}
    BY <1>1 DEF recoverNonce
  <2>2. next_nonce' \in Nat /\ next_nonce' > n /\ next_nonce' >= next_nonce
    BY DEF recoverNonce, maxOf, JournalInv
  <2>3. row \in Allocation /\ row.action_id = c /\ row.nonce = n /\ row.state = "signed"
    BY DEF Allocation, States
  <2>4. \A x \in allocations : x.nonce # n
    BY <1>1 DEF recoverNonce, belongsToAnother, rowOf, rowsOf
  <2> HIDE DEF row
  <2>5. JournalInv'
    <3>1. allocations' \subseteq Allocation
      BY <2>1, <2>3 DEF JournalInv
    <3>2. \A x \in allocations : x.nonce \in Nat
      BY DEF JournalInv, Allocation
    <3>3. \A x, y \in allocations' : x.nonce = y.nonce => x = y
      BY <2>1, <2>3, <2>4 DEF JournalInv, validateJournal
    <3>4. \A x \in allocations' : x.nonce < next_nonce'
      BY <2>1, <2>2, <2>3, <3>2 DEF JournalInv, validateJournal
    <3>5. QED
      BY <2>2, <3>1, <3>3, <3>4 DEF JournalInv, validateJournal
  <2>6. \A m \in Nat : rowOf(c, m) # {} => rowOf(c, m)' # {}
    BY <2>1 DEF rowOf, rowsOf
  <2>7. \A e \in Candidates : e # c => rowsOf(e)' = rowsOf(e)
    BY <2>1, <2>3 DEF rowsOf
  <2>8. rowOf(c, n)' # {}
    BY <2>1, <2>3 DEF rowOf, rowsOf
  <2>9. QED
    BY <2>5, <2>6, <2>7, <2>8 DEF RowsKept
<1>2. CASE rowOf(c, n) # {}
  <2>1. PICK R : R = {x \in rowOf(c, n) : x.state = "reserved"}
    OBVIOUS
  <2>2. allocations' = setState(R, "signed")
    BY <1>2, <2>1 DEF recoverNonce
  <2>3. n < next_nonce
    BY <1>2 DEF rowOf, rowsOf, JournalInv, validateJournal
  <2>4. UNCHANGED next_nonce
    BY <2>3 DEF recoverNonce, maxOf, JournalInv
  <2>5. R \subseteq rowsOf(c) /\ "signed" \in States
    BY <2>1 DEF rowOf, States
  <2>6. RowsKept(c)
    BY <2>2, <2>4, <2>5, StateCallKeeps
  <2>7. QED
    BY <1>2, <2>6 DEF RowsKept
<1>3. QED
  BY <1>1, <1>2

(* Signed and sent bytes keep a row that is not fenced. *)
LEMMA MarkKeeps ==
    ASSUME JournalInv, NEW c, NEW n \in Nat,
           recordSigned(c, n) \/ recordBroadcast(c, n)
    PROVE  RowsKept(c) /\ activeRow(c, n)'
<1>1. PICK s \in {"signed", "broadcast"}, R \in SUBSET rowOf(c, n) :
          /\ allocations' = setState(R, s) /\ activeRow(c, n)
          /\ \A x \in rowOf(c, n) : x \notin R => x.state = "broadcast"
          /\ UNCHANGED next_nonce
  <2>1. CASE recordSigned(c, n)
    <3> DEFINE S == {x \in rowOf(c, n) : x.state # "broadcast"}
    <3>1. /\ allocations' = setState(S, "signed") /\ S \subseteq rowOf(c, n) /\ activeRow(c, n)
          /\ \A x \in rowOf(c, n) : x \notin S => x.state = "broadcast"
          /\ UNCHANGED next_nonce
      BY <2>1 DEF recordSigned
    <3> HIDE DEF S
    <3>2. QED
      BY <3>1
  <2>2. CASE recordBroadcast(c, n)
    <3>1. /\ allocations' = setState(rowOf(c, n), "broadcast") /\ activeRow(c, n)
          /\ UNCHANGED next_nonce
      BY <2>2 DEF recordBroadcast
    <3>2. QED
      BY <3>1
  <2>3. QED
    BY <2>1, <2>2
<1>2. s \in States /\ s # "fenced" /\ R \subseteq rowsOf(c)
  BY <1>1 DEF States, rowOf
<1>3. RowsKept(c)
  BY <1>1, <1>2, StateCallKeeps
<1>4. PICK T : T = setState(R, s)
  OBVIOUS
<1>5. \A y : y \in T <=>
          \/ y \in allocations /\ y \notin R
          \/ \E x \in R : /\ x \in allocations /\ y = withState(x, s) /\ y \in Allocation
                         /\ y.action_id = c /\ y.nonce = x.nonce /\ y.state = s
  BY <1>2, <1>4, RowsTraced
<1>6. PICK x \in rowOf(c, n) : x.state # "fenced"
  BY <1>1 DEF activeRow
<1>7. x \in allocations /\ x.action_id = c /\ x.nonce = n /\ x \in Allocation
  BY <1>6 DEF rowOf, rowsOf, JournalInv
<1>8. \E y \in T : y.action_id = c /\ y.nonce = n /\ y.state # "fenced"
  <2>1. CASE x \in R
    BY <1>2, <1>5, <1>7, <2>1, StateSet
  <2>2. CASE x \notin R
    BY <1>5, <1>6, <1>7, <2>2
  <2>3. QED
    BY <2>1, <2>2
<1>9. activeRow(c, n)'
  BY <1>1, <1>4, <1>8 DEF activeRow, rowOf, rowsOf
<1>10. QED
  BY <1>3, <1>9

LEMMA FenceKeeps ==
    ASSUME JournalInv, NEW c, NEW n, fence(c, n)
    PROVE  RowsKept(c)
<1>1. PICK R : R = rowOf(c, n)
  OBVIOUS
<1>2. allocations' = setState(R, "fenced") /\ UNCHANGED next_nonce
  BY <1>1 DEF fence
<1>3. R \subseteq rowsOf(c) /\ "fenced" \in States
  BY <1>1 DEF rowOf, States
<1>4. QED
  BY <1>2, <1>3, StateCallKeeps

LEMMA JournalKept ==
    ASSUME JournalInv, UNCHANGED nonceVars
    PROVE  JournalInv' /\ \A e : rowsOf(e)' = rowsOf(e)
BY DEF JournalInv, nonceVars, validateJournal, rowsOf

-----------------------------------------------------------------------------
(* The envelopes: their entries, each in a bucket that the file has, and the caps. *)
EnvelopeShape ==
    /\ reservations \in [Boards -> SUBSET Reservation] /\ spends \in [Boards -> SUBSET Spend]
    /\ buckets \in [Boards -> SUBSET (0..MaxDay)] /\ day \in 0..MaxDay
    /\ health \in [Boards -> 0..MaxHealth] /\ highWater \in [Boards -> 0..MaxHealth]
    /\ \A b \in Boards : IsFiniteSet(reservations[b]) /\ IsFiniteSet(spends[b])
    /\ \A b \in Boards : \A r \in reservations[b] : r.day \in buckets[b]

EnvelopeInv == EnvelopeShape /\ CapsHeld

(* What every call of the envelope for c leaves: a good envelope, and what the others have. *)
EntriesKept(c) ==
    /\ EnvelopeInv'
    /\ \A e \in Candidates : e # c =>
         \A d \in Boards : reservationOf(d, e)' = reservationOf(d, e) /\ spendOf(d, e)' = spendOf(d, e)

onDay(S, d) == {r \in S : r.day = d}

LEMMA SpentIsSum ==
    ASSUME NEW b, NEW d
    PROVE  /\ spentOn(b, d) = Cardinality(onDay(reservations[b], d)) + Cardinality(onDay(spends[b], d))
           /\ spentOn(b, d)' = Cardinality(onDay(reservations'[b], d)) + Cardinality(onDay(spends'[b], d))
BY DEF spentOn, onDay

LEMMA OnDayFinite ==
    ASSUME NEW S, IsFiniteSet(S), NEW d
    PROVE  IsFiniteSet(onDay(S, d)) /\ Cardinality(onDay(S, d)) \in Nat
<1>1. onDay(S, d) \in SUBSET S
  BY DEF onDay
<1>2. QED
  BY <1>1, FS_Subset, FS_CardinalityType

LEMMA ImageIsSmaller ==
    ASSUME NEW S, IsFiniteSet(S), NEW T, NEW f \in [S -> T],
           \A t \in T : \E s \in S : f[s] = t
    PROVE  IsFiniteSet(T) /\ Cardinality(T) <= Cardinality(S)
<1>1. f \in Surjection(S, T)
  BY DEF Surjection
<1>2. QED
  BY <1>1, FS_Surjection

(* A smaller set of entries costs no more. *)
LEMMA FewerCostLess ==
    ASSUME NEW S, IsFiniteSet(S), NEW T, T \subseteq S
    PROVE  /\ IsFiniteSet(T) /\ Cardinality(T) <= Cardinality(S)
           /\ \A d : Cardinality(onDay(T, d)) <= Cardinality(onDay(S, d))
<1>1. T \in SUBSET S
  OBVIOUS
<1>2. ASSUME NEW d
      PROVE  Cardinality(onDay(T, d)) <= Cardinality(onDay(S, d))
  <2>1. onDay(T, d) \in SUBSET onDay(S, d)
    BY <1>1 DEF onDay
  <2>2. QED
    BY <2>1, OnDayFinite, FS_Subset
<1>3. QED
  BY <1>1, <1>2, FS_Subset

(* A new entry costs one, on its day. *)
LEMMA OneCostsOne ==
    ASSUME NEW S, IsFiniteSet(S), NEW x
    PROVE  /\ IsFiniteSet(S \cup {x}) /\ Cardinality(S \cup {x}) <= Cardinality(S) + 1
           /\ \A d : Cardinality(onDay(S \cup {x}, d)) <=
                         IF x.day = d THEN Cardinality(onDay(S, d)) + 1 ELSE Cardinality(onDay(S, d))
<1>1. Cardinality(S) \in Nat
  BY FS_CardinalityType
<1>2. IsFiniteSet(S \cup {x}) /\ Cardinality(S \cup {x}) <= Cardinality(S) + 1
  BY <1>1, FS_AddElement
<1>3. ASSUME NEW d
      PROVE  Cardinality(onDay(S \cup {x}, d)) <=
                 IF x.day = d THEN Cardinality(onDay(S, d)) + 1 ELSE Cardinality(onDay(S, d))
  <2>1. IsFiniteSet(onDay(S, d)) /\ Cardinality(onDay(S, d)) \in Nat
    BY OnDayFinite
  <2>2. CASE x.day = d
    <3>1. onDay(S \cup {x}, d) = onDay(S, d) \cup {x}
      BY <2>2 DEF onDay
    <3>2. Cardinality(onDay(S, d) \cup {x}) =
              IF x \in onDay(S, d) THEN Cardinality(onDay(S, d)) ELSE Cardinality(onDay(S, d)) + 1
      BY <2>1, FS_AddElement
    <3>3. Cardinality(onDay(S, d) \cup {x}) <= Cardinality(onDay(S, d)) + 1
      BY <2>1, <3>2
    <3>4. Cardinality(onDay(S \cup {x}, d)) <= Cardinality(onDay(S, d)) + 1
      BY <3>1, <3>3, Zenon
    <3>5. QED
      BY <2>2, <3>4
  <2>3. CASE x.day # d
    <3>1. onDay(S \cup {x}, d) = onDay(S, d)
      BY <2>3 DEF onDay
    <3>2. QED
      BY <2>1, <2>3, <3>1
  <2>4. QED
    BY <2>2, <2>3
<1>4. QED
  BY <1>2, <1>3

LEMMA AdmitKeepsEntries ==
    ASSUME ActionsAssumption, EnvelopeInv, NEW b \in Boards, NEW c \in Candidates,
           reserveChallengeSpend(b, c)
    PROVE  EntriesKept(c)
<1> USE DEF EnvelopeInv, EnvelopeShape
<1>1. CASE UNCHANGED <<reservations, buckets>>
  <2>1. EnvelopeShape'
    BY <1>1 DEF reserveChallengeSpend
  <2>2. CapsHeld'
    BY <1>1 DEF reserveChallengeSpend, CapsHeld, spentOn
  <2>3. QED
    BY <1>1, <2>1, <2>2 DEF reserveChallengeSpend, EntriesKept, reservationOf, spendOf
<1>2. CASE /\ withinLimits(b)
           /\ reservations' = [reservations EXCEPT ![b] =
                @ \cup {[id |-> c, day |-> day, health |-> health[b], durable |-> FALSE]}]
           /\ buckets' = [buckets EXCEPT ![b] = @ \cup {day}]
  <2>1. PICK x : x = [id |-> c, day |-> day, health |-> health[b], durable |-> FALSE]
    OBVIOUS
  <2>2. x \in Reservation /\ x.id = c /\ x.day = day
    BY <2>1 DEF Reservation
  <2>3. /\ reservations' = [reservations EXCEPT ![b] = reservations[b] \cup {x}]
        /\ buckets' = [buckets EXCEPT ![b] = buckets[b] \cup {day}]
        /\ UNCHANGED <<spends, health, day>>
        /\ highWater' = [highWater EXCEPT ![b] = health[b]]
    BY <1>2, <2>1 DEF reserveChallengeSpend
  <2>4. /\ IsFiniteSet(reservations[b] \cup {x})
        /\ Cardinality(reservations[b] \cup {x}) <= Cardinality(reservations[b]) + 1
        /\ \A d : Cardinality(onDay(reservations[b] \cup {x}, d)) <=
                      IF day = d THEN Cardinality(onDay(reservations[b], d)) + 1
                      ELSE Cardinality(onDay(reservations[b], d))
    BY <2>2, OneCostsOne
  <2>5. EnvelopeShape'
    <3>1. /\ reservations' \in [Boards -> SUBSET Reservation]
          /\ buckets' \in [Boards -> SUBSET (0..MaxDay)]
          /\ spends' \in [Boards -> SUBSET Spend] /\ day' \in 0..MaxDay
          /\ health' \in [Boards -> 0..MaxHealth] /\ highWater' \in [Boards -> 0..MaxHealth]
      BY <2>2, <2>3
    <3>2. \A d \in Boards : IsFiniteSet(reservations'[d]) /\ IsFiniteSet(spends'[d])
      BY <2>3, <2>4
    <3>3. \A d \in Boards : \A r \in reservations'[d] : r.day \in buckets'[d]
      BY <2>2, <2>3
    <3>4. QED
      BY <3>1, <3>2, <3>3
  <2>6. CapsHeld'
    <3> SUFFICES ASSUME NEW e \in Boards
                 PROVE  /\ Cardinality(reservations'[e]) <= maxPendingProvisioned
                        /\ \A d \in 0..MaxDay : spentOn(e, d)' <= globalDay
      BY DEF CapsHeld
    <3>1. CASE e # b
      BY <2>3, <3>1 DEF CapsHeld, spentOn
    <3>2. CASE e = b
      <4>1. reservations'[b] = reservations[b] \cup {x} /\ spends'[b] = spends[b]
        BY <2>3
      <4>2. Cardinality(reservations[b]) < maxPendingProvisioned /\ spentOn(b, day) + 1 <= globalDay
        BY <1>2 DEF withinLimits
      <4>3. /\ Cardinality(reservations[b]) \in Nat /\ Cardinality(reservations[b] \cup {x}) \in Nat
            /\ {maxPendingProvisioned, globalDay} \subseteq Nat
        BY <2>4, FS_CardinalityType DEF ActionsAssumption, EnvelopeAssumption
      <4>4. Cardinality(reservations'[b]) <= maxPendingProvisioned
        BY <2>4, <4>1, <4>2, <4>3
      <4>5. ASSUME NEW d \in 0..MaxDay
            PROVE  spentOn(b, d)' <= globalDay
        <5>1. /\ Cardinality(onDay(reservations[b], d)) \in Nat
              /\ Cardinality(onDay(spends[b], d)) \in Nat
              /\ Cardinality(onDay(reservations'[b], d)) \in Nat
          BY <2>4, <4>1, OnDayFinite
        <5>2. spentOn(b, d) <= globalDay
          BY DEF CapsHeld
        <5>3. /\ spentOn(b, d) = Cardinality(onDay(reservations[b], d)) + Cardinality(onDay(spends[b], d))
              /\ spentOn(b, d)' = Cardinality(onDay(reservations'[b], d)) + Cardinality(onDay(spends[b], d))
          BY <4>1, SpentIsSum
        <5>4. Cardinality(onDay(reservations'[b], d)) <=
                  IF day = d THEN Cardinality(onDay(reservations[b], d)) + 1
                  ELSE Cardinality(onDay(reservations[b], d))
          BY <2>4, <4>1
        <5>5. CASE d = day
          BY <4>2, <4>3, <5>1, <5>3, <5>4, <5>5
        <5>6. CASE d # day
          BY <4>3, <5>1, <5>2, <5>3, <5>4, <5>6
        <5>7. QED
          BY <5>5, <5>6
      <4>6. QED
        BY <3>2, <4>4, <4>5
    <3>3. QED
      BY <3>1, <3>2
  <2>7. \A e \in Candidates : e # c =>
          \A d \in Boards : reservationOf(d, e)' = reservationOf(d, e) /\ spendOf(d, e)' = spendOf(d, e)
    BY <2>2, <2>3 DEF reservationOf, spendOf
  <2>8. QED
    BY <2>5, <2>6, <2>7 DEF EntriesKept
<1>3. QED
  BY <1>1, <1>2 DEF reserveChallengeSpend

(* Caps hold on when a board's entries come to cost no more. *)
LEMMA CheaperKeepsCaps ==
    ASSUME ActionsAssumption, EnvelopeInv, NEW b \in Boards,
           \A e \in Boards : e # b => reservations'[e] = reservations[e] /\ spends'[e] = spends[e],
           IsFiniteSet(reservations'[b]), IsFiniteSet(spends'[b]),
           Cardinality(reservations'[b]) <= Cardinality(reservations[b]),
           \A d : spentOn(b, d)' <= spentOn(b, d)
    PROVE  CapsHeld'
<1> SUFFICES ASSUME NEW e \in Boards
             PROVE  /\ Cardinality(reservations'[e]) <= maxPendingProvisioned
                    /\ \A d \in 0..MaxDay : spentOn(e, d)' <= globalDay
  BY DEF CapsHeld
<1>1. CASE e # b
  BY <1>1 DEF EnvelopeInv, CapsHeld, spentOn
<1>2. CASE e = b
  <2>1. /\ Cardinality(reservations[b]) \in Nat /\ Cardinality(reservations'[b]) \in Nat
        /\ maxPendingProvisioned \in Nat /\ globalDay \in Nat
    BY FS_CardinalityType DEF EnvelopeInv, EnvelopeShape, ActionsAssumption, EnvelopeAssumption
  <2>2. Cardinality(reservations[b]) <= maxPendingProvisioned
    BY DEF EnvelopeInv, CapsHeld
  <2>3. ASSUME NEW d \in 0..MaxDay
        PROVE  spentOn(b, d)' <= globalDay
    <3>1. /\ Cardinality(onDay(reservations[b], d)) \in Nat
          /\ Cardinality(onDay(spends[b], d)) \in Nat
          /\ Cardinality(onDay(reservations'[b], d)) \in Nat
          /\ Cardinality(onDay(spends'[b], d)) \in Nat
      BY OnDayFinite DEF EnvelopeInv, EnvelopeShape
    <3>2. spentOn(b, d) \in Nat /\ spentOn(b, d)' \in Nat
      BY <3>1, SpentIsSum
    <3>3. spentOn(b, d) <= globalDay
      BY DEF EnvelopeInv, CapsHeld
    <3>4. spentOn(b, d)' <= spentOn(b, d)
      OBVIOUS
    <3>5. QED
      BY <2>1, <3>2, <3>3, <3>4
  <2>4. QED
    BY <1>2, <2>1, <2>2, <2>3
<1>3. QED
  BY <1>1, <1>2

LEMMA MarkKeepsEntries ==
    ASSUME ActionsAssumption, EnvelopeInv, NEW b \in Boards, NEW c \in Candidates,
           markJournalDurable(b, c)
    PROVE  EntriesKept(c) /\ reservationOf(b, c)' # {}
<1> DEFINE S == reservations[b]
           R == reservationOf(b, c)
           durable(r) == [r EXCEPT !.durable = TRUE]
           T == (S \ R) \cup {durable(r) : r \in R}
           f == [r \in S |-> IF r \in R THEN durable(r) ELSE r]
<1>1. S \subseteq Reservation /\ IsFiniteSet(S) /\ IsFiniteSet(spends[b])
  BY DEF EnvelopeInv, EnvelopeShape
<1>2. \A r \in R : r \in S /\ r.id = c
  BY DEF reservationOf
<1>3. \A r \in R : /\ durable(r) \in Reservation /\ durable(r).id = c /\ durable(r).day = r.day
  BY <1>1, <1>2 DEF Reservation
<1>4. reservations' = [reservations EXCEPT ![b] = T] /\ UNCHANGED <<spends, buckets, highWater, health, day>>
  BY DEF markJournalDurable
<1>5. reservations'[b] = T /\ \A e \in Boards : e # b => reservations'[e] = reservations[e]
  BY <1>4 DEF EnvelopeInv, EnvelopeShape
<1>6. \A y : y \in T <=> (y \in S /\ y \notin R) \/ \E r \in R : y = durable(r)
  OBVIOUS
<1> HIDE DEF durable, T
<1>7. f \in [S -> T] /\ \A t \in T : \E s \in S : f[s] = t
  BY <1>2, <1>6
<1>8. IsFiniteSet(T) /\ Cardinality(T) <= Cardinality(S)
  BY <1>1, <1>7, ImageIsSmaller
<1>9. ASSUME NEW d
      PROVE  Cardinality(onDay(T, d)) <= Cardinality(onDay(S, d))
  <2> DEFINE g == [r \in onDay(S, d) |-> f[r]]
  <2>1. \A r \in S : f[r].day = r.day
    BY <1>3
  <2>2. \A r \in onDay(S, d) : r \in S /\ r.day = d
    BY DEF onDay
  <2>3. \A r \in onDay(S, d) : f[r] \in onDay(T, d)
    BY <1>7, <2>1, <2>2 DEF onDay
  <2>4. ASSUME NEW t \in onDay(T, d)
        PROVE  \E s \in onDay(S, d) : f[s] = t
    <3>1. PICK s \in S : f[s] = t
      BY <1>7 DEF onDay
    <3>2. s.day = d
      BY <2>1, <3>1 DEF onDay
    <3>3. QED
      BY <3>1, <3>2 DEF onDay
  <2> HIDE DEF f
  <2>5. g \in [onDay(S, d) -> onDay(T, d)] /\ \A t \in onDay(T, d) : \E s \in onDay(S, d) : g[s] = t
    BY <2>3, <2>4
  <2> HIDE DEF g
  <2>6. IsFiniteSet(onDay(S, d))
    BY <1>1, OnDayFinite
  <2>7. QED
    BY <2>5, <2>6, ImageIsSmaller
<1>10. ASSUME NEW d
       PROVE  spentOn(b, d)' <= spentOn(b, d)
  <2>1. /\ Cardinality(onDay(S, d)) \in Nat /\ Cardinality(onDay(T, d)) \in Nat
        /\ Cardinality(onDay(spends[b], d)) \in Nat
    BY <1>1, <1>8, OnDayFinite
  <2>2. /\ spentOn(b, d) = Cardinality(onDay(S, d)) + Cardinality(onDay(spends[b], d))
        /\ spentOn(b, d)' = Cardinality(onDay(T, d)) + Cardinality(onDay(spends[b], d))
    BY <1>4, <1>5, SpentIsSum
  <2>3. QED
    BY <1>9, <2>1, <2>2
<1>11. CapsHeld'
  BY <1>1, <1>4, <1>5, <1>8, <1>10, CheaperKeepsCaps
<1>12. T \subseteq Reservation /\ \A r \in T : r.day \in buckets[b]
  BY <1>1, <1>2, <1>3, <1>6 DEF EnvelopeInv, EnvelopeShape
<1>13. EnvelopeShape'
  BY <1>4, <1>5, <1>8, <1>12 DEF EnvelopeInv, EnvelopeShape
<1>14. ASSUME NEW e \in Candidates, e # c, NEW d \in Boards
       PROVE  reservationOf(d, e)' = reservationOf(d, e) /\ spendOf(d, e)' = spendOf(d, e)
  <2>1. \A y : (y \in T /\ y.id = e) <=> (y \in S /\ y.id = e)
    BY <1>2, <1>3, <1>6, <1>14
  <2>2. QED
    BY <1>4, <1>5, <2>1 DEF reservationOf, spendOf
<1>15. reservationOf(b, c)' # {}
  <2>1. PICK r \in R : TRUE
    BY DEF markJournalDurable
  <2>2. durable(r) \in T /\ durable(r).id = c
    BY <1>3, <1>6
  <2>3. QED
    BY <1>5, <2>2 DEF reservationOf
<1>16. QED
  BY <1>11, <1>13, <1>14, <1>15 DEF EntriesKept, EnvelopeInv

LEMMA ReleaseKeepsEntries ==
    ASSUME ActionsAssumption, EnvelopeInv, NEW b \in Boards, NEW c \in Candidates,
           releaseChallengeReservation(b, c)
    PROVE  EntriesKept(c) /\ (MaxDay = 0 => reservationOf(b, c)' = {})
<1> DEFINE S == reservations[b]
           T == S \ {r \in reservationOf(b, c) : r.day = firstBucket(b)}
<1>1. S \subseteq Reservation /\ IsFiniteSet(S) /\ IsFiniteSet(spends[b])
  BY DEF EnvelopeInv, EnvelopeShape
<1>2. reservations' = [reservations EXCEPT ![b] = T] /\ UNCHANGED <<spends, buckets, highWater, health, day>>
  BY DEF releaseChallengeReservation
<1>3. reservations'[b] = T /\ \A e \in Boards : e # b => reservations'[e] = reservations[e]
  BY <1>2 DEF EnvelopeInv, EnvelopeShape
<1>4. T \subseteq S /\ (\A r \in S : r.id # c => r \in T)
      /\ \A r \in S : r.id = c /\ r.day = firstBucket(b) => r \notin T
  BY DEF reservationOf
<1> HIDE DEF T
<1>5. IsFiniteSet(T) /\ Cardinality(T) <= Cardinality(S)
      /\ \A d : Cardinality(onDay(T, d)) <= Cardinality(onDay(S, d))
  BY <1>1, <1>4, FewerCostLess
<1>6. ASSUME NEW d
      PROVE  spentOn(b, d)' <= spentOn(b, d)
  <2>1. /\ Cardinality(onDay(S, d)) \in Nat /\ Cardinality(onDay(T, d)) \in Nat
        /\ Cardinality(onDay(spends[b], d)) \in Nat
    BY <1>1, <1>5, OnDayFinite
  <2>2. /\ spentOn(b, d) = Cardinality(onDay(S, d)) + Cardinality(onDay(spends[b], d))
        /\ spentOn(b, d)' = Cardinality(onDay(T, d)) + Cardinality(onDay(spends[b], d))
    BY <1>2, <1>3, SpentIsSum
  <2>3. Cardinality(onDay(T, d)) <= Cardinality(onDay(S, d))
    BY <1>5
  <2>4. QED
    BY <2>1, <2>2, <2>3
<1>7. CapsHeld'
  BY <1>1, <1>2, <1>3, <1>5, <1>6, CheaperKeepsCaps
<1>8. EnvelopeShape'
  BY <1>1, <1>2, <1>3, <1>4, <1>5 DEF EnvelopeInv, EnvelopeShape
<1>9. ASSUME NEW e \in Candidates, e # c, NEW d \in Boards
      PROVE  reservationOf(d, e)' = reservationOf(d, e) /\ spendOf(d, e)' = spendOf(d, e)
  <2>1. \A y : (y \in T /\ y.id = e) <=> (y \in S /\ y.id = e)
    BY <1>4, <1>9
  <2>2. QED
    BY <1>2, <1>3, <2>1 DEF reservationOf, spendOf
<1>10. ASSUME MaxDay = 0, NEW r \in T, r.id = c
       PROVE  FALSE
  <2>1. r.day \in buckets[b] /\ buckets[b] \subseteq {0} /\ r \in S
    BY <1>4, <1>10 DEF EnvelopeInv, EnvelopeShape
  <2>2. firstBucket(b) \in buckets[b]
    BY <2>1 DEF firstBucket
  <2>3. r.day = firstBucket(b)
    BY <2>1, <2>2
  <2>4. QED
    BY <1>4, <1>10, <2>1, <2>3
<1>11. MaxDay = 0 => reservationOf(b, c)' = {}
  BY <1>3, <1>10 DEF reservationOf
<1>12. QED
  BY <1>7, <1>8, <1>9, <1>11 DEF EntriesKept, EnvelopeInv

LEMMA FinalizeKeepsEntries ==
    ASSUME ActionsAssumption, EnvelopeInv, NEW b \in Boards, NEW c \in Candidates,
           finalizeChallengeSpend(b, c)
    PROVE  EntriesKept(c) /\ spendOf(b, c)' # {} /\ reservationOf(b, c)' = {}
<1> DEFINE S == reservations[b]
           R == reservationOf(b, c)
           T == S \ R
           spend(r) == [id |-> c, day |-> r.day]
           N == {spend(r) : r \in R}
           U == spends[b] \cup N
<1>1. S \subseteq Reservation /\ spends[b] \subseteq Spend /\ IsFiniteSet(S) /\ IsFiniteSet(spends[b])
  BY DEF EnvelopeInv, EnvelopeShape
<1>2. \A r : r \in R <=> r \in S /\ r.id = c
  BY DEF reservationOf
<1>3. /\ reservations' = [reservations EXCEPT ![b] = T] /\ spends' = [spends EXCEPT ![b] = U]
      /\ UNCHANGED <<buckets, highWater, health, day>>
  BY DEF finalizeChallengeSpend
<1>4. /\ reservations'[b] = T /\ \A e \in Boards : e # b => reservations'[e] = reservations[e]
      /\ spends'[b] = U /\ \A e \in Boards : e # b => spends'[e] = spends[e]
  BY <1>3 DEF EnvelopeInv, EnvelopeShape
<1>5. \A r \in R : spend(r) \in Spend /\ spend(r).id = c /\ spend(r).day = r.day
  BY <1>1, <1>2 DEF Reservation, Spend
<1>6. \A y : y \in N <=> \E r \in R : y = spend(r)
  OBVIOUS
<1>7. R \subseteq S
  BY <1>2
<1> HIDE DEF R, N, spend
<1>8. IsFiniteSet(T) /\ Cardinality(T) <= Cardinality(S)
  BY <1>1, FewerCostLess
<1>9. IsFiniteSet(U)
  <2> DEFINE f == [r \in R |-> spend(r)]
  <2>1. f \in [R -> N] /\ \A t \in N : \E r \in R : f[r] = t
    BY <1>6
  <2> HIDE DEF f
  <2>2. IsFiniteSet(R)
    BY <1>1, <1>7, FewerCostLess
  <2>3. IsFiniteSet(N)
    BY <2>1, <2>2, ImageIsSmaller
  <2>4. QED
    BY <1>1, <2>3, FS_Union
<1>10. ASSUME NEW d
       PROVE  spentOn(b, d)' <= spentOn(b, d)
  <2> DEFINE A == onDay(S, d)
             B == onDay(spends[b], d)
             x == [id |-> c, day |-> d]
  <2>1. IsFiniteSet(A) /\ Cardinality(A) \in Nat /\ IsFiniteSet(B) /\ Cardinality(B) \in Nat
    BY <1>1, OnDayFinite
  <2>2. /\ Cardinality(onDay(T, d)) \in Nat /\ Cardinality(onDay(U, d)) \in Nat
    BY <1>8, <1>9, OnDayFinite
  <2>3. /\ spentOn(b, d) = Cardinality(A) + Cardinality(B)
        /\ spentOn(b, d)' = Cardinality(onDay(T, d)) + Cardinality(onDay(U, d))
    BY <1>4, SpentIsSum
  <2>4. CASE onDay(R, d) = {}
    <3>1. onDay(T, d) = A
      BY <1>7, <2>4 DEF onDay
    <3>2. onDay(U, d) = B
      BY <1>5, <1>6, <2>4 DEF onDay
    <3>3. QED
      BY <2>1, <2>3, <3>1, <3>2
  <2>5. CASE onDay(R, d) # {}
    <3>1. PICK r : r \in R /\ r.day = d
      BY <2>5 DEF onDay
    <3>2. r \in A /\ onDay(T, d) \in SUBSET (A \ {r})
      BY <1>7, <3>1 DEF onDay
    <3>3. IsFiniteSet(A \ {r}) /\ Cardinality(A \ {r}) = Cardinality(A) - 1
      BY <2>1, <3>2, FS_RemoveElement
    <3>4. Cardinality(onDay(T, d)) <= Cardinality(A \ {r})
      BY <3>2, <3>3, FS_Subset
    <3>5. \A q \in R : q.day = d => spend(q) = x
      BY DEF spend
    <3>6. onDay(U, d) \in SUBSET (B \cup {x})
      BY <1>5, <1>6, <3>5 DEF onDay
    <3>7. IsFiniteSet(B \cup {x}) /\ Cardinality(B \cup {x}) =
              IF x \in B THEN Cardinality(B) ELSE Cardinality(B) + 1
      BY <2>1, FS_AddElement
    <3>8. Cardinality(onDay(U, d)) <= Cardinality(B \cup {x})
      BY <3>6, <3>7, FS_Subset
    <3> HIDE DEF A, B, x
    <3>9. Cardinality(onDay(T, d)) <= Cardinality(A) - 1
      BY <3>3, <3>4
    <3>10. Cardinality(onDay(U, d)) <= Cardinality(B) + 1
      BY <2>1, <2>2, <3>7, <3>8
    <3>11. QED
      BY <2>1, <2>2, <2>3, <3>9, <3>10
  <2>6. QED
    BY <2>4, <2>5
<1>11. CapsHeld'
  BY <1>4, <1>8, <1>9, <1>10, CheaperKeepsCaps
<1>12. U \subseteq Spend
  BY <1>1, <1>5, <1>6
<1>13. EnvelopeShape'
  BY <1>1, <1>3, <1>4, <1>8, <1>9, <1>12 DEF EnvelopeInv, EnvelopeShape
<1>14. ASSUME NEW e \in Candidates, e # c, NEW d \in Boards
       PROVE  reservationOf(d, e)' = reservationOf(d, e) /\ spendOf(d, e)' = spendOf(d, e)
  <2>1. \A y : (y \in T /\ y.id = e) <=> (y \in S /\ y.id = e)
    BY <1>2, <1>14
  <2>2. \A y : (y \in U /\ y.id = e) <=> (y \in spends[b] /\ y.id = e)
    BY <1>5, <1>6, <1>14
  <2> HIDE DEF T, U
  <2>3. QED
    BY <1>4, <2>1, <2>2 DEF reservationOf, spendOf
<1>15. reservationOf(b, c)' = {}
  BY <1>2, <1>4 DEF reservationOf
<1>16. spendOf(b, c)' # {}
  <2>1. CASE R # {}
    BY <1>4, <1>5, <1>6, <2>1 DEF spendOf
  <2>2. CASE R = {}
    BY <1>4, <2>2 DEF finalizeChallengeSpend, known, spendOf, R
  <2>3. QED
    BY <2>1, <2>2
<1>17. QED
  BY <1>11, <1>13, <1>14, <1>15, <1>16 DEF EntriesKept, EnvelopeInv

LEMMA TimeKeepsEntries ==
    ASSUME ActionsAssumption, EnvelopeInv, envelopeTime
    PROVE  EnvelopeInv' /\ UNCHANGED <<reservations, spends>>
<1>1. UNCHANGED <<reservations, spends>>
  BY DEF envelopeTime, nextDay, publishHealth
<1>2. EnvelopeShape'
  BY <1>1 DEF envelopeTime, nextDay, publishHealth, EnvelopeInv, EnvelopeShape, ActionsAssumption,
         EnvelopeAssumption
<1>3. CapsHeld'
  BY <1>1 DEF EnvelopeInv, CapsHeld, spentOn
<1>4. QED
  BY <1>1, <1>2, <1>3 DEF EnvelopeInv

LEMMA EntriesUnchanged ==
    ASSUME EnvelopeInv, UNCHANGED envelopeVars
    PROVE  EnvelopeInv'
           /\ \A d, e : reservationOf(d, e)' = reservationOf(d, e) /\ spendOf(d, e)' = spendOf(d, e)
<1>1. UNCHANGED <<reservations, spends, buckets, highWater, health, day>>
  BY DEF envelopeVars
<1>2. EnvelopeShape' /\ CapsHeld'
  BY <1>1 DEF EnvelopeInv, EnvelopeShape, CapsHeld, spentOn
<1>3. QED
  BY <1>1, <1>2 DEF EnvelopeInv, reservationOf, spendOf

-----------------------------------------------------------------------------
(* The network holds what was signed; the mined transactions are numbered by their nonces. *)
Transaction == [by : Candidates \cup {Outside}, nonce : Nat]

FilesInv ==
    /\ record \in [Candidates -> Nat \cup {NoNonce}]
    /\ action \in [Candidates -> Statuses] /\ claims \subseteq Nat

NetworkInv ==
    /\ mempool \subseteq Transaction /\ IsFiniteSet(mempool)
    /\ mined \in Seq(Transaction) /\ finalized \in 0..Len(mined)
    /\ \A i \in 1..Len(mined) : mined[i].nonce = i - 1 /\ mined[i] \notin mempool
    /\ \A i \in 1..Len(mined) : mined[i].by # Outside => mined[i] = transaction(mined[i].by)
    /\ \A t \in mempool : t.by # Outside => t = transaction(t.by)

LEMMA LeastMember ==
    ASSUME NEW L \in Nat, NEW M \in Nat, NEW F, F \subseteq L..M, F # {}
    PROVE  \E n \in F : \A m \in L..(n - 1) : m \notin F
<1> DEFINE below(n) == L..n
           D == {below(n) : n \in F}
<1>1. IsFiniteSet(L..M)
  BY FS_Interval
<1>2. IsWellFoundedOn(StrictSubsetOrdering(L..M), FiniteSubsetsOf(L..M))
  BY FS_StrictSubsetOrderingWellFounded
<1>3. D \subseteq FiniteSubsetsOf(L..M)
  <2> SUFFICES ASSUME NEW n \in F
               PROVE  below(n) \in FiniteSubsetsOf(L..M)
    OBVIOUS
  <2>1. below(n) \in SUBSET (L..M)
    OBVIOUS
  <2>2. QED
    BY <1>1, <2>1, FS_Subset DEF FiniteSubsetsOf
<1>4. D # {}
  OBVIOUS
<1>5. PICK A \in D : \A B \in D : ~(<<B, A>> \in StrictSubsetOrdering(L..M))
  BY <1>2, <1>3, <1>4, WFMin, Zenon
<1>6. PICK n \in F : A = below(n)
  OBVIOUS
<1>7. ASSUME NEW m \in L..(n - 1), m \in F
      PROVE  FALSE
  <2>1. below(m) \in D
    BY <1>7
  <2>2. below(m) \subseteq below(n) /\ below(m) # below(n) /\ below(n) \subseteq L..M
    <3>1. n \in below(n) /\ n \notin below(m) /\ below(m) \subseteq below(n)
      BY <1>7
    <3>2. QED
      BY <3>1
  <2>3. <<below(m), below(n)>> \in StrictSubsetOrdering(L..M)
    BY <2>2 DEF StrictSubsetOrdering
  <2>4. QED
    BY <1>5, <1>6, <2>1, <2>3
<1>8. QED
  BY <1>7

(* eth_getTransactionCount(pending) is not below the count of mined transactions. *)
LEMMA PendingCounts ==
    ASSUME NetworkInv
    PROVE  pendingCount \in Nat /\ pendingCount >= Len(mined)
<1> DEFINE L == Len(mined)
           K == Cardinality(mempool)
           N == {t.nonce : t \in mempool}
           F == {n \in L..(L + K) : n \notin N}
<1>1. L \in Nat /\ K \in Nat
  BY FS_CardinalityType DEF NetworkInv
<1>2. F # {}
  <2> SUFFICES ASSUME L..(L + K) \subseteq N
               PROVE  FALSE
    OBVIOUS
  <2>1. IsFiniteSet(N) /\ Cardinality(N) <= K
    <3> DEFINE f == [t \in mempool |-> t.nonce]
    <3>1. f \in [mempool -> N] /\ \A n \in N : \E t \in mempool : f[t] = n
      OBVIOUS
    <3> HIDE DEF f, N
    <3>2. QED
      BY <3>1, ImageIsSmaller DEF NetworkInv
  <2>2. Cardinality(L..(L + K)) = K + 1
    BY <1>1, FS_Interval
  <2>3. Cardinality(L..(L + K)) <= Cardinality(N)
    BY <2>1, FS_Subset
  <2>4. Cardinality(N) \in Nat
    BY <2>1, FS_CardinalityType
  <2> HIDE DEF N, L, K
  <2>5. QED
    BY <1>1, <2>1, <2>2, <2>3, <2>4
<1>3. F \subseteq L..(L + K) /\ L + K \in Nat
  BY <1>1
<1>4. PICK n \in F : \A m \in L..(n - 1) : m \notin F
  <2> HIDE DEF F, K, L, N
  <2>1. PICK M \in Nat : M = L + K
    BY <1>1
  <2>2. F \subseteq L..M
    BY <1>3, <2>1
  <2>3. \E n \in F : \A m \in L..(n - 1) : m \notin F
    BY <1>1, <1>2, <2>2, LeastMember
  <2>4. QED
    BY <2>3
<1>5. n \in L..(L + K) /\ ~\E t \in mempool : t.nonce = n
  BY <1>4
<1>6. ASSUME NEW m \in L..(n - 1)
      PROVE  \E t \in mempool : t.nonce = m
  <2>1. m \in L..(L + K)
    BY <1>1, <1>5
  <2>2. QED
    BY <1>4, <2>1
<1> HIDE DEF K, N, F
<1>7. \E p \in L..(L + K) :
        /\ \A m \in L..(p - 1) : \E t \in mempool : t.nonce = m
        /\ ~\E t \in mempool : t.nonce = p
  BY <1>5, <1>6
<1>8. pendingCount \in L..(L + K)
  <2> DEFINE P(p) == /\ \A m \in L..(p - 1) : \E t \in mempool : t.nonce = m
                     /\ ~\E t \in mempool : t.nonce = p
  <2>1. \E p \in L..(L + K) : P(p)
    BY <1>7
  <2>2. pendingCount = CHOOSE p \in L..(L + K) : P(p)
    BY Zenon DEF pendingCount, K
  <2> HIDE DEF P
  <2>3. QED
    BY <2>1, <2>2
<1>9. QED
  BY <1>1, <1>8

LEMMA ObservationsAreNumbers ==
    ASSUME NetworkInv, NEW o \in observations
    PROVE  o.finalized \in Nat /\ o.pending \in Nat
BY PendingCounts DEF observations, NetworkInv

(* What a step that is no concern of c leaves: everything c's safety rests on. *)
Accounted(c) == known(BoardOf[c], c) \/ (isFinal(c) /\ c \in reverted)

SeenSame(c) ==
    /\ nowhere(c) => nowhere(c)'
    /\ isFinal(c) /\ c \in reverted => isFinal(c)' /\ c \in reverted'

LEMMA PoolGrows ==
    ASSUME NetworkInv, NEW t \in Transaction, t.nonce >= Len(mined),
           t.by # Outside => t = transaction(t.by),
           mempool' = mempool \cup {t}, UNCHANGED <<mined, finalized, reverted, record>>
    PROVE  /\ NetworkInv'
           /\ \A c \in Candidates : c # t.by => SeenSame(c)
<1> USE DEF NetworkInv
<1>1. mempool' \subseteq Transaction /\ IsFiniteSet(mempool')
  BY FS_AddElement
<1>2. \A c : transaction(c)' = transaction(c)
  BY DEF transaction
<1>3. \A i \in 1..Len(mined) : mined[i] \notin mempool'
  <2> SUFFICES ASSUME NEW i \in 1..Len(mined), mined[i] = t
               PROVE  FALSE
    OBVIOUS
  <2>1. mined[i].nonce = i - 1 /\ t.nonce \in Nat /\ Len(mined) \in Nat
    BY DEF Transaction
  <2>2. QED
    BY <2>1
<1>4. NetworkInv'
  BY <1>1, <1>2, <1>3
<1>5. ASSUME NEW c \in Candidates, c # t.by
      PROVE  SeenSame(c)
  <2>1. transaction(c).by = c
    BY DEF transaction
  <2>2. nowhere(c) => nowhere(c)'
    BY <1>2, <1>5, <2>1 DEF nowhere, isMined, inMempool
  <2>3. isFinal(c)' = isFinal(c)
    BY <1>2 DEF isFinal
  <2>4. QED
    BY <2>2, <2>3 DEF SeenSame
<1>6. QED
  BY <1>4, <1>5

LEMMA MineKeeps ==
    ASSUME ActionsAssumption, NetworkInv, NEW tx \in mempool, mine(tx)
    PROVE  NetworkInv' /\ \A c \in Candidates : SeenSame(c)
<1> USE DEF NetworkInv
<1>1. /\ tx.nonce = Len(mined) /\ mined' = Append(mined, tx) /\ mempool' = mempool \ {tx}
      /\ reverted' = IF tx.by \in Candidates \ open THEN reverted \cup {tx.by} ELSE reverted \ {tx.by}
      /\ UNCHANGED <<record, action, claims, finalized>>
  BY DEF mine, fileVars
<1>2. tx \in Transaction /\ Len(mined) \in Nat
  OBVIOUS
<1>3. mined' \in Seq(Transaction) /\ Len(mined') = Len(mined) + 1
      /\ (\A i \in 1..Len(mined) : mined'[i] = mined[i]) /\ mined'[Len(mined) + 1] = tx
  BY <1>1, <1>2
<1>4. \A c : transaction(c)' = transaction(c)
  BY <1>1 DEF transaction
<1>5. \A i \in 1..Len(mined') : i \in 1..Len(mined) \/ i = Len(mined) + 1
  BY <1>2, <1>3
<1>6. mempool' \subseteq Transaction /\ IsFiniteSet(mempool')
  BY <1>1, FS_RemoveElement
<1>7. \A i \in 1..Len(mined') : mined'[i].nonce = i - 1 /\ mined'[i] \notin mempool'
  BY <1>1, <1>2, <1>3, <1>5
<1>8. (\A i \in 1..Len(mined) : mined[i].by # Outside => mined[i] = transaction(mined[i].by))'
  BY <1>1, <1>3, <1>5 DEF transaction
<1>9. finalized' \in 0..Len(mined')
  BY <1>1, <1>2, <1>3
<1>10. \A t \in mempool' : t.by # Outside => t = transaction(t.by)'
  BY <1>1, <1>4
<1>11. NetworkInv'
  BY <1>3, <1>6, <1>7, <1>8, <1>9, <1>10
<1>12. ASSUME NEW c \in Candidates
       PROVE  SeenSame(c)
  <2>1. nowhere(c) => nowhere(c)'
    BY <1>1, <1>3, <1>4, <1>5 DEF nowhere, isMined, inMempool
  <2>2. ASSUME isFinal(c), c \in reverted
        PROVE  isFinal(c)' /\ c \in reverted'
    <3>1. PICK i \in 1..finalized : mined[i] = transaction(c)
      BY <2>2 DEF isFinal
    <3>2. i \in 1..Len(mined)
      OBVIOUS
    <3>3. isFinal(c)'
      BY <1>1, <1>3, <1>4, <3>1, <3>2 DEF isFinal
    <3>4. tx.by # c
      <4> SUFFICES ASSUME tx.by = c
                   PROVE  FALSE
        OBVIOUS
      <4>1. tx = transaction(c)
        BY DEF ActionsAssumption
      <4>2. QED
        BY <3>1, <3>2, <4>1
    <3>5. QED
      BY <1>1, <2>2, <3>3, <3>4
  <2>3. QED
    BY <2>1, <2>2 DEF SeenSame
<1>13. QED
  BY <1>11, <1>12

LEMMA ReorgKeeps ==
    ASSUME NetworkInv, reorg
    PROVE  NetworkInv' /\ \A c \in Candidates : SeenSame(c)
<1> USE DEF NetworkInv
<1>1. /\ finalized < Len(mined) /\ mined' = SubSeq(mined, 1, Len(mined) - 1)
      /\ mempool' \in {mempool, mempool \cup {mined[Len(mined)]}}
      /\ UNCHANGED <<record, action, claims, finalized, reverted>>
  BY DEF reorg, fileVars
<1>2. Len(mined) \in Nat /\ Len(mined) \in 1..Len(mined) /\ finalized \in Nat
  BY <1>1
<1>3. mined[Len(mined)] \in Transaction
  BY <1>2
<1>4. /\ mined' \in Seq(Transaction) /\ Len(mined') = Len(mined) - 1
      /\ \A i \in 1..Len(mined') : mined'[i] = mined[i]
  <2>1. 1 \in Int /\ Len(mined) - 1 \in Int /\ \A i \in 1..(Len(mined) - 1) : mined[i] \in Transaction
    BY <1>2
  <2>2. /\ mined' \in Seq(Transaction)
        /\ Len(mined') = IF 1 <= Len(mined) - 1 THEN Len(mined) - 1 - 1 + 1 ELSE 0
        /\ \A i \in 1..(Len(mined) - 1 - 1 + 1) : mined'[i] = mined[1 + i - 1]
    BY <1>1, <2>1, SubSeqProperties
  <2>3. Len(mined') = Len(mined) - 1
    <3>1. PICK n \in Nat : n = Len(mined) /\ n >= 1
      BY <1>2
    <3>2. Len(mined') = IF 1 <= n - 1 THEN n - 1 - 1 + 1 ELSE 0
      BY <2>2, <3>1
    <3>3. CASE n = 1
      BY <3>1, <3>2, <3>3
    <3>4. CASE n > 1
      BY <3>1, <3>2, <3>4
    <3>5. QED
      BY <3>1, <3>3, <3>4
  <2>4. ASSUME NEW i \in 1..Len(mined')
        PROVE  mined'[i] = mined[i]
    <3>1. i \in 1..(Len(mined) - 1 - 1 + 1) /\ 1 + i - 1 = i
      BY <1>2, <2>3
    <3>2. QED
      BY <2>2, <3>1
  <2>5. QED
    BY <2>2, <2>3, <2>4
<1>5. 1..Len(mined') \subseteq 1..Len(mined) /\ Len(mined) \notin 1..Len(mined')
  BY <1>2, <1>4
<1>6. \A c : transaction(c)' = transaction(c)
  BY <1>1 DEF transaction
<1>7. IsFiniteSet(mempool \cup {mined[Len(mined)]})
  BY FS_AddElement
<1>8. mempool' \subseteq Transaction /\ IsFiniteSet(mempool')
  BY <1>1, <1>3, <1>7
<1>9. \A i \in 1..Len(mined') : mined'[i].nonce = i - 1 /\ mined'[i] # mined[Len(mined)]
  <2> SUFFICES ASSUME NEW i \in 1..Len(mined')
               PROVE  mined'[i].nonce = i - 1 /\ mined'[i] # mined[Len(mined)]
    OBVIOUS
  <2>1. mined[Len(mined)].nonce = Len(mined) - 1 /\ mined[i].nonce = i - 1 /\ i # Len(mined)
    BY <1>2, <1>5
  <2>2. QED
    BY <1>2, <1>4, <2>1
<1>10. \A i \in 1..Len(mined') : mined'[i] \notin mempool'
  BY <1>1, <1>4, <1>5, <1>9
<1>11. (\A i \in 1..Len(mined) : mined[i].by # Outside => mined[i] = transaction(mined[i].by))'
  BY <1>1, <1>4, <1>5 DEF transaction
<1>12. finalized' \in 0..Len(mined')
  BY <1>1, <1>2, <1>4
<1>13. \A t \in mempool' : t.by # Outside => t = transaction(t.by)'
  BY <1>1, <1>2, <1>6
<1>14. NetworkInv'
  BY <1>4, <1>8, <1>9, <1>10, <1>11, <1>12, <1>13
<1>15. ASSUME NEW c \in Candidates
       PROVE  SeenSame(c)
  <2>1. nowhere(c) => nowhere(c)'
    BY <1>1, <1>2, <1>4, <1>5, <1>6 DEF nowhere, isMined, inMempool
  <2>2. 1..finalized \subseteq 1..Len(mined')
    BY <1>1, <1>2, <1>4
  <2>3. isFinal(c) => isFinal(c)'
    BY <1>1, <1>4, <1>6, <2>2 DEF isFinal
  <2>4. QED
    BY <1>1, <2>1, <2>3 DEF SeenSame
<1>16. QED
  BY <1>14, <1>15

LEMMA FinalizeKeeps ==
    ASSUME NetworkInv, finalize
    PROVE  NetworkInv' /\ \A c \in Candidates : SeenSame(c)
<1>1. /\ finalized < Len(mined) /\ finalized' = finalized + 1
      /\ UNCHANGED <<record, action, claims, mempool, mined, reverted>>
  BY DEF finalize, fileVars
<1>2. \A c : transaction(c)' = transaction(c)
  BY <1>1 DEF transaction
<1>3. finalized \in Nat /\ Len(mined) \in Nat
  BY DEF NetworkInv
<1>4. NetworkInv'
  BY <1>1, <1>2, <1>3 DEF NetworkInv
<1>5. 1..finalized \subseteq 1..finalized'
  BY <1>1, <1>3
<1>6. ASSUME NEW c \in Candidates
      PROVE  SeenSame(c)
  BY <1>1, <1>2, <1>5 DEF SeenSame, nowhere, isMined, inMempool, isFinal
<1>7. QED
  BY <1>4, <1>6

LEMMA DropKeeps ==
    ASSUME NetworkInv, NEW tx \in mempool, drop(tx)
    PROVE  NetworkInv' /\ \A c \in Candidates : SeenSame(c)
<1>1. /\ mempool' = mempool \ {tx}
      /\ UNCHANGED <<record, action, claims, mined, finalized, reverted>>
  BY DEF drop, fileVars
<1>2. \A c : transaction(c)' = transaction(c)
  BY <1>1 DEF transaction
<1>3. IsFiniteSet(mempool')
  BY <1>1, FS_RemoveElement DEF NetworkInv
<1>4. NetworkInv'
  BY <1>1, <1>2, <1>3 DEF NetworkInv
<1>5. ASSUME NEW c \in Candidates
      PROVE  SeenSame(c)
  BY <1>1, <1>2 DEF SeenSame, nowhere, isMined, inMempool, isFinal
<1>6. QED
  BY <1>4, <1>5

LEMMA NetworkUnchanged ==
    ASSUME NetworkInv, UNCHANGED <<mempool, mined, finalized, reverted, record>>
    PROVE  NetworkInv' /\ \A c \in Candidates : SeenSame(c)
<1>1. \A c : transaction(c)' = transaction(c)
  BY DEF transaction
<1>2. NetworkInv'
  BY <1>1 DEF NetworkInv
<1>3. \A c \in Candidates : SeenSame(c)
  BY <1>1 DEF SeenSame, nowhere, isMined, inMempool, isFinal
<1>4. QED
  BY <1>2, <1>3

(* Bytes that are signed for the first time are nowhere yet. *)
LEMMA SigningKeeps ==
    ASSUME ActionsAssumption, FilesInv, NetworkInv, NEW c \in Candidates, record[c] = NoNonce, NEW n \in Nat,
           record' = [record EXCEPT ![c] = n], UNCHANGED <<mempool, mined, finalized, reverted>>
    PROVE  /\ NetworkInv' /\ nowhere(c)'
           /\ \A e \in Candidates : e # c => SeenSame(e)
<1>1. NoNonce \notin Nat /\ Outside # c
  BY DEF ActionsAssumption
<1>2. \A t \in Transaction : t.by # c \/ t # transaction(c)
  BY <1>1 DEF transaction, Transaction
<1>3. (\A t \in mempool : t.by # c) /\ \A i \in 1..Len(mined) : mined[i].by # c /\ mined[i] \in Transaction
  BY <1>1, <1>2 DEF NetworkInv
<1>4. \A e : e # c => transaction(e)' = transaction(e)
  BY DEF transaction, FilesInv
<1>5. NetworkInv'
  BY <1>3, <1>4 DEF NetworkInv
<1>6. transaction(c)'.by = c
  BY DEF transaction
<1>7. nowhere(c)'
  BY <1>3, <1>6 DEF nowhere, isMined, inMempool
<1>8. ASSUME NEW e \in Candidates, e # c
      PROVE  SeenSame(e)
  BY <1>4, <1>8 DEF SeenSame, nowhere, isMined, inMempool, isFinal
<1>9. QED
  BY <1>5, <1>7, <1>8

-----------------------------------------------------------------------------
(* What holds of a candidate at the point its operator is at with it. *)
PlaceInv(c) ==
    /\ where(c) = "sign" => record[c] # NoNonce \/ reservedOf(c) # {}
    /\ where(c) \in {"journal", "mark", "act"} => record[c] # NoNonce
    /\ where(c) \in {"admitted", "act"} \cup BeforeJournal => action[c] = "none"
    /\ where(c) \in Later => action[c] \in Resumable
    /\ where(c) \in {"send", "sent"} => activeRow(c, record[c])
    /\ where(c) = "act" => known(BoardOf[c], c)
    /\ where(c) = "confirm" => spendOf(BoardOf[c], c) # {} /\ reservationOf(BoardOf[c], c) = {}
    /\ where(c) = "revert" /\ MaxDay = 0 => reservationOf(BoardOf[c], c) = {}

(* What holds of it whoever is where: its bytes have a row, they are nowhere before there is an
   action, and whatever may still cost its bond is accounted for. *)
RestInv(c) ==
    /\ record[c] # NoNonce => rowOf(c, record[c]) # {}
    /\ action[c] = "none" => nowhere(c)
    /\ action[c] \in Resumable => record[c] # NoNonce
    /\ action[c] \in Resumable \/ ~nowhere(c) => Accounted(c)
    /\ action[c] = "confirmed" => spendOf(BoardOf[c], c) # {} /\ reservationOf(BoardOf[c], c) = {}
    /\ action[c] = "broadcast_reverted" /\ MaxDay = 0 => reservationOf(BoardOf[c], c) = {}

CandidateInv(c) == PlaceInv(c) /\ RestInv(c)

WalletInv ==
    /\ FilesInv /\ ProcessInv /\ JournalInv /\ EnvelopeInv /\ NetworkInv
    /\ \A c \in Candidates : CandidateInv(c)

EntriesSame(c) ==
    /\ reservationOf(BoardOf[c], c)' = reservationOf(BoardOf[c], c)
    /\ spendOf(BoardOf[c], c)' = spendOf(BoardOf[c], c)

FilesSame(c) == record'[c] = record[c] /\ action'[c] = action[c]

LEMMA RowsDecide ==
    ASSUME NEW c, rowsOf(c)' = rowsOf(c), record'[c] = record[c]
    PROVE  /\ reservedOf(c)' = reservedOf(c)
           /\ rowOf(c, record[c])' = rowOf(c, record[c])
           /\ activeRow(c, record[c])' = activeRow(c, record[c])
BY DEF reservedOf, rowOf, activeRow

LEMMA AccountedKept ==
    ASSUME NEW c, EntriesSame(c), SeenSame(c), Accounted(c)
    PROVE  Accounted(c)'
BY DEF EntriesSame, SeenSame, Accounted, known

LEMMA ViewKeeps ==
    ASSUME NEW c, CandidateInv(c), where(c)' = where(c), FilesSame(c), rowsOf(c)' = rowsOf(c),
           EntriesSame(c), SeenSame(c)
    PROVE  CandidateInv(c)'
<1>1. /\ reservedOf(c)' = reservedOf(c) /\ rowOf(c, record[c])' = rowOf(c, record[c])
      /\ activeRow(c, record[c])' = activeRow(c, record[c])
  BY RowsDecide DEF FilesSame
<1>2. Accounted(c) => Accounted(c)'
  BY AccountedKept
<1>3. PlaceInv(c)'
  BY <1>1 DEF CandidateInv, PlaceInv, FilesSame, EntriesSame, SeenSame, known
<1>4. RestInv(c)'
  BY <1>1, <1>2 DEF CandidateInv, RestInv, FilesSame, EntriesSame, SeenSame
<1>5. QED
  BY <1>3, <1>4 DEF CandidateInv

(* A step with c keeps the invariant when it keeps the parts and what it says of c. *)
LEMMA StepKeeps ==
    ASSUME ActionsAssumption, WalletInv, NEW c \in Candidates, NEW p, Moved(c, p),
           FilesInv', JournalInv', EnvelopeInv', NetworkInv', CandidateInv(c)',
           \A e \in Candidates : e # c =>
               FilesSame(e) /\ rowsOf(e)' = rowsOf(e) /\ EntriesSame(e) /\ SeenSame(e)
    PROVE  WalletInv'
<1>1. ASSUME NEW e \in Candidates, e # c
      PROVE  CandidateInv(e)'
  <2>1. /\ CandidateInv(e) /\ where(e)' = where(e) /\ FilesSame(e) /\ rowsOf(e)' = rowsOf(e)
        /\ EntriesSame(e) /\ SeenSame(e)
    BY <1>1 DEF WalletInv, Moved
  <2>2. QED
    BY <2>1, ViewKeeps
<1>2. QED
  BY <1>1 DEF WalletInv, Moved

LEMMA OthersEntriesSame ==
    ASSUME ActionsAssumption, NEW c \in Candidates, EntriesKept(c)
    PROVE  \A e \in Candidates : e # c => EntriesSame(e)
BY DEF ActionsAssumption, EnvelopeAssumption, EntriesKept, EntriesSame

(* Steps that only move an operator and set the action of its candidate. *)
Fits(c, p, st) ==
    /\ st \in Statuses
    /\ p \notin {"sign", "journal", "mark", "act", "send", "sent", "confirm", "revert"}
    /\ p \in {"admitted"} \cup BeforeJournal => st = "none"
    /\ p \in Later => st \in Resumable
    /\ st = "none" => action[c] = "none"
    /\ st \in Resumable => record[c] # NoNonce /\ Accounted(c)
    /\ st = "confirmed" => spendOf(BoardOf[c], c) # {} /\ reservationOf(BoardOf[c], c) = {}
    /\ st = "broadcast_reverted" /\ MaxDay = 0 => reservationOf(BoardOf[c], c) = {}

LEMMA QuietKeeps ==
    ASSUME ActionsAssumption, WalletInv, NEW c \in Candidates, NEW p, Moved(c, p), NEW st, Fits(c, p, st),
           action' = [action EXCEPT ![c] = st],
           UNCHANGED <<nonceVars, envelopeVars, record, claims, mempool, mined, finalized, reverted>>
    PROVE  WalletInv'
<1>1. JournalInv' /\ \A e : rowsOf(e)' = rowsOf(e)
  BY JournalKept DEF WalletInv
<1>2. EnvelopeInv' /\ \A e : EntriesSame(e)
  BY EntriesUnchanged DEF WalletInv, EntriesSame
<1>3. NetworkInv' /\ \A e \in Candidates : SeenSame(e)
  BY NetworkUnchanged DEF WalletInv
<1>4. FilesInv' /\ action'[c] = st /\ record' = record
      /\ \A e \in Candidates : e # c => action'[e] = action[e]
  BY DEF WalletInv, FilesInv, Fits
<1>5. CandidateInv(c) /\ where(c)' = p
  BY DEF WalletInv, Moved
<1>6. /\ reservedOf(c)' = reservedOf(c) /\ rowOf(c, record[c])' = rowOf(c, record[c])
      /\ activeRow(c, record[c])' = activeRow(c, record[c])
  BY <1>1, <1>4, RowsDecide
<1>7. Accounted(c) => Accounted(c)'
  BY <1>2, <1>3, AccountedKept
<1>8. nowhere(c) => nowhere(c)'
  BY <1>3 DEF SeenSame
<1>9. PlaceInv(c)'
  BY <1>4, <1>5, <1>8 DEF PlaceInv, Fits
<1>10. ~nowhere(c)' => Accounted(c)
  BY <1>5, <1>8 DEF CandidateInv, RestInv
<1>11. RestInv(c)'
  BY <1>2, <1>4, <1>5, <1>6, <1>7, <1>8, <1>10 DEF CandidateInv, RestInv, EntriesSame, Fits
<1>12. \A e \in Candidates : e # c => FilesSame(e)
  BY <1>4 DEF FilesSame
<1>13. QED
  BY <1>1, <1>2, <1>3, <1>4, <1>9, <1>11, <1>12, StepKeeps DEF CandidateInv

-----------------------------------------------------------------------------
(* The steps, one by one. *)
LEMMA Here ==
    ASSUME WalletInv, NEW b \in Boards, at[b][1] \in Points
    PROVE  \E c \in Candidates :
               /\ c = candidate(b) /\ BoardOf[c] = b /\ where(c) = at[b][1] /\ CandidateInv(c)
               /\ action[c] \in Statuses /\ action = [action EXCEPT ![c] = action[c]]
               /\ at[b] = <<at[b][1], c>> /\ at[b][2] = c
               /\ record[c] \in Nat \cup {NoNonce}
<1>1. candidate(b) \in Candidates /\ BoardOf[candidate(b)] = b /\ where(candidate(b)) = at[b][1]
      /\ at[b] = <<at[b][1], candidate(b)>>
  BY RunningAt DEF WalletInv
<1>2. QED
  BY <1>1 DEF WalletInv, FilesInv, candidate

LEMMA ResumeStep ==
    ASSUME ActionsAssumption, WalletInv, NEW b \in Boards, NEW c \in Candidates, resume(b, c)
    PROVE  WalletInv'
<1>1. /\ BoardOf[c] = b /\ at[b] = Idle /\ action[c] \in Resumable
      /\ at' = [at EXCEPT ![b] = <<"recover", c>>]
      /\ UNCHANGED <<nonceVars, envelopeVars, fileVars, chainVars, mishaps>>
  BY DEF resume, Resumable
<1>2. \A d \in Boards : d # b => at[d][1] \notin WalletLocked
  BY DEF resume, walletLockFree
<1>3. "recover" \in Points
  BY DEF Points, WalletLocked
<1>4. Moved(c, "recover")
  BY <1>1, <1>2, <1>3, PlacesAfter DEF WalletInv
<1>5. action' = [action EXCEPT ![c] = action[c]] /\ action[c] \in Statuses
  BY <1>1 DEF fileVars, WalletInv, FilesInv
<1>6. record[c] # NoNonce /\ Accounted(c) /\ "recover" \notin BeforeJournal
  BY <1>1 DEF WalletInv, CandidateInv, RestInv, BeforeJournal
<1>7. action[c] \notin {"none", "confirmed", "broadcast_reverted"}
  BY <1>1 DEF Resumable
<1>8. Fits(c, "recover", action[c])
  BY <1>1, <1>5, <1>6, <1>7 DEF Fits
<1>9. UNCHANGED <<nonceVars, envelopeVars, record, claims, mempool, mined, finalized, reverted>>
      /\ action' = [action EXCEPT ![c] = action[c]]
  BY <1>1, <1>5 DEF fileVars, chainVars
<1>10. QED
  BY <1>4, <1>8, <1>9, QuietKeeps

LEMMA ExpireStep ==
    ASSUME ActionsAssumption, WalletInv, NEW b \in Boards, NEW c \in Candidates, expire(b, c)
    PROVE  WalletInv'
<1>1. /\ BoardOf[c] = b /\ at[b] = Idle /\ action[c] = "none"
      /\ action' = [action EXCEPT ![c] = "window_expired"]
      /\ UNCHANGED <<nonceVars, envelopeVars, record, claims, at, chainVars, mishaps>>
  BY DEF expire, setAction
<1>2. where(c) = "away"
  <2>1. \A p \in Points : Idle # <<p, c>>
    BY DEF Idle
  <2>2. QED
    BY <1>1, <2>1 DEF where
<1>3. Moved(c, "away")
  BY <1>1, <1>2, PlacesKept DEF WalletInv, Moved
<1>4. "window_expired" \in Statuses /\ "window_expired" \notin Resumable \cup {"none", "confirmed", "broadcast_reverted"}
  BY DEF Statuses, Resumable
<1>5. "away" \notin {"admitted"} \cup BeforeJournal \cup Later
  BY DEF BeforeJournal, Later
<1>6. Fits(c, "away", "window_expired")
  BY <1>4, <1>5 DEF Fits
<1>7. QED
  BY <1>1, <1>3, <1>6, QuietKeeps DEF chainVars

LEMMA LockStep ==
    ASSUME ActionsAssumption, WalletInv, NEW b \in Boards, lockWallet(b)
    PROVE  WalletInv'
<1>1. /\ at[b][1] = "admitted" /\ proceed(b, "preflight")
      /\ UNCHANGED <<nonceVars, envelopeVars, fileVars, chainVars, mishaps>>
      /\ \A d \in Boards : d # b => at[d][1] \notin WalletLocked
  BY DEF lockWallet, running, walletLockFree
<1>2. at[b][1] \in Points /\ "preflight" \in Points /\ "preflight" \in BeforeJournal \ Later
  BY <1>1 DEF Points, WalletLocked, BeforeJournal, Later
<1>3. PICK c \in Candidates :
               /\ c = candidate(b) /\ BoardOf[c] = b /\ where(c) = at[b][1] /\ CandidateInv(c)
               /\ action[c] \in Statuses /\ action = [action EXCEPT ![c] = action[c]]
               /\ at[b] = <<at[b][1], c>> /\ at[b][2] = c
  BY <1>2, Here
<1>4. at' = [at EXCEPT ![b] = <<"preflight", c>>]
  BY <1>1, <1>3 DEF proceed
<1>5. Moved(c, "preflight")
  BY <1>1, <1>2, <1>3, <1>4, PlacesAfter DEF WalletInv
<1>6. action[c] = "none" /\ "none" \notin Resumable
  BY <1>1, <1>3 DEF CandidateInv, PlaceInv, Resumable
<1>7. UNCHANGED <<nonceVars, envelopeVars, record, claims, mempool, mined, finalized, reverted>>
      /\ action' = [action EXCEPT ![c] = action[c]]
  BY <1>1, <1>3 DEF fileVars, chainVars
<1>8. Fits(c, "preflight", action[c])
  BY <1>2, <1>3, <1>6 DEF Fits
<1>9. QED
  BY <1>5, <1>7, <1>8, QuietKeeps

(* What a step inside the wallet lock starts from. *)
LEMMA Inside ==
    ASSUME ActionsAssumption, WalletInv, NEW b \in Boards, at[b][1] \in WalletLocked
    PROVE  \E c \in Candidates :
               /\ c = candidate(b) /\ BoardOf[c] = b /\ where(c) = at[b][1] /\ CandidateInv(c)
               /\ action[c] \in Statuses /\ action = [action EXCEPT ![c] = action[c]]
               /\ record[c] \in Nat \cup {NoNonce}
               /\ \A p \in WalletLocked : proceed(b, p) => Moved(c, p)
               /\ leave(b) => Moved(c, "away")
<1>1. at[b][1] \in Points
  BY PointsAreNotIdle
<1>2. PICK c \in Candidates :
               /\ c = candidate(b) /\ BoardOf[c] = b /\ where(c) = at[b][1] /\ CandidateInv(c)
               /\ action[c] \in Statuses /\ action = [action EXCEPT ![c] = action[c]]
               /\ record[c] \in Nat \cup {NoNonce}
  BY <1>1, Here
<1>3. \A p \in WalletLocked : proceed(b, p) => Moved(c, p)
  BY <1>2, PlacesGoto DEF WalletInv
<1>4. leave(b) => Moved(c, "away")
  BY <1>1, <1>2, PlacesLeft DEF WalletInv
<1>5. QED
  BY <1>2, <1>3, <1>4

LEMMA PreflightStep ==
    ASSUME ActionsAssumption, WalletInv, NEW b \in Boards, preflight(b)
    PROVE  WalletInv'
<1>1. /\ at[b][1] = "preflight" /\ proceed(b, "nonce")
      /\ UNCHANGED <<nonceVars, envelopeVars, fileVars, chainVars, mishaps>>
  BY DEF preflight, running
<1>2. {"preflight", "nonce"} \subseteq WalletLocked /\ {"preflight", "nonce"} \subseteq BeforeJournal \ Later
  BY DEF WalletLocked, BeforeJournal, Later
<1>3. PICK c \in Candidates :
               /\ c = candidate(b) /\ where(c) = at[b][1] /\ CandidateInv(c)
               /\ action[c] \in Statuses /\ action = [action EXCEPT ![c] = action[c]]
               /\ \A p \in WalletLocked : proceed(b, p) => Moved(c, p)
  BY <1>1, <1>2, Inside
<1>4. Moved(c, "nonce")
  BY <1>1, <1>2, <1>3
<1>5. action[c] = "none" /\ "none" \notin Resumable
  BY <1>1, <1>2, <1>3 DEF CandidateInv, PlaceInv, Resumable
<1>6. UNCHANGED <<nonceVars, envelopeVars, record, claims, mempool, mined, finalized, reverted>>
      /\ action' = [action EXCEPT ![c] = action[c]]
  BY <1>1, <1>3 DEF fileVars, chainVars
<1>7. Fits(c, "nonce", action[c])
  BY <1>2, <1>3, <1>5 DEF Fits
<1>8. QED
  BY <1>4, <1>6, <1>7, QuietKeeps

LEMMA ActStep ==
    ASSUME ActionsAssumption, WalletInv, NEW b \in Boards, act(b)
    PROVE  WalletInv'
<1>1. /\ at[b][1] = "act" /\ proceed(b, "recover") /\ action' = [action EXCEPT ![candidate(b)] = "signed"]
      /\ UNCHANGED <<nonceVars, envelopeVars, record, claims, chainVars, mishaps>>
  BY DEF act, running, setAction
<1>2. {"act", "recover"} \subseteq WalletLocked /\ "recover" \in Later /\ "recover" \notin BeforeJournal
  BY DEF WalletLocked, BeforeJournal, Later
<1>3. PICK c \in Candidates :
               /\ c = candidate(b) /\ where(c) = at[b][1] /\ CandidateInv(c)
               /\ \A p \in WalletLocked : proceed(b, p) => Moved(c, p)
  BY <1>1, <1>2, Inside
<1>4. Moved(c, "recover")
  BY <1>1, <1>2, <1>3
<1>5. record[c] # NoNonce /\ Accounted(c)
  BY <1>1, <1>3 DEF CandidateInv, PlaceInv, Accounted
<1>6. "signed" \in Statuses /\ "signed" \in Resumable
  BY DEF Statuses, Resumable
<1>7. Fits(c, "recover", "signed")
  BY <1>2, <1>5, <1>6 DEF Fits
<1>8. QED
  BY <1>1, <1>3, <1>4, <1>7, QuietKeeps DEF chainVars

LEMMA ConfirmStep ==
    ASSUME ActionsAssumption, WalletInv, NEW b \in Boards, confirm(b)
    PROVE  WalletInv'
<1> DEFINE st == IF running(b, "confirm") THEN "confirmed" ELSE "broadcast_reverted"
<1>1. /\ at[b][1] \in {"confirm", "revert"} /\ leave(b) /\ action' = [action EXCEPT ![candidate(b)] = st]
      /\ UNCHANGED <<nonceVars, envelopeVars, record, claims, chainVars, mishaps>>
  BY DEF confirm, running, setAction
<1>2. {"confirm", "revert"} \subseteq WalletLocked /\ "away" \notin {"admitted"} \cup BeforeJournal \cup Later
  BY DEF WalletLocked, BeforeJournal, Later
<1>3. PICK c \in Candidates :
               /\ c = candidate(b) /\ where(c) = at[b][1] /\ CandidateInv(c)
               /\ leave(b) => Moved(c, "away")
  BY <1>1, <1>2, Inside
<1>4. st \in Statuses /\ st \notin Resumable \cup {"none"}
  BY DEF Statuses, Resumable
<1>5. /\ st = "confirmed" => spendOf(BoardOf[c], c) # {} /\ reservationOf(BoardOf[c], c) = {}
      /\ st = "broadcast_reverted" /\ MaxDay = 0 => reservationOf(BoardOf[c], c) = {}
  BY <1>1, <1>3 DEF CandidateInv, PlaceInv, running
<1> HIDE DEF st
<1>6. Fits(c, "away", st)
  BY <1>2, <1>4, <1>5 DEF Fits
<1>7. QED
  BY <1>1, <1>3, <1>6, QuietKeeps DEF chainVars

LEMMA RestFits ==
    ASSUME NEW c, RestInv(c), action[c] \in Statuses
    PROVE  Fits(c, "away", action[c])
BY DEF RestInv, Fits, BeforeJournal, Later

LEMMA CrashStep ==
    ASSUME ActionsAssumption, WalletInv, NEW b \in Boards, operatorCrash(b)
    PROVE  WalletInv'
<1>1. at[b][1] \in Points /\ leave(b)
      /\ UNCHANGED <<nonceVars, envelopeVars, fileVars, chainVars>>
  BY NotIdleRuns DEF operatorCrash, WalletInv
<1>2. PICK c \in Candidates : /\ c = candidate(b) /\ CandidateInv(c) /\ action[c] \in Statuses
                              /\ action = [action EXCEPT ![c] = action[c]]
  BY <1>1, Here
<1>3. Moved(c, "away")
  BY <1>1, <1>2, PlacesLeft DEF WalletInv
<1>4. Fits(c, "away", action[c])
  BY <1>2, RestFits DEF CandidateInv
<1>5. UNCHANGED <<nonceVars, envelopeVars, record, claims, mempool, mined, finalized, reverted>>
      /\ action' = [action EXCEPT ![c] = action[c]]
  BY <1>1, <1>2 DEF fileVars, chainVars
<1>6. QED
  BY <1>3, <1>4, <1>5, QuietKeeps

LEMMA YoungStep ==
    ASSUME ActionsAssumption, WalletInv, NEW b \in Boards, youngReceipt(b)
    PROVE  WalletInv'
<1>1. /\ at[b][1] = "receipt" /\ leave(b) /\ action' = [action EXCEPT ![candidate(b)] = "submitted"]
      /\ UNCHANGED <<nonceVars, envelopeVars, record, claims, chainVars, mishaps>>
  BY DEF youngReceipt, running, setAction
<1>2. "receipt" \in WalletLocked \cap Later /\ "away" \notin {"admitted"} \cup BeforeJournal \cup Later
      /\ "submitted" \in Statuses \cap Resumable
  BY DEF WalletLocked, Later, BeforeJournal, Statuses, Resumable
<1>3. PICK c \in Candidates : /\ c = candidate(b) /\ where(c) = at[b][1] /\ CandidateInv(c)
                              /\ leave(b) => Moved(c, "away")
  BY <1>1, <1>2, Inside
<1>4. record[c] # NoNonce /\ Accounted(c)
  BY <1>1, <1>2, <1>3 DEF CandidateInv, PlaceInv, RestInv
<1>5. Fits(c, "away", "submitted")
  BY <1>2, <1>4 DEF Fits
<1>6. QED
  BY <1>1, <1>3, <1>5, QuietKeeps DEF chainVars

LEMMA GivenUpStep ==
    ASSUME ActionsAssumption, WalletInv, NEW b \in Boards, refuse(b) \/ supersede(b)
    PROVE  WalletInv'
<1>1. PICK st \in {"registry_binding_rejected", "superseded"} :
          /\ at[b][1] \in {"receipt", "fenced"} /\ leave(b)
          /\ action' = [action EXCEPT ![candidate(b)] = st]
          /\ UNCHANGED <<nonceVars, envelopeVars, record, claims, chainVars, mishaps>>
  BY DEF refuse, supersede, running, setAction
<1>2. {"receipt", "fenced"} \subseteq WalletLocked
      /\ "away" \notin {"admitted"} \cup BeforeJournal \cup Later
      /\ st \in Statuses /\ st \notin Resumable
  BY DEF WalletLocked, Later, BeforeJournal, Statuses, Resumable
<1>3. PICK c \in Candidates : c = candidate(b) /\ (leave(b) => Moved(c, "away"))
  BY <1>1, <1>2, Inside
<1>4. Fits(c, "away", st)
  BY <1>2 DEF Fits
<1>5. QED
  BY <1>1, <1>3, <1>4, QuietKeeps DEF chainVars

LEMMA LostStep ==
    ASSUME ActionsAssumption, WalletInv, NEW b \in Boards, noteLoss(b)
    PROVE  WalletInv'
<1>1. /\ at[b][1] = "receipt" /\ proceed(b, "decide")
      /\ action' = [action EXCEPT ![candidate(b)] = IF @ = "submitted" THEN "reorged" ELSE @]
      /\ UNCHANGED <<nonceVars, envelopeVars, record, claims, chainVars, mishaps>>
  BY DEF noteLoss, running
<1>2. {"receipt", "decide"} \subseteq WalletLocked /\ "decide" \notin {"admitted"} \cup BeforeJournal
      /\ "receipt" \in Later
  BY DEF WalletLocked, Later, BeforeJournal
<1>3. PICK c \in Candidates : /\ c = candidate(b) /\ where(c) = at[b][1] /\ CandidateInv(c)
                              /\ \A p \in WalletLocked : proceed(b, p) => Moved(c, p)
  BY <1>1, <1>2, Inside
<1>4. record[c] # NoNonce /\ Accounted(c) /\ action[c] \in Resumable
  BY <1>1, <1>2, <1>3 DEF CandidateInv, PlaceInv, RestInv
<1>5. PICK st : st = IF action[c] = "submitted" THEN "reorged" ELSE action[c]
  OBVIOUS
<1>6. action' = [action EXCEPT ![c] = st]
  BY <1>1, <1>3, <1>5
<1>7. st \in Statuses /\ st \in Resumable /\ st \notin {"none", "confirmed", "broadcast_reverted"}
  BY <1>4, <1>5 DEF Statuses, Resumable
<1>8. Moved(c, "decide")
  BY <1>1, <1>2, <1>3
<1>9. Fits(c, "decide", st)
  BY <1>2, <1>4, <1>7, <1>8 DEF Fits
<1>10. QED
  BY <1>1, <1>6, <1>8, <1>9, QuietKeeps DEF chainVars

-----------------------------------------------------------------------------
(* A candidate without an action: its bytes, if any, are nowhere. *)
LEMMA NoneKeeps ==
    ASSUME NEW c, NEW p, where(c)' = p, p \notin Later, action'[c] = "none", nowhere(c)',
           record'[c] # NoNonce => rowOf(c, record[c])' # {},
           p = "sign" => record'[c] # NoNonce \/ reservedOf(c)' # {},
           p \in {"journal", "mark", "act"} => record'[c] # NoNonce,
           p = "act" => known(BoardOf[c], c)'
    PROVE  CandidateInv(c)'
<1>1. p \notin {"decide", "send", "sent", "confirm", "revert"} /\ "none" \notin Resumable
  BY DEF Later, Resumable
<1>2. PlaceInv(c)'
  BY <1>1 DEF PlaceInv
<1>3. RestInv(c)'
  BY <1>1 DEF RestInv
<1>4. QED
  BY <1>2, <1>3 DEF CandidateInv

(* One whose action goes on: it has its bytes, and what they may cost is accounted for. *)
LEMMA GoingKeeps ==
    ASSUME NEW c, NEW p, where(c)' = p, p \in {"away"} \cup Later, action'[c] \in Resumable,
           record'[c] # NoNonce, rowOf(c, record[c])' # {}, Accounted(c)',
           p \in {"send", "sent"} => activeRow(c, record[c])',
           p = "confirm" => (spendOf(BoardOf[c], c) # {} /\ reservationOf(BoardOf[c], c) = {})',
           p = "revert" /\ MaxDay = 0 => (reservationOf(BoardOf[c], c) = {})'
    PROVE  CandidateInv(c)'
<1>1. p \notin {"sign", "journal", "mark", "act", "admitted"} \cup BeforeJournal
      /\ action'[c] \notin {"none", "confirmed", "broadcast_reverted"}
  BY DEF Later, Resumable, BeforeJournal
<1>2. PlaceInv(c)'
  BY <1>1 DEF PlaceInv
<1>3. RestInv(c)'
  BY <1>1 DEF RestInv
<1>4. QED
  BY <1>2, <1>3 DEF CandidateInv

LEMMA AdmitStep ==
    ASSUME ActionsAssumption, WalletInv, NEW b \in Boards, NEW c \in Candidates, admit(b, c)
    PROVE  WalletInv'
<1>1. /\ BoardOf[c] = b /\ at[b] = Idle /\ action[c] = "none" /\ reserveChallengeSpend(b, c)
      /\ at' = [at EXCEPT ![b] = <<"admitted", c>>]
      /\ UNCHANGED <<nonceVars, fileVars, chainVars, mishaps>>
  BY DEF admit
<1>2. "admitted" \in Points /\ "admitted" \notin WalletLocked /\ "admitted" \notin Later
  BY DEF Points, WalletLocked, BeforeJournal, Later
<1>3. Moved(c, "admitted")
  BY <1>1, <1>2, PlacesAfter DEF WalletInv
<1>4. JournalInv' /\ \A e : rowsOf(e)' = rowsOf(e)
  BY <1>1, JournalKept DEF WalletInv
<1>5. EntriesKept(c)
  BY <1>1, AdmitKeepsEntries DEF WalletInv
<1>6. NetworkInv' /\ \A e \in Candidates : SeenSame(e)
  BY <1>1, NetworkUnchanged DEF WalletInv, fileVars, chainVars
<1>7. FilesInv' /\ record' = record /\ action' = action
  BY <1>1 DEF WalletInv, FilesInv, fileVars
<1>8. record'[c] # NoNonce => rowOf(c, record[c])' # {}
  BY <1>4, <1>7 DEF WalletInv, CandidateInv, RestInv, rowOf
<1>9. nowhere(c)'
  BY <1>1, <1>6 DEF WalletInv, CandidateInv, RestInv, SeenSame
<1>10. where(c)' = "admitted" /\ action'[c] = "none"
  BY <1>1, <1>3, <1>7 DEF Moved
<1>11. CandidateInv(c)'
  BY <1>2, <1>8, <1>9, <1>10, NoneKeeps
<1>12. EnvelopeInv' /\ \A e \in Candidates : e # c => EntriesSame(e)
  BY <1>5, OthersEntriesSame DEF EntriesKept
<1>13. \A e \in Candidates : FilesSame(e)
  BY <1>7 DEF FilesSame
<1>14. QED
  BY <1>3, <1>4, <1>6, <1>7, <1>11, <1>12, <1>13, StepKeeps

(* A call of the allocator: the rows of the others are as they were. *)
LEMMA AllocatorStep ==
    ASSUME ActionsAssumption, WalletInv, NEW c \in Candidates, NEW p, Moved(c, p), RowsKept(c),
           FilesInv', CandidateInv(c)', \A e \in Candidates : e # c => FilesSame(e),
           UNCHANGED <<envelopeVars, record, mempool, mined, finalized, reverted>>
    PROVE  WalletInv'
<1>1. EnvelopeInv' /\ \A e : EntriesSame(e)
  BY EntriesUnchanged DEF WalletInv, EntriesSame
<1>2. NetworkInv' /\ \A e \in Candidates : SeenSame(e)
  BY NetworkUnchanged DEF WalletInv
<1>3. JournalInv' /\ \A e \in Candidates : e # c => rowsOf(e)' = rowsOf(e)
  BY DEF RowsKept
<1>4. QED
  BY <1>1, <1>2, <1>3, StepKeeps

LEMMA AllocateStep ==
    ASSUME ActionsAssumption, WalletInv, NEW b \in Boards, allocate(b)
    PROVE  WalletInv'
<1>1. /\ at[b][1] = "nonce" /\ proceed(b, "sign")
      /\ UNCHANGED <<envelopeVars, fileVars, chainVars, mishaps>>
  BY DEF allocate, running
<1>2. {"nonce", "sign"} \subseteq WalletLocked /\ "nonce" \in BeforeJournal /\ "sign" \notin Later
  BY DEF WalletLocked, BeforeJournal, Later
<1>3. PICK c \in Candidates : /\ c = candidate(b) /\ where(c) = at[b][1] /\ CandidateInv(c)
                              /\ record[c] \in Nat \cup {NoNonce}
                              /\ \A p \in WalletLocked : proceed(b, p) => Moved(c, p)
  BY <1>1, <1>2, Inside
<1>4. Moved(c, "sign") /\ where(c)' = "sign"
  BY <1>1, <1>2, <1>3 DEF Moved
<1>5. FilesInv' /\ record' = record /\ action' = action
      /\ UNCHANGED <<envelopeVars, record, mempool, mined, finalized, reverted>>
  BY <1>1 DEF WalletInv, FilesInv, fileVars, chainVars
<1>6. RowsKept(c) /\ (record[c] # NoNonce \/ reservedOf(c)' # {})
  <2>1. CASE record[c] # NoNonce
    <3>1. recoverNonce(c, record[c]) /\ record[c] \in Nat /\ c \in Actions
      BY <1>3, <2>1 DEF allocate, ActionsAssumption
    <3>2. QED
      BY <2>1, <3>1, RecoverKeeps DEF WalletInv
  <2>2. CASE record[c] = NoNonce
    <3>1. PICK o \in observations : reserveNonce(c, o.finalized, o.pending)
      BY <1>3, <2>2 DEF allocate
    <3>2. o.finalized \in Nat /\ o.pending \in Nat /\ c \in Actions
      BY ObservationsAreNumbers DEF WalletInv, ActionsAssumption
    <3>3. QED
      BY <3>1, <3>2, ReserveKeeps DEF WalletInv
  <2>3. QED
    BY <2>1, <2>2
<1>7. record'[c] # NoNonce => rowOf(c, record[c])' # {}
  BY <1>3, <1>5, <1>6 DEF CandidateInv, RestInv, RowsKept, rowOf
<1>8. action'[c] = "none"
  BY <1>1, <1>2, <1>3, <1>5 DEF CandidateInv, PlaceInv
<1>9. nowhere(c)'
  BY <1>3, <1>5, <1>8, NetworkUnchanged DEF WalletInv, CandidateInv, RestInv, SeenSame
<1>10. CandidateInv(c)'
  BY <1>2, <1>4, <1>5, <1>6, <1>7, <1>8, <1>9, NoneKeeps
<1>11. \A e \in Candidates : FilesSame(e)
  BY <1>5 DEF FilesSame
<1>12. QED
  BY <1>4, <1>5, <1>6, <1>10, <1>11, AllocatorStep

(* The nonce that `sign' takes of a reservation. *)
reservedNonce(c) == (CHOOSE x \in reservedOf(c) : TRUE).nonce

LEMMA SignStep ==
    ASSUME ActionsAssumption, WalletInv, NEW b \in Boards, sign(b)
    PROVE  WalletInv'
<1>1. /\ at[b][1] = "sign" /\ proceed(b, "journal")
      /\ UNCHANGED <<nonceVars, envelopeVars, action, claims, chainVars, mishaps>>
      /\ record' = [record EXCEPT ![candidate(b)] =
            IF @ # NoNonce THEN @ ELSE (CHOOSE x \in reservedOf(candidate(b)) : TRUE).nonce]
  BY DEF sign, running
<1>2. {"sign", "journal"} \subseteq WalletLocked /\ "sign" \in BeforeJournal /\ "journal" \notin Later
  BY DEF WalletLocked, BeforeJournal, Later
<1>3. PICK c \in Candidates : /\ c = candidate(b) /\ where(c) = at[b][1] /\ CandidateInv(c)
                              /\ record[c] \in Nat \cup {NoNonce}
                              /\ \A p \in WalletLocked : proceed(b, p) => Moved(c, p)
  BY <1>1, <1>2, Inside
<1>4. Moved(c, "journal") /\ where(c)' = "journal"
  BY <1>1, <1>2, <1>3 DEF Moved
<1>5. PICK n : n = IF record[c] # NoNonce THEN record[c] ELSE reservedNonce(c)
  OBVIOUS
<1>6. record' = [record EXCEPT ![c] = n] /\ record \in [Candidates -> Nat \cup {NoNonce}]
  BY <1>1, <1>3, <1>5 DEF WalletInv, FilesInv, reservedNonce
<1>7. n \in Nat /\ rowOf(c, n) # {}
  <2>1. CASE record[c] # NoNonce
    BY <1>3, <1>5, <2>1 DEF CandidateInv, RestInv
  <2>2. CASE record[c] = NoNonce
    <3>1. reservedOf(c) # {}
      BY <1>1, <1>3, <2>2 DEF CandidateInv, PlaceInv
    <3>2. PICK x \in reservedOf(c) : n = x.nonce
      BY <1>5, <2>2, <3>1 DEF reservedNonce
    <3>3. x \in allocations /\ x \in Allocation /\ x.action_id = c
      BY DEF reservedOf, rowsOf, WalletInv, JournalInv
    <3>4. QED
      BY <3>2, <3>3 DEF Allocation, rowOf, rowsOf
  <2>3. QED
    BY <2>1, <2>2
<1>8. JournalInv' /\ \A e : rowsOf(e)' = rowsOf(e)
  BY <1>1, JournalKept DEF WalletInv
<1>9. EnvelopeInv' /\ \A e : EntriesSame(e)
  BY <1>1, EntriesUnchanged DEF WalletInv, EntriesSame
<1>10. action'[c] = "none" /\ action[c] = "none"
  BY <1>1, <1>2, <1>3 DEF CandidateInv, PlaceInv
<1>11. NetworkInv' /\ nowhere(c)' /\ \A e \in Candidates : e # c => SeenSame(e)
  <2>1. UNCHANGED <<mempool, mined, finalized, reverted>>
    BY <1>1 DEF chainVars
  <2>2. CASE record[c] = NoNonce
    BY <1>6, <1>7, <2>1, <2>2, SigningKeeps DEF WalletInv
  <2>3. CASE record[c] # NoNonce
    <3>1. record' = record
      BY <1>5, <1>6, <2>3
    <3>2. NetworkInv' /\ \A e \in Candidates : SeenSame(e)
      BY <2>1, <3>1, NetworkUnchanged DEF WalletInv
    <3>3. QED
      BY <1>3, <1>10, <3>2 DEF CandidateInv, RestInv, SeenSame
  <2>4. QED
    BY <2>2, <2>3
<1>12. record'[c] = n /\ n # NoNonce /\ FilesInv'
  BY <1>1, <1>6, <1>7 DEF WalletInv, FilesInv, ActionsAssumption
<1>13. rowOf(c, record[c])' # {}
  BY <1>7, <1>8, <1>12 DEF rowOf
<1>14. CandidateInv(c)'
  BY <1>2, <1>4, <1>10, <1>11, <1>12, <1>13, NoneKeeps
<1>15. \A e \in Candidates : e # c => FilesSame(e)
  BY <1>1, <1>6 DEF FilesSame
<1>16. QED
  BY <1>4, <1>8, <1>9, <1>11, <1>12, <1>14, <1>15, StepKeeps

LEMMA JournalStep ==
    ASSUME ActionsAssumption, WalletInv, NEW b \in Boards, writeJournal(b)
    PROVE  WalletInv'
<1>1. /\ at[b][1] = "journal" /\ proceed(b, "mark") /\ recordSigned(candidate(b), record[candidate(b)])
      /\ UNCHANGED <<envelopeVars, fileVars, chainVars, mishaps>>
  BY DEF writeJournal, running
<1>2. {"journal", "mark"} \subseteq WalletLocked /\ "journal" \in BeforeJournal /\ "mark" \notin Later
  BY DEF WalletLocked, BeforeJournal, Later
<1>3. PICK c \in Candidates : /\ c = candidate(b) /\ where(c) = at[b][1] /\ CandidateInv(c)
                              /\ record[c] \in Nat \cup {NoNonce}
                              /\ \A p \in WalletLocked : proceed(b, p) => Moved(c, p)
  BY <1>1, <1>2, Inside
<1>4. Moved(c, "mark") /\ where(c)' = "mark"
  BY <1>1, <1>2, <1>3 DEF Moved
<1>5. FilesInv' /\ record' = record /\ action' = action
      /\ UNCHANGED <<envelopeVars, record, mempool, mined, finalized, reverted>>
  BY <1>1 DEF WalletInv, FilesInv, fileVars, chainVars
<1>6. record[c] # NoNonce /\ record[c] \in Nat /\ action[c] = "none"
  BY <1>1, <1>2, <1>3 DEF CandidateInv, PlaceInv
<1>7. RowsKept(c)
  BY <1>1, <1>3, <1>6, MarkKeeps DEF WalletInv
<1>8. rowOf(c, record[c])' # {}
  BY <1>3, <1>5, <1>6, <1>7 DEF CandidateInv, RestInv, RowsKept, rowOf
<1>9. nowhere(c)'
  BY <1>3, <1>5, <1>6, NetworkUnchanged DEF WalletInv, CandidateInv, RestInv, SeenSame
<1>10. CandidateInv(c)'
  BY <1>2, <1>4, <1>5, <1>6, <1>8, <1>9, NoneKeeps
<1>11. \A e \in Candidates : FilesSame(e)
  BY <1>5 DEF FilesSame
<1>12. QED
  BY <1>4, <1>5, <1>7, <1>10, <1>11, AllocatorStep

(* A call of the envelope: what the others have is as it was. *)
LEMMA EnvelopeStep ==
    ASSUME ActionsAssumption, WalletInv, NEW c \in Candidates, NEW p, Moved(c, p), EntriesKept(c),
           CandidateInv(c)',
           UNCHANGED <<nonceVars, record, action, claims, mempool, mined, finalized, reverted>>
    PROVE  WalletInv'
<1>1. JournalInv' /\ \A e : rowsOf(e)' = rowsOf(e)
  BY JournalKept DEF WalletInv
<1>2. NetworkInv' /\ \A e \in Candidates : SeenSame(e)
  BY NetworkUnchanged DEF WalletInv
<1>3. EnvelopeInv' /\ \A e \in Candidates : e # c => EntriesSame(e)
  BY OthersEntriesSame DEF EntriesKept
<1>4. FilesInv' /\ \A e \in Candidates : FilesSame(e)
  BY DEF WalletInv, FilesInv, FilesSame
<1>5. QED
  BY <1>1, <1>2, <1>3, <1>4, StepKeeps

(* Before the action is recorded, such a call keeps what holds of its candidate. *)
LEMMA UnrecordedKeeps ==
    ASSUME ActionsAssumption, WalletInv, NEW c \in Candidates, CandidateInv(c), action[c] = "none",
           UNCHANGED <<nonceVars, record, action, mempool, mined, finalized, reverted>>
    PROVE  action'[c] = "none" /\ nowhere(c)' /\ (record'[c] # NoNonce => rowOf(c, record[c])' # {})
<1>1. SeenSame(c)
  BY NetworkUnchanged DEF WalletInv
<1>2. rowsOf(c)' = rowsOf(c)
  BY DEF nonceVars, rowsOf
<1>3. QED
  BY <1>1, <1>2 DEF CandidateInv, RestInv, SeenSame, rowOf

LEMMA MarkStep ==
    ASSUME ActionsAssumption, WalletInv, NEW b \in Boards, mark(b)
    PROVE  WalletInv'
<1>1. /\ at[b][1] = "mark" /\ proceed(b, "act") /\ markJournalDurable(b, candidate(b))
      /\ UNCHANGED <<nonceVars, record, action, claims, mempool, mined, finalized, reverted>>
  BY DEF mark, running, fileVars, chainVars
<1>2. {"mark", "act"} \subseteq WalletLocked /\ "mark" \in BeforeJournal /\ "act" \notin Later
  BY DEF WalletLocked, BeforeJournal, Later
<1>3. PICK c \in Candidates : /\ c = candidate(b) /\ BoardOf[c] = b /\ where(c) = at[b][1] /\ CandidateInv(c)
                              /\ \A p \in WalletLocked : proceed(b, p) => Moved(c, p)
  BY <1>1, <1>2, Inside
<1>4. Moved(c, "act") /\ where(c)' = "act"
  BY <1>1, <1>2, <1>3 DEF Moved
<1>5. record[c] # NoNonce /\ action[c] = "none"
  BY <1>1, <1>2, <1>3 DEF CandidateInv, PlaceInv
<1>6. EntriesKept(c) /\ reservationOf(b, c)' # {}
  BY <1>1, <1>3, MarkKeepsEntries DEF WalletInv
<1>7. known(BoardOf[c], c)'
  BY <1>3, <1>6 DEF known
<1>8. action'[c] = "none" /\ nowhere(c)' /\ (record'[c] # NoNonce => rowOf(c, record[c])' # {})
  BY <1>1, <1>3, <1>5, UnrecordedKeeps
<1>9. CandidateInv(c)'
  BY <1>1, <1>2, <1>4, <1>5, <1>7, <1>8, NoneKeeps
<1>10. QED
  BY <1>1, <1>4, <1>6, <1>9, EnvelopeStep

LEMMA FailStep ==
    ASSUME ActionsAssumption, WalletInv, NEW b \in Boards, fail(b)
    PROVE  WalletInv'
<1>1. /\ at[b][1] \in Points /\ leave(b)
      /\ UNCHANGED <<nonceVars, record, action, claims, mempool, mined, finalized, reverted>>
      /\ IF at[b][1] \in BeforeJournal
         THEN releaseChallengeReservation(b, candidate(b)) ELSE UNCHANGED envelopeVars
  BY NotIdleRuns DEF fail, WalletInv, fileVars, chainVars
<1>2. PICK c \in Candidates : /\ c = candidate(b) /\ where(c) = at[b][1] /\ CandidateInv(c)
                              /\ action[c] \in Statuses /\ action = [action EXCEPT ![c] = action[c]]
  BY <1>1, Here
<1>3. Moved(c, "away")
  BY <1>1, <1>2, PlacesLeft DEF WalletInv
<1>4. CASE at[b][1] \in BeforeJournal
  <2>1. EntriesKept(c)
    BY <1>1, <1>2, <1>4, ReleaseKeepsEntries DEF WalletInv
  <2>2. action[c] = "none"
    BY <1>2, <1>4 DEF CandidateInv, PlaceInv
  <2>3. action'[c] = "none" /\ nowhere(c)' /\ (record'[c] # NoNonce => rowOf(c, record[c])' # {})
    BY <1>1, <1>2, <2>2, UnrecordedKeeps
  <2>4. where(c)' = "away" /\ "away" \notin Later
    BY <1>3 DEF Moved, Later
  <2>5. CandidateInv(c)'
    BY <2>3, <2>4, NoneKeeps
  <2>6. QED
    BY <1>1, <1>3, <2>1, <2>5, EnvelopeStep
<1>5. CASE at[b][1] \notin BeforeJournal
  <2>1. Fits(c, "away", action[c])
    BY <1>2, RestFits DEF CandidateInv
  <2>2. UNCHANGED <<nonceVars, envelopeVars, record, claims, mempool, mined, finalized, reverted>>
        /\ action' = [action EXCEPT ![c] = action[c]]
    BY <1>1, <1>2, <1>5
  <2>3. QED
    BY <1>3, <2>1, <2>2, QuietKeeps
<1>6. QED
  BY <1>4, <1>5

LEMMA RecoverStep ==
    ASSUME ActionsAssumption, WalletInv, NEW b \in Boards, recover(b)
    PROVE  WalletInv'
<1>1. /\ at[b][1] = "recover" /\ proceed(b, "receipt") /\ recoverNonce(candidate(b), record[candidate(b)])
      /\ UNCHANGED <<envelopeVars, record, action, claims, mempool, mined, finalized, reverted>>
  BY DEF recover, running, fileVars, chainVars
<1>2. {"recover", "receipt"} \subseteq WalletLocked \cap Later
  BY DEF WalletLocked, BeforeJournal, Later
<1>3. PICK c \in Candidates : /\ c = candidate(b) /\ where(c) = at[b][1] /\ CandidateInv(c)
                              /\ record[c] \in Nat \cup {NoNonce}
                              /\ \A p \in WalletLocked : proceed(b, p) => Moved(c, p)
  BY <1>1, <1>2, Inside
<1>4. Moved(c, "receipt") /\ where(c)' = "receipt"
  BY <1>1, <1>2, <1>3 DEF Moved
<1>5. action[c] \in Resumable /\ record[c] # NoNonce /\ record[c] \in Nat /\ Accounted(c)
  BY <1>1, <1>2, <1>3 DEF CandidateInv, PlaceInv, RestInv
<1>6. c \in Actions
  BY DEF ActionsAssumption
<1>7. RowsKept(c) /\ rowOf(c, record[c])' # {}
  <2>1. PICK n \in Nat : n = record[c]
    BY <1>5
  <2>2. RowsKept(c) /\ rowOf(c, n)' # {}
    BY <1>1, <1>3, <1>6, <2>1, RecoverKeeps DEF WalletInv
  <2>3. QED
    BY <1>1, <2>1, <2>2 DEF rowOf
<1>8. SeenSame(c) /\ EntriesSame(c)
  BY <1>1, NetworkUnchanged, EntriesUnchanged DEF WalletInv, EntriesSame
<1>9. Accounted(c)'
  BY <1>5, <1>8, AccountedKept
<1>10. CandidateInv(c)'
  BY <1>1, <1>2, <1>4, <1>5, <1>7, <1>9, GoingKeeps
<1>11. FilesInv' /\ \A e \in Candidates : FilesSame(e)
  BY <1>1 DEF WalletInv, FilesInv, FilesSame
<1>12. QED
  BY <1>1, <1>4, <1>7, <1>10, <1>11, AllocatorStep

(* However far the primary lags, what it shows as final is. *)
LEMMA ShownFinal ==
    ASSUME NEW c, "final" \in shown(c)
    PROVE  isFinal(c)
BY DEF shown

LEMMA FinalStep ==
    ASSUME ActionsAssumption, WalletInv, NEW b \in Boards, finalReceipt(b)
    PROVE  WalletInv'
<1>1. /\ at[b][1] = "receipt" /\ isFinal(candidate(b))
      /\ UNCHANGED <<nonceVars, record, action, claims, mempool, mined, finalized, reverted>>
      /\ \/ finalizeChallengeSpend(b, candidate(b)) /\ proceed(b, "confirm")
         \/ /\ candidate(b) \in reverted
            /\ releaseChallengeReservation(b, candidate(b)) /\ proceed(b, "revert")
  BY ShownFinal DEF finalReceipt, running, fileVars, chainVars
<1>2. {"receipt", "confirm", "revert"} \subseteq WalletLocked \cap Later
  BY DEF WalletLocked, BeforeJournal, Later
<1>3. PICK c \in Candidates : /\ c = candidate(b) /\ BoardOf[c] = b /\ where(c) = at[b][1] /\ CandidateInv(c)
                              /\ \A p \in WalletLocked : proceed(b, p) => Moved(c, p)
  BY <1>1, <1>2, Inside
<1>4. action[c] \in Resumable /\ record[c] # NoNonce /\ rowOf(c, record[c]) # {}
  BY <1>1, <1>2, <1>3 DEF CandidateInv, PlaceInv, RestInv
<1>5. SeenSame(c)
  BY <1>1, NetworkUnchanged DEF WalletInv
<1>6. rowOf(c, record[c])' = rowOf(c, record[c])
  BY <1>1 DEF nonceVars, rowOf, rowsOf
<1>7. CASE finalizeChallengeSpend(b, c) /\ proceed(b, "confirm")
  <2>1. Moved(c, "confirm") /\ where(c)' = "confirm"
    BY <1>2, <1>3, <1>7 DEF Moved
  <2>2. EntriesKept(c) /\ spendOf(b, c)' # {} /\ reservationOf(b, c)' = {}
    BY <1>7, FinalizeKeepsEntries DEF WalletInv
  <2>3. (spendOf(BoardOf[c], c) # {} /\ reservationOf(BoardOf[c], c) = {})' /\ Accounted(c)'
    BY <1>3, <2>2 DEF Accounted, known
  <2>4. CandidateInv(c)'
    BY <1>1, <1>2, <1>4, <1>6, <2>1, <2>3, GoingKeeps
  <2>5. QED
    BY <1>1, <2>1, <2>2, <2>4, EnvelopeStep
<1>8. CASE c \in reverted /\ releaseChallengeReservation(b, c) /\ proceed(b, "revert")
  <2>1. Moved(c, "revert") /\ where(c)' = "revert"
    BY <1>2, <1>3, <1>8 DEF Moved
  <2>2. EntriesKept(c) /\ (MaxDay = 0 => reservationOf(b, c)' = {})
    BY <1>8, ReleaseKeepsEntries DEF WalletInv
  <2>3. MaxDay = 0 => (reservationOf(BoardOf[c], c) = {})'
    BY <1>3, <2>2
  <2>4. Accounted(c)'
    BY <1>1, <1>3, <1>5, <1>8 DEF Accounted, SeenSame
  <2>5. CandidateInv(c)'
    BY <1>1, <1>2, <1>4, <1>6, <2>1, <2>3, <2>4, GoingKeeps
  <2>6. QED
    BY <1>1, <2>1, <2>2, <2>5, EnvelopeStep
<1>9. QED
  BY <1>1, <1>3, <1>7, <1>8

(* The action is noted as broadcast, in the journal and in the queue. *)
LEMMA NotedStep ==
    ASSUME ActionsAssumption, WalletInv, NEW b \in Boards, pendingKnown(b) \/ noteSent(b)
    PROVE  WalletInv'
<1>1. /\ at[b][1] \in {"receipt", "sent"} /\ leave(b) /\ recordBroadcast(candidate(b), record[candidate(b)])
      /\ action' = [action EXCEPT ![candidate(b)] = "broadcast"]
      /\ UNCHANGED <<envelopeVars, record, claims, mempool, mined, finalized, reverted>>
  BY DEF pendingKnown, noteSent, running, setAction, chainVars
<1>2. {"receipt", "sent"} \subseteq WalletLocked \cap Later /\ "broadcast" \in Statuses \cap Resumable
      /\ "away" \notin Later
  BY DEF WalletLocked, BeforeJournal, Later, Statuses, Resumable
<1>3. PICK c \in Candidates : /\ c = candidate(b) /\ where(c) = at[b][1] /\ CandidateInv(c)
                              /\ record[c] \in Nat \cup {NoNonce}
                              /\ leave(b) => Moved(c, "away")
  BY <1>1, <1>2, Inside
<1>4. Moved(c, "away") /\ where(c)' = "away"
  BY <1>1, <1>3 DEF Moved
<1>5. record[c] # NoNonce /\ record[c] \in Nat /\ Accounted(c) /\ rowOf(c, record[c]) # {}
  BY <1>1, <1>2, <1>3 DEF CandidateInv, PlaceInv, RestInv
<1>6. RowsKept(c)
  BY <1>1, <1>3, <1>5, MarkKeeps DEF WalletInv
<1>7. rowOf(c, record[c])' # {}
  BY <1>1, <1>5, <1>6 DEF RowsKept, rowOf
<1>8. SeenSame(c) /\ EntriesSame(c)
  BY <1>1, NetworkUnchanged, EntriesUnchanged DEF WalletInv, EntriesSame
<1>9. Accounted(c)'
  BY <1>5, <1>8, AccountedKept
<1>10. FilesInv' /\ action'[c] = "broadcast" /\ \A e \in Candidates : e # c => FilesSame(e)
  BY <1>1, <1>2, <1>3 DEF WalletInv, FilesInv, FilesSame
<1>11. CandidateInv(c)'
  BY <1>1, <1>2, <1>4, <1>5, <1>7, <1>9, <1>10, GoingKeeps
<1>12. QED
  BY <1>1, <1>4, <1>6, <1>10, <1>11, AllocatorStep

LEMMA DecideStep ==
    ASSUME ActionsAssumption, WalletInv, NEW b \in Boards, decide(b)
    PROVE  WalletInv'
<1>1. /\ at[b][1] = "decide"
      /\ \/ fence(candidate(b), record[candidate(b)]) /\ proceed(b, "fenced")
         \/ recordSigned(candidate(b), record[candidate(b)]) /\ proceed(b, "send")
         \/ recordBroadcast(candidate(b), record[candidate(b)]) /\ proceed(b, "sent")
      /\ UNCHANGED <<envelopeVars, record, action, claims, mempool, mined, finalized, reverted>>
  BY DEF decide, running, fileVars, chainVars
<1>2. {"decide", "fenced", "send", "sent"} \subseteq WalletLocked \cap Later
  BY DEF WalletLocked, BeforeJournal, Later
<1>3. PICK c \in Candidates : /\ c = candidate(b) /\ where(c) = at[b][1] /\ CandidateInv(c)
                              /\ record[c] \in Nat \cup {NoNonce}
                              /\ \A p \in WalletLocked : proceed(b, p) => Moved(c, p)
  BY <1>1, <1>2, Inside
<1>4. action[c] \in Resumable /\ record[c] # NoNonce /\ record[c] \in Nat /\ Accounted(c)
      /\ rowOf(c, record[c]) # {}
  BY <1>1, <1>2, <1>3 DEF CandidateInv, PlaceInv, RestInv
<1>5. SeenSame(c) /\ EntriesSame(c)
  BY <1>1, NetworkUnchanged, EntriesUnchanged DEF WalletInv, EntriesSame
<1>6. Accounted(c)'
  BY <1>4, <1>5, AccountedKept
<1>7. PICK p \in {"fenced", "send", "sent"} :
          /\ proceed(b, p) /\ RowsKept(c)
          /\ p \in {"send", "sent"} => activeRow(c, record[c])'
  <2>1. CASE fence(c, record[c]) /\ proceed(b, "fenced")
    BY <2>1, FenceKeeps DEF WalletInv
  <2>2. CASE \/ recordSigned(c, record[c]) /\ proceed(b, "send")
             \/ recordBroadcast(c, record[c]) /\ proceed(b, "sent")
    <3>1. PICK n \in Nat : n = record[c]
      BY <1>4
    <3>2. RowsKept(c) /\ activeRow(c, n)'
      BY <2>2, <3>1, MarkKeeps DEF WalletInv
    <3>3. activeRow(c, record[c])'
      BY <1>1, <3>1, <3>2 DEF activeRow, rowOf
    <3>4. QED
      BY <2>2, <3>2, <3>3
  <2>3. QED
    BY <1>1, <1>3, <2>1, <2>2
<1>8. Moved(c, p) /\ where(c)' = p /\ p \in Later /\ p \notin {"confirm", "revert"}
  BY <1>2, <1>3, <1>7 DEF Moved
<1>9. rowOf(c, record[c])' # {}
  BY <1>1, <1>4, <1>7 DEF RowsKept, rowOf
<1>10. CandidateInv(c)'
  BY <1>1, <1>4, <1>6, <1>7, <1>8, <1>9, GoingKeeps
<1>11. FilesInv' /\ \A e \in Candidates : FilesSame(e)
  BY <1>1 DEF WalletInv, FilesInv, FilesSame
<1>12. QED
  BY <1>1, <1>7, <1>8, <1>10, <1>11, AllocatorStep

LEMMA SendStep ==
    ASSUME ActionsAssumption, WalletInv, NEW b \in Boards, send(b)
    PROVE  WalletInv'
<1>1. /\ at[b][1] = "send" /\ proceed(b, "sent")
      /\ \/ accepted(transaction(candidate(b))) /\ mempool' = mempool \cup {transaction(candidate(b))}
         \/ UNCHANGED mempool
      /\ UNCHANGED <<nonceVars, envelopeVars, record, action, claims, mined, finalized, reverted>>
  BY DEF send, running, fileVars
<1>2. {"send", "sent"} \subseteq WalletLocked \cap Later
  BY DEF WalletLocked, BeforeJournal, Later
<1>3. PICK c \in Candidates : /\ c = candidate(b) /\ where(c) = at[b][1] /\ CandidateInv(c)
                              /\ record[c] \in Nat \cup {NoNonce}
                              /\ \A p \in WalletLocked : proceed(b, p) => Moved(c, p)
  BY <1>1, <1>2, Inside
<1>4. Moved(c, "sent") /\ where(c)' = "sent"
  BY <1>1, <1>2, <1>3 DEF Moved
<1>5. action[c] \in Resumable /\ record[c] # NoNonce /\ record[c] \in Nat /\ Accounted(c)
      /\ rowOf(c, record[c]) # {} /\ activeRow(c, record[c])
  BY <1>1, <1>2, <1>3 DEF CandidateInv, PlaceInv, RestInv
<1>6. PICK t : t = transaction(c)
  OBVIOUS
<1>7. t \in Transaction /\ t.by = c
  BY <1>3, <1>5, <1>6 DEF transaction, Transaction
<1>8. NetworkInv' /\ \A e \in Candidates : e # c => SeenSame(e)
  <2>1. CASE accepted(t) /\ mempool' = mempool \cup {t}
    <3>1. t.nonce >= Len(mined)
      BY <2>1 DEF accepted
    <3>2. QED
      BY <1>1, <1>6, <1>7, <2>1, <3>1, PoolGrows DEF WalletInv
  <2>2. CASE UNCHANGED mempool
    BY <1>1, <2>2, NetworkUnchanged DEF WalletInv
  <2>3. QED
    BY <1>1, <1>3, <1>6, <2>1, <2>2
<1>9. JournalInv' /\ \A e : rowsOf(e)' = rowsOf(e)
  BY <1>1, JournalKept DEF WalletInv
<1>10. EnvelopeInv' /\ \A e : EntriesSame(e)
  BY <1>1, EntriesUnchanged DEF WalletInv, EntriesSame
<1>11. rowOf(c, record[c])' = rowOf(c, record[c]) /\ activeRow(c, record[c])' = activeRow(c, record[c])
  BY <1>1, <1>9, RowsDecide
<1>12. isFinal(c)' = isFinal(c)
  BY <1>1 DEF isFinal, transaction
<1>13. Accounted(c)'
  BY <1>1, <1>5, <1>10, <1>12 DEF Accounted, EntriesSame, known
<1>14. CandidateInv(c)'
  BY <1>1, <1>2, <1>4, <1>5, <1>11, <1>13, GoingKeeps
<1>15. FilesInv' /\ \A e \in Candidates : FilesSame(e)
  BY <1>1 DEF WalletInv, FilesInv, FilesSame
<1>16. QED
  BY <1>4, <1>8, <1>9, <1>10, <1>14, <1>15, StepKeeps

-----------------------------------------------------------------------------
(* The chain, the clock and the bond claims move no operator. *)
LEMMA AroundKeeps ==
    ASSUME WalletInv, UNCHANGED <<nonceVars, at, record, action, reservations, spends>>,
           claims' \subseteq Nat, EnvelopeInv', NetworkInv', \A c \in Candidates : SeenSame(c)
    PROVE  WalletInv'
<1>1. JournalInv' /\ \A e : rowsOf(e)' = rowsOf(e)
  BY JournalKept DEF WalletInv
<1>2. ProcessInv' /\ \A e : where(e)' = where(e)
  BY PlacesKept DEF WalletInv
<1>3. \A e : EntriesSame(e)
  BY DEF EntriesSame, reservationOf, spendOf
<1>4. FilesInv' /\ \A e \in Candidates : FilesSame(e)
  BY DEF WalletInv, FilesInv, FilesSame
<1>5. ASSUME NEW e \in Candidates
      PROVE  CandidateInv(e)'
  <2>1. /\ CandidateInv(e) /\ where(e)' = where(e) /\ FilesSame(e) /\ rowsOf(e)' = rowsOf(e)
        /\ EntriesSame(e) /\ SeenSame(e)
    BY <1>1, <1>2, <1>3, <1>4 DEF WalletInv
  <2>2. QED
    BY <2>1, ViewKeeps
<1>6. QED
  BY <1>1, <1>2, <1>4, <1>5 DEF WalletInv

LEMMA OutsidePays ==
    ASSUME ActionsAssumption, WalletInv, NEW n \in Nat, n >= Len(mined),
           mempool' = mempool \cup {[by |-> Outside, nonce |-> n]},
           UNCHANGED <<nonceVars, envelopeVars, fileVars, at, mined, finalized, reverted>>
    PROVE  WalletInv'
<1>1. PICK t : t = [by |-> Outside, nonce |-> n]
  OBVIOUS
<1>2. t \in Transaction /\ t.nonce = n /\ t.by = Outside /\ mempool' = mempool \cup {t}
  BY <1>1 DEF Transaction
<1>3. UNCHANGED <<record, action, claims>> /\ UNCHANGED <<reservations, spends>>
  BY DEF fileVars, envelopeVars
<1>4. NetworkInv' /\ \A c \in Candidates : SeenSame(c)
  BY <1>2, <1>3, PoolGrows DEF WalletInv, ActionsAssumption
<1>5. EnvelopeInv' /\ claims' \subseteq Nat
  BY <1>3, EntriesUnchanged DEF WalletInv, FilesInv
<1>6. QED
  BY <1>3, <1>4, <1>5, AroundKeeps

LEMMA ChainStep ==
    ASSUME ActionsAssumption, WalletInv, Chain
    PROVE  WalletInv'
<1>1. CASE \E tx \in mempool : mine(tx) \/ drop(tx)
  <2>1. UNCHANGED <<nonceVars, envelopeVars, fileVars, at>>
    BY <1>1 DEF mine, drop
  <2>2. NetworkInv' /\ \A c \in Candidates : SeenSame(c)
    BY <1>1, MineKeeps, DropKeeps DEF WalletInv
  <2>3. EnvelopeInv' /\ claims' \subseteq Nat
    BY <2>1, EntriesUnchanged DEF WalletInv, FilesInv, fileVars
  <2>4. QED
    BY <2>1, <2>2, <2>3, AroundKeeps DEF fileVars, envelopeVars
<1>2. CASE finalize \/ reorg
  <2>1. UNCHANGED <<nonceVars, envelopeVars, fileVars, at>>
    BY <1>2 DEF finalize, reorg
  <2>2. NetworkInv' /\ \A c \in Candidates : SeenSame(c)
    BY <1>2, FinalizeKeeps, ReorgKeeps DEF WalletInv
  <2>3. EnvelopeInv' /\ claims' \subseteq Nat
    BY <2>1, EntriesUnchanged DEF WalletInv, FilesInv, fileVars
  <2>4. QED
    BY <2>1, <2>2, <2>3, AroundKeeps DEF fileVars, envelopeVars
<1>3. CASE sendOutside
  <2>1. pendingCount \in Nat /\ pendingCount >= Len(mined)
    BY PendingCounts DEF WalletInv
  <2>2. PICK n \in Nat : n = pendingCount
    BY <2>1
  <2>3. /\ n >= Len(mined) /\ mempool' = mempool \cup {[by |-> Outside, nonce |-> n]}
        /\ UNCHANGED <<nonceVars, envelopeVars, fileVars, at, mined, finalized, reverted>>
    BY <1>3, <2>1, <2>2 DEF sendOutside
  <2>4. QED
    BY <2>3, OutsidePays
<1>4. CASE \E c \in Candidates : windowEnds(c)
  <2>1. UNCHANGED <<nonceVars, envelopeVars, fileVars, at, mempool, mined, finalized, reverted>>
    BY <1>4 DEF windowEnds
  <2>2. NetworkInv' /\ \A c \in Candidates : SeenSame(c)
    BY <2>1, NetworkUnchanged DEF WalletInv, fileVars
  <2>3. EnvelopeInv' /\ claims' \subseteq Nat
    BY <2>1, EntriesUnchanged DEF WalletInv, FilesInv, fileVars
  <2>4. QED
    BY <2>1, <2>2, <2>3, AroundKeeps DEF fileVars, envelopeVars
<1>5. QED
  BY <1>1, <1>2, <1>3, <1>4 DEF Chain

LEMMA ClaimStep ==
    ASSUME ActionsAssumption, WalletInv, claimBond \/ \E n \in claims : sendClaim(n)
    PROVE  WalletInv'
<1>1. CASE claimBond
  <2>1. UNCHANGED <<nonceVars, envelopeVars, record, action, at, mempool, mined, finalized, reverted>>
        /\ claims' = claims \cup {pendingCount}
    BY <1>1 DEF claimBond, chainVars
  <2>2. claims' \subseteq Nat
    BY <2>1, PendingCounts DEF WalletInv, FilesInv
  <2>3. NetworkInv' /\ \A c \in Candidates : SeenSame(c)
    BY <2>1, NetworkUnchanged DEF WalletInv
  <2>4. EnvelopeInv'
    BY <2>1, EntriesUnchanged DEF WalletInv
  <2>5. QED
    BY <2>1, <2>2, <2>3, <2>4, AroundKeeps DEF envelopeVars
<1>2. CASE \E n \in claims : sendClaim(n)
  <2>1. PICK n \in claims : sendClaim(n)
    BY <1>2
  <2>2. n \in Nat /\ n >= Len(mined)
        /\ mempool' = mempool \cup {[by |-> Outside, nonce |-> n]}
        /\ UNCHANGED <<nonceVars, envelopeVars, fileVars, at, mined, finalized, reverted>>
    BY <2>1 DEF sendClaim, accepted, WalletInv, FilesInv
  <2>3. QED
    BY <2>2, OutsidePays
<1>3. QED
  BY <1>1, <1>2

LEMMA TimeStep ==
    ASSUME ActionsAssumption, WalletInv, envelopeTime
    PROVE  WalletInv'
<1>1. UNCHANGED <<nonceVars, record, action, claims, at, mempool, mined, finalized, reverted>>
  BY DEF envelopeTime, fileVars, chainVars
<1>2. EnvelopeInv' /\ UNCHANGED <<reservations, spends>>
  BY TimeKeepsEntries DEF WalletInv
<1>3. NetworkInv' /\ \A c \in Candidates : SeenSame(c)
  BY <1>1, NetworkUnchanged DEF WalletInv
<1>4. claims' \subseteq Nat
  BY <1>1 DEF WalletInv, FilesInv
<1>5. QED
  BY <1>1, <1>2, <1>3, <1>4, AroundKeeps

LEMMA StutterStep ==
    ASSUME WalletInv, UNCHANGED operatorVars
    PROVE  WalletInv'
<1>1. UNCHANGED <<nonceVars, envelopeVars, record, action, claims, at, mempool, mined, finalized, reverted>>
  BY DEF operatorVars, nonceVars, chainVars
<1>2. NetworkInv' /\ \A c \in Candidates : SeenSame(c)
  BY <1>1, NetworkUnchanged DEF WalletInv
<1>3. EnvelopeInv' /\ claims' \subseteq Nat
  BY <1>1, EntriesUnchanged DEF WalletInv, FilesInv
<1>4. QED
  BY <1>1, <1>2, <1>3, AroundKeeps DEF envelopeVars

LEMMA WalletStarts ==
    ASSUME ActionsAssumption, OperatorInit
    PROVE  WalletInv
<1>1. FilesInv
  BY DEF OperatorInit, FilesInv, Statuses
<1>2. ProcessInv /\ \A c \in Candidates : where(c) = "away"
  <2>1. \A b \in Boards : at[b] = Idle /\ at[b][1] \notin WalletLocked
    BY PointsAreNotIdle DEF OperatorInit, Idle
  <2>2. \A c \in Candidates : BoardOf[c] \in Boards
    BY DEF ActionsAssumption, EnvelopeAssumption
  <2>3. \A p, c : Idle # <<p, c>>
    BY DEF Idle
  <2>4. ProcessInv
    BY <2>1 DEF OperatorInit, ProcessInv
  <2>5. QED
    BY <2>1, <2>2, <2>3, <2>4 DEF where
<1>3. JournalInv /\ \A c : rowsOf(c) = {}
  BY DEF OperatorInit, NonceInit, JournalInv, validateJournal, rowsOf
<1>4. EnvelopeInv
  <2>1. \A b \in Boards : reservations[b] = {} /\ spends[b] = {}
    BY DEF OperatorInit, EnvelopeInit
  <2>2. EnvelopeShape
    BY <2>1, FS_EmptySet DEF OperatorInit, EnvelopeInit, EnvelopeShape, ActionsAssumption, EnvelopeAssumption
  <2>3. \A b \in Boards : \A d : spentOn(b, d) = 0 /\ Cardinality(reservations[b]) = 0
    <3>1. Cardinality({}) = 0
      BY FS_EmptySet
    <3>2. \A b \in Boards : \A d : /\ {r \in reservations[b] : r.day = d} = {}
                                  /\ {s \in spends[b] : s.day = d} = {}
      BY <2>1
    <3>3. QED
      BY <2>1, <3>1, <3>2 DEF spentOn
  <2>4. CapsHeld
    BY <2>3 DEF CapsHeld, ActionsAssumption, EnvelopeAssumption
  <2>5. QED
    BY <2>2, <2>4 DEF EnvelopeInv
<1>5. NetworkInv /\ \A c : nowhere(c)
  <2>1. mempool = {} /\ mined = <<>> /\ finalized = 0 /\ Len(mined) = 0
    BY DEF OperatorInit
  <2>2. QED
    BY <2>1, FS_EmptySet DEF NetworkInv, nowhere, isMined, inMempool
<1>6. ASSUME NEW c \in Candidates
      PROVE  CandidateInv(c)
  <2>1. record[c] = NoNonce /\ action[c] = "none" /\ where(c) = "away" /\ nowhere(c)
    BY <1>2, <1>5 DEF OperatorInit
  <2>2. PlaceInv(c)
    BY <2>1 DEF PlaceInv, BeforeJournal, Later
  <2>3. RestInv(c)
    BY <2>1 DEF RestInv, Resumable
  <2>4. QED
    BY <2>2, <2>3 DEF CandidateInv
<1>7. QED
  BY <1>1, <1>2, <1>3, <1>4, <1>5, <1>6 DEF WalletInv

LEMMA WalletInductive ==
    ASSUME ActionsAssumption, WalletInv, [OperatorNext]_operatorVars
    PROVE  WalletInv'
<1>1. ASSUME NEW b \in Boards, consumeCandidate(b)
      PROVE  WalletInv'
  BY <1>1, ResumeStep, ExpireStep, AdmitStep, LockStep, PreflightStep, AllocateStep, SignStep,
     JournalStep, MarkStep, ActStep DEF consumeCandidate
<1>2. ASSUME NEW b \in Boards, reconcileBroadcast(b)
      PROVE  WalletInv'
  BY <1>2, RecoverStep, FinalStep, ConfirmStep, YoungStep, NotedStep, GivenUpStep, LostStep,
     DecideStep, SendStep DEF reconcileBroadcast
<1>3. ASSUME NEW b \in Boards, fail(b) \/ operatorCrash(b)
      PROVE  WalletInv'
  BY <1>3, FailStep, CrashStep
<1>4. QED
  BY <1>1, <1>2, <1>3, ChainStep, ClaimStep, TimeStep, StutterStep DEF OperatorNext

(* The inductive invariant, from the first reservation to the last final receipt. *)
THEOREM WalletInvariant == ActionsAssumption => (OperatorSpec => []WalletInv)
<1> SUFFICES ASSUME ActionsAssumption PROVE OperatorSpec => []WalletInv
  OBVIOUS
<1>1. OperatorInit => WalletInv
  BY WalletStarts
<1>2. WalletInv /\ [OperatorNext]_operatorVars => WalletInv'
  BY WalletInductive
<1>3. QED
  BY <1>1, <1>2, PTL DEF OperatorSpec

-----------------------------------------------------------------------------
(* What the invariant says of the wallet. *)
LEMMA OneNonceFollows ==
    ASSUME WalletInv
    PROVE  OneNonceOneAction
<1> SUFFICES ASSUME NEW c \in Candidates, NEW d \in Candidates,
                    record[c] # NoNonce, record[c] = record[d]
             PROVE  c = d
  BY DEF OneNonceOneAction
<1>1. PICK x \in rowOf(c, record[c]) : TRUE
  BY DEF WalletInv, CandidateInv, RestInv
<1>2. PICK y \in rowOf(d, record[d]) : TRUE
  BY DEF WalletInv, CandidateInv, RestInv
<1>3. /\ x \in allocations /\ x.action_id = c /\ x.nonce = record[c]
      /\ y \in allocations /\ y.action_id = d /\ y.nonce = record[d]
  BY DEF rowOf, rowsOf
<1>4. x = y
  BY <1>3 DEF WalletInv, JournalInv, validateJournal
<1>5. QED
  BY <1>3, <1>4

LEMMA ReservedFollows ==
    ASSUME ActionsAssumption, WalletInv
    PROVE  InFlightIsReserved
<1> SUFFICES ASSUME NEW c \in Candidates, inMempool(c) \/ (isMined(c) /\ c \notin reverted)
             PROVE  known(BoardOf[c], c)
  BY DEF InFlightIsReserved
<1>1. Accounted(c)
  BY DEF WalletInv, CandidateInv, RestInv, nowhere
<1>2. CASE c \notin reverted
  BY <1>1, <1>2 DEF Accounted
<1>3. CASE inMempool(c)
  <2>1. ~isFinal(c)
    <3> SUFFICES ASSUME NEW i \in 1..finalized, mined[i] = transaction(c)
                 PROVE  FALSE
      BY DEF isFinal
    <3>1. i \in 1..Len(mined)
      BY DEF WalletInv, NetworkInv
    <3>2. QED
      BY <1>3, <3>1 DEF inMempool, WalletInv, NetworkInv
  <2>2. QED
    BY <1>1, <2>1 DEF Accounted
<1>4. QED
  BY <1>2, <1>3

(* Files, journal and envelopes keep the shapes their readers demand (readJournal, the
   envelope's readState, the action queue). *)
THEOREM WalletTypeCorrect == ActionsAssumption => (OperatorSpec => []OperatorTypeOK)
<1>1. WalletInv => OperatorTypeOK
  BY DEF WalletInv, FilesInv, JournalInv, EnvelopeInv, EnvelopeShape, OperatorTypeOK
<1>2. QED
  BY <1>1, WalletInvariant, PTL

(* The session wallet never signs two candidates' transactions with one nonce, for any number of
   boards, crashes and exceptions, providers that lag without bound, dropped and reorganized
   transactions and foreign ones (reserveWalletNonceLocked under the wallet lock). *)
THEOREM NoncesAlwaysSingle == ActionsAssumption => (OperatorSpec => []OneNonceOneAction)
<1>1. WalletInv => OneNonceOneAction
  BY OneNonceFollows
<1>2. QED
  BY <1>1, WalletInvariant, PTL

(* The journal always passes readJournal, and every signed record has its row there, whatever
   wrote one and not the other when it died. *)
THEOREM JournalAlwaysBacks == ActionsAssumption => (OperatorSpec => []JournalBacksRecords)
<1>1. WalletInv => JournalBacksRecords
  BY DEF WalletInv, JournalInv, CandidateInv, RestInv, JournalBacksRecords
<1>2. QED
  BY <1>1, WalletInvariant, PTL

(* A bond that is pending or taken stands in its board's envelope as a reservation or a spend:
   exceptions release slots only before the signed journal is durable, reverted transactions
   only when they are final. *)
THEOREM BondsAlwaysCounted == ActionsAssumption => (OperatorSpec => []InFlightIsReserved)
<1> SUFFICES ASSUME ActionsAssumption PROVE OperatorSpec => []InFlightIsReserved
  OBVIOUS
<1>1. WalletInv => InFlightIsReserved
  BY ReservedFollows
<1>2. QED
  BY <1>1, WalletInvariant, PTL

(* reserveChallengeSpend's caps, per UTC day and on pending slots, hold whatever day a spend is
   finalized on and however often a candidate is admitted again. *)
THEOREM CapsAlwaysHeld == ActionsAssumption => (OperatorSpec => []CapsHeld)
<1>1. WalletInv => CapsHeld
  BY DEF WalletInv, EnvelopeInv
<1>2. QED
  BY <1>1, WalletInvariant, PTL

(* An action recorded as confirmed has its spend and holds no slot; one recorded as reverted on
   its first day holds none either (finalizeChallengeSpend before the action is written). *)
THEOREM AlwaysSettled == ActionsAssumption => (OperatorSpec => []SettledInEnvelope)
<1>1. WalletInv => SettledInEnvelope
  BY DEF WalletInv, CandidateInv, RestInv, SettledInEnvelope
<1>2. QED
  BY <1>1, WalletInvariant, PTL

-----------------------------------------------------------------------------
(* Fenced bytes.  Their row is the only one of their nonce ... *)
LEMMA FencedNotActive ==
    ASSUME ActionsAssumption, WalletInv, NEW c \in Candidates, isFenced(c)
    PROVE  record[c] # NoNonce /\ ~activeRow(c, record[c])
<1>1. PICK x \in rowOf(c, record[c]) : x.state = "fenced"
  BY DEF isFenced
<1>2. x \in Allocation /\ x \in allocations /\ x.nonce = record[c]
  BY DEF rowOf, rowsOf, WalletInv, JournalInv
<1>3. \A y \in rowOf(c, record[c]) : y = x
  BY <1>2 DEF rowOf, rowsOf, WalletInv, JournalInv, validateJournal
<1>4. x.nonce \in Nat /\ NoNonce \notin Nat
  BY <1>2 DEF Allocation, ActionsAssumption
<1>5. QED
  BY <1>1, <1>2, <1>3, <1>4 DEF activeRow

(* ... and no call of the allocator takes the fence off a row. *)
LEMMA CallKeepsFence ==
    ASSUME JournalInv, NEW x \in allocations, x.state = "fenced", NEW d, NEW n, NEW f, NEW p,
           \/ recordSigned(d, n) \/ recordBroadcast(d, n) \/ fence(d, n)
           \/ recoverNonce(d, n) \/ reserveNonce(d, f, p)
    PROVE  x \in allocations'
<1>1. CASE recordSigned(d, n) \/ recordBroadcast(d, n) \/ fence(d, n)
  <2>1. x \notin rowOf(d, n)
    BY <1>1 DEF recordSigned, recordBroadcast, fence, activeRow, rowOf, rowsOf, JournalInv, validateJournal
  <2>2. QED
    BY <1>1, <2>1 DEF recordSigned, recordBroadcast, fence, setState
<1>2. CASE recoverNonce(d, n)
  BY <1>2 DEF recoverNonce, setState
<1>3. CASE reserveNonce(d, f, p)
  BY <1>3 DEF reserveNonce, reservedOf, setState, nonceVars
<1>4. QED
  BY <1>1, <1>2, <1>3

LEMMA FenceKept ==
    ASSUME NEW c, isFenced(c), record'[c] = record[c],
           \A x \in allocations : x.state = "fenced" => x \in allocations'
    PROVE  isFenced(c)'
BY DEF isFenced, rowOf, rowsOf

LEMMA NowhereKept ==
    ASSUME NEW c, nowhere(c), record'[c] = record[c], UNCHANGED <<mempool, mined>>
    PROVE  nowhere(c)'
BY DEF nowhere, isMined, inMempool, transaction

(* The steps that call the allocator, and the others that leave the network alone. *)
LEMMA CallsKeepAway ==
    ASSUME ActionsAssumption, WalletInv, NEW c \in Candidates, isFenced(c), nowhere(c), NEW b \in Boards,
           allocate(b) \/ writeJournal(b) \/ recover(b) \/ pendingKnown(b) \/ decide(b) \/ noteSent(b)
    PROVE  isFenced(c)' /\ nowhere(c)'
<1>1. UNCHANGED <<record, mempool, mined>>
  BY DEF allocate, writeJournal, recover, pendingKnown, decide, noteSent, fileVars, chainVars
<1>2. PICK d, n, f, p : \/ recordSigned(d, n) \/ recordBroadcast(d, n) \/ fence(d, n)
                        \/ recoverNonce(d, n) \/ reserveNonce(d, f, p)
  BY DEF allocate, writeJournal, recover, pendingKnown, decide, noteSent
<1>3. \A x \in allocations : x.state = "fenced" => x \in allocations'
  BY <1>2, CallKeepsFence DEF WalletInv
<1>4. QED
  BY <1>1, <1>3, FenceKept, NowhereKept

LEMMA ConsumeKeepsAway ==
    ASSUME ActionsAssumption, WalletInv, NEW c \in Candidates, isFenced(c), nowhere(c), NEW b \in Boards,
           consumeCandidate(b)
    PROVE  isFenced(c)' /\ nowhere(c)'
<1>1. CASE allocate(b) \/ writeJournal(b)
  BY <1>1, CallsKeepAway
<1>2. CASE \/ \E d \in Candidates : resume(b, d) \/ expire(b, d) \/ admit(b, d)
           \/ lockWallet(b) \/ preflight(b) \/ mark(b) \/ act(b)
  <2>1. UNCHANGED <<allocations, record, mempool, mined>>
    BY <1>2 DEF resume, expire, admit, lockWallet, preflight, mark, act, nonceVars, fileVars, chainVars
  <2>2. QED
    BY <2>1, FenceKept, NowhereKept
<1>3. CASE sign(b)
  <2>1. record[c] # NoNonce
    BY FencedNotActive
  <2>2. record'[c] = record[c] /\ UNCHANGED <<allocations, mempool, mined>>
    BY <1>3, <2>1 DEF sign, nonceVars, chainVars, WalletInv, FilesInv
  <2>3. QED
    BY <2>2, FenceKept, NowhereKept
<1>4. QED
  BY <1>1, <1>2, <1>3 DEF consumeCandidate

LEMMA ReconcileKeepsAway ==
    ASSUME ActionsAssumption, WalletInv, NEW c \in Candidates, isFenced(c), nowhere(c), NEW b \in Boards,
           reconcileBroadcast(b)
    PROVE  isFenced(c)' /\ nowhere(c)'
<1>1. CASE recover(b) \/ pendingKnown(b) \/ decide(b) \/ noteSent(b)
  BY <1>1, CallsKeepAway
<1>2. CASE \/ finalReceipt(b) \/ confirm(b) \/ youngReceipt(b) \/ refuse(b) \/ noteLoss(b) \/ supersede(b)
  <2>1. UNCHANGED <<allocations, record, mempool, mined>>
    BY <1>2 DEF finalReceipt, confirm, youngReceipt, refuse, noteLoss, supersede, nonceVars, fileVars, chainVars
  <2>2. QED
    BY <2>1, FenceKept, NowhereKept
<1>3. CASE send(b)
  <2>1. at[b][1] = "send" /\ "send" \in WalletLocked
    BY <1>3 DEF send, running, WalletLocked
  <2>2. PICK d \in Candidates : d = candidate(b) /\ where(d) = at[b][1] /\ CandidateInv(d)
    BY <2>1, Inside
  <2>3. d # c
    BY <2>1, <2>2, FencedNotActive DEF CandidateInv, PlaceInv
  <2>4. transaction(d) # transaction(c)
    BY <2>3 DEF transaction
  <2>5. /\ UNCHANGED <<allocations, record, mined>>
        /\ mempool' = mempool \cup {transaction(d)} \/ UNCHANGED mempool
    BY <1>3, <2>2 DEF send, nonceVars, fileVars
  <2>6. nowhere(c)'
    BY <2>4, <2>5 DEF nowhere, isMined, inMempool, transaction
  <2>7. QED
    BY <2>5, <2>6, FenceKept
<1>4. QED
  BY <1>1, <1>2, <1>3 DEF reconcileBroadcast

(* The rest of the world sends, mines and reorganizes what is not of c. *)
LEMMA WorldKeepsAway ==
    ASSUME ActionsAssumption, WalletInv, NEW c \in Candidates, isFenced(c), nowhere(c),
           Chain \/ claimBond \/ (\E n \in claims : sendClaim(n)) \/ envelopeTime
    PROVE  isFenced(c)' /\ nowhere(c)'
<1>1. UNCHANGED <<allocations, record>>
  BY DEF Chain, mine, drop, finalize, reorg, sendOutside, windowEnds, claimBond, sendClaim, envelopeTime,
         nonceVars, fileVars
<1>2. isFenced(c)'
  BY <1>1, FenceKept
<1>3. CASE (\E tx \in mempool : mine(tx) \/ drop(tx)) \/ finalize \/ reorg
  <2>1. NetworkInv
    BY DEF WalletInv
  <2>2. ASSUME NEW tx \in mempool, mine(tx) PROVE SeenSame(c)
    BY <2>1, <2>2, MineKeeps
  <2>3. ASSUME NEW tx \in mempool, drop(tx) PROVE SeenSame(c)
    BY <2>1, <2>3, DropKeeps
  <2>4. SeenSame(c)
    BY <1>3, <2>1, <2>2, <2>3, FinalizeKeeps, ReorgKeeps
  <2>5. QED
    BY <1>2, <2>4 DEF SeenSame
<1>4. CASE sendOutside \/ \E n \in claims : sendClaim(n)
  <2>1. PICK n : mempool' = mempool \cup {[by |-> Outside, nonce |-> n]} /\ UNCHANGED mined
    BY <1>4 DEF sendOutside, sendClaim
  <2>2. transaction(c)' = transaction(c) /\ transaction(c) # [by |-> Outside, nonce |-> n]
    BY <1>1 DEF transaction, ActionsAssumption
  <2>3. QED
    BY <1>2, <2>1, <2>2 DEF nowhere, isMined, inMempool
<1>5. CASE (\E d \in Candidates : windowEnds(d)) \/ claimBond \/ envelopeTime
  BY <1>1, <1>2, <1>5, NowhereKept DEF windowEnds, claimBond, envelopeTime, chainVars
<1>6. QED
  BY <1>2, <1>3, <1>4, <1>5 DEF Chain

LEMMA FencedAwayStep ==
    ASSUME ActionsAssumption, WalletInv, [OperatorNext]_operatorVars, NEW c \in Candidates,
           isFenced(c), nowhere(c)
    PROVE  isFenced(c)' /\ nowhere(c)'
<1>1. ASSUME NEW b \in Boards, fail(b) \/ operatorCrash(b)
      PROVE  isFenced(c)' /\ nowhere(c)'
  <2>1. UNCHANGED <<allocations, record, mempool, mined>>
    BY <1>1 DEF fail, operatorCrash, nonceVars, fileVars, chainVars
  <2>2. QED
    BY <2>1, FenceKept, NowhereKept
<1>2. CASE UNCHANGED operatorVars
  <2>1. UNCHANGED <<allocations, record, mempool, mined>>
    BY <1>2 DEF operatorVars, chainVars
  <2>2. QED
    BY <2>1, FenceKept, NowhereKept
<1>3. QED
  BY <1>1, <1>2, ConsumeKeepsAway, ReconcileKeepsAway, WorldKeepsAway DEF OperatorNext

(* Once its nonce is fenced, a transaction that is nowhere never comes back, whoever resumes,
   crashes or reorganizes and however far the providers lag: no operator sends fenced bytes
   (walletNonceBroadcastDecisionLocked, recordWalletNonceSignedLocked). *)
THEOREM FencedNeverReturns == ActionsAssumption => (OperatorSpec => FencedStaysAway)
<1> SUFFICES ASSUME ActionsAssumption PROVE OperatorSpec => FencedStaysAway
  OBVIOUS
<1>1. WalletInv /\ [OperatorNext]_operatorVars =>
          [\A c \in Candidates : isFenced(c) /\ nowhere(c) => isFenced(c)' /\ nowhere(c)']_operatorVars
  BY FencedAwayStep
<1>2. QED
  BY <1>1, WalletInvariant, PTL DEF OperatorSpec, FencedStaysAway
=============================================================================
