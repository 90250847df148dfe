----------------------- MODULE MultisigTimelock_proofs ------------------------
(***************************************************************************)
(* The timelock is governed as it promises for any operations, calls,      *)
(* signers, delays and depth of nested execute calls.                      *)
(*                                                                         *)
(* The argument: the flag that lets the timelock change itself follows the *)
(* operation whose call is running, also on the way back from a nested     *)
(* call; a guardian's approval that counts was given under the governance  *)
(* that stands; and what a failing transaction falls back to satisfies     *)
(* both, and differs from the present by what the transaction executed.    *)
(***************************************************************************)
EXTENDS MultisigTimelock, FiniteSetTheorems, SequenceTheorems, TLAPS

States == {"none", "pending", "executed", "cancelled", "expired"}

\* The record of an operation; what was approved under it may be anything.
IsOperation(o) ==
    /\ DOMAIN o = {"state", "eta", "overrideClass", "confirmedBy", "cancelConfirmedBy",
                   "confirmations", "recoveryEpoch", "approvedUnder"}
    /\ o.state \in States
    /\ o.overrideClass \in BOOLEAN
    /\ o.recoveryEpoch \in Nat

OperationsOK(records) ==
    /\ DOMAIN records = Ops
    /\ \A id \in Ops : IsOperation(records[id])

GovernanceOK(s, t, epoch) ==
    /\ IsFiniteSet(s)
    /\ t \in Nat
    /\ validThreshold(t, Cardinality(s))
    /\ epoch \in Nat

\* An approval that counts was given under the governance that stands.
ApprovalsCurrent(records, s, t, g, epoch) ==
    \A id \in Ops :
        /\ records[id].recoveryEpoch <= epoch + 1
        /\ records[id].recoveryEpoch = epoch + 1 => records[id].approvedUnder = <<s, t, g>>

Frame == [id : Ops, previous : BOOLEAN, called : BOOLEAN]

FramesOK ==
    /\ frames \in Seq(Frame)
    /\ executingOverride \in BOOLEAN

\* The class of the operation at a depth of the stack; outside of all of them there is none.
ClassAt(i) == i > 0 /\ ops[frames[i].id].overrideClass

\* The flag is the class of the innermost operation, and each frame restores the one around it.
FlagFollowsFrames ==
    /\ executingOverride <=> ClassAt(Len(frames))
    /\ \A i \in 1..Len(frames) : frames[i].previous <=> ClassAt(i - 1)

\* What the transaction under way has done to the operations is to execute some of them.
SinceBefore ==
    frames # <<>> =>
        /\ GovernanceOK(before[1][1], before[1][2], before[1][4])
        /\ OperationsOK(before[2])
        /\ ApprovalsCurrent(before[2], before[1][1], before[1][2], before[1][3], before[1][4])
        /\ \A id \in Ops :
              \/ ops[id] = before[2][id]
              \/ /\ before[2][id].state = "pending"
                 /\ ops[id] = [before[2][id] EXCEPT !.state = "executed"]

TimelockInv ==
    /\ GovernanceOK(signers, threshold, governanceEpoch)
    /\ OperationsOK(ops)
    /\ now \in 0..MaxTime
    /\ FramesOK
    /\ FlagFollowsFrames
    /\ ApprovalsCurrent(ops, signers, threshold, guardian, governanceEpoch)
    /\ SinceBefore

(* What _requireValidThreshold admits is a strict majority, also of the override quorum. *)
LEMMA ThresholdIsMajority ==
    ASSUME NEW t \in Nat, NEW n \in Nat, validThreshold(t, n)
    PROVE  /\ 2 * t > n
           /\ overrideThresholdOf(t, n) \in Nat
           /\ overrideThresholdOf(t, n) > t
  BY DEF validThreshold, overrideThresholdOf

(* Signers who number the threshold are a strict majority (currentConfirmations). *)
LEMMA EnoughIsMajority ==
    ASSUME NEW S, IsFiniteSet(S), NEW t \in Nat, validThreshold(t, Cardinality(S)),
           NEW C, Cardinality(C \cap S) >= t
    PROVE  2 * Cardinality(C \cap S) > Cardinality(S)
<1>1. Cardinality(S) \in Nat
  BY FS_CardinalityType
<1>2. IsFiniteSet(C \cap S) /\ Cardinality(C \cap S) \in Nat
  BY FS_Intersection, FS_CardinalityType
<1>3. QED
  BY <1>1, <1>2 DEF validThreshold

(* The invariant holds when the timelock is deployed. *)
LEMMA TimelockInvInit == TimelockInit => TimelockInv
<1>1. SUFFICES ASSUME TimelockInit PROVE TimelockInv
  OBVIOUS
<1>2. GovernanceOK(signers, threshold, governanceEpoch)
  BY <1>1, TimelockAssumption DEF TimelockInit, GovernanceOK
<1>3. OperationsOK(ops)
  BY <1>1 DEF TimelockInit, OperationsOK, IsOperation, fresh, States
<1>4. now \in 0..MaxTime /\ FramesOK /\ FlagFollowsFrames /\ SinceBefore
  <2>1. frames = <<>> /\ executingOverride = FALSE /\ now = 0
    BY <1>1 DEF TimelockInit
  <2>2. FlagFollowsFrames
    BY <2>1 DEF FlagFollowsFrames, ClassAt
  <2>3. FramesOK
    BY <2>1, EmptySeq, Zenon DEF FramesOK
  <2>6. SinceBefore
    BY <2>1 DEF SinceBefore
  <2>4. now \in 0..MaxTime
    BY <2>1, TimelockAssumption
  <2>5. QED
    BY <2>2, <2>3, <2>4, <2>6
<1>5. ApprovalsCurrent(ops, signers, threshold, guardian, governanceEpoch)
  BY <1>1 DEF TimelockInit, ApprovalsCurrent, fresh
<1>6. QED
  BY <1>2, <1>3, <1>4, <1>5 DEF TimelockInv

(* Outside a transaction a step that touches only operations keeps the invariant, if the records
   it leaves are records and no approval counts that was not given under today's governance. *)
LEMMA RecordsStep ==
    ASSUME TimelockInv, Idle, keepAccounts, OperationsOK(ops'),
           ApprovalsCurrent(ops', signers, threshold, guardian, governanceEpoch)
    PROVE  TimelockInv'
  BY DEF TimelockInv, Idle, keepAccounts, gov, GovernanceOK, OperationsOK, IsOperation, FramesOK,
         FlagFollowsFrames, ClassAt, SinceBefore, ApprovalsCurrent

(* A schedule, a confirmation, an approval, an expiry. *)
LEMMA SignerSteps ==
    ASSUME TimelockInv, NEW s, NEW id \in Ops,
           \/ \E override \in BOOLEAN : schedule(s, id, override)
           \/ confirm(s, id)
           \/ confirmCancel(s, id)
           \/ approveSignerRecovery(id)
           \/ expire(id)
    PROVE  TimelockInv'
<1>1. CASE \E override \in BOOLEAN : schedule(s, id, override)
  <2>1. PICK override \in BOOLEAN : schedule(s, id, override)
    BY <1>1
  <2>2. /\ Idle /\ keepAccounts
        /\ DOMAIN ops' = Ops
        /\ \A i \in Ops : i # id => ops'[i] = ops[i]
        /\ DOMAIN ops'[id] = DOMAIN fresh
        /\ ops'[id].state = "pending" /\ ops'[id].overrideClass = override
        /\ ops'[id].recoveryEpoch = 0
    BY <2>1 DEF schedule, TimelockInv, OperationsOK, fresh
  <2>3. OperationsOK(ops')
    BY <2>2 DEF TimelockInv, OperationsOK, IsOperation, fresh, States
  <2>4. ApprovalsCurrent(ops', signers, threshold, guardian, governanceEpoch)
    BY <2>2 DEF TimelockInv, ApprovalsCurrent, GovernanceOK
  <2>5. QED
    BY <2>2, <2>3, <2>4, RecordsStep
<1>2. CASE confirm(s, id)
  <2>1. Idle /\ keepAccounts /\ OperationsOK(ops')
    BY <1>2 DEF confirm, TimelockInv, OperationsOK, IsOperation, States
  <2>2. ApprovalsCurrent(ops', signers, threshold, guardian, governanceEpoch)
    BY <1>2 DEF confirm, TimelockInv, OperationsOK, IsOperation, ApprovalsCurrent
  <2>3. QED
    BY <2>1, <2>2, RecordsStep
<1>3. CASE confirmCancel(s, id)
  <2>1. Idle /\ keepAccounts /\ OperationsOK(ops')
    BY <1>3 DEF confirmCancel, TimelockInv, OperationsOK, IsOperation, States
  <2>2. ApprovalsCurrent(ops', signers, threshold, guardian, governanceEpoch)
    BY <1>3 DEF confirmCancel, TimelockInv, OperationsOK, IsOperation, ApprovalsCurrent
  <2>3. QED
    BY <2>1, <2>2, RecordsStep
<1>4. CASE approveSignerRecovery(id)
  <2>1. Idle /\ keepAccounts /\ OperationsOK(ops')
    BY <1>4 DEF approveSignerRecovery, TimelockInv, OperationsOK, IsOperation, States, GovernanceOK
  <2>2. ApprovalsCurrent(ops', signers, threshold, guardian, governanceEpoch)
    BY <1>4 DEF approveSignerRecovery, TimelockInv, OperationsOK, IsOperation, ApprovalsCurrent,
                GovernanceOK
  <2>3. QED
    BY <2>1, <2>2, RecordsStep
<1>5. CASE expire(id)
  <2>1. Idle /\ keepAccounts /\ OperationsOK(ops')
    BY <1>5 DEF expire, TimelockInv, OperationsOK, IsOperation, States
  <2>2. ApprovalsCurrent(ops', signers, threshold, guardian, governanceEpoch)
    BY <1>5 DEF expire, TimelockInv, OperationsOK, IsOperation, ApprovalsCurrent
  <2>3. QED
    BY <2>1, <2>2, RecordsStep
<1>6. QED
  BY <1>1, <1>2, <1>3, <1>4, <1>5

(* The guardian's cancellation also marks the family, which the invariant does not speak of. *)
LEMMA CancelStep ==
    ASSUME TimelockInv, NEW id \in Ops, cancel(id)
    PROVE  TimelockInv'
<1>1. OperationsOK(ops')
  BY DEF cancel, TimelockInv, OperationsOK, IsOperation, States
<1>2. ApprovalsCurrent(ops', signers, threshold, guardian, governanceEpoch)
  BY DEF cancel, TimelockInv, OperationsOK, IsOperation, ApprovalsCurrent
<1>3. QED
  BY <1>1, <1>2 DEF cancel, TimelockInv, Idle, gov, GovernanceOK, OperationsOK, IsOperation, FramesOK,
                    FlagFollowsFrames, ClassAt, SinceBefore, ApprovalsCurrent

(* execute pushes a frame: the flag becomes the class of the operation, the frame keeps the flag
   that was, and a transaction that begins here falls back to what is now. *)
LEMMA ExecuteStep ==
    ASSUME TimelockInv, NEW id \in Ops, execute(id)
    PROVE  TimelockInv'
<1>1. GovernanceOK(signers, threshold, governanceEpoch)' /\ (now \in 0..MaxTime)'
  BY DEF execute, gov, TimelockInv, GovernanceOK
<1>2. OperationsOK(ops') /\ ops[id].state = "pending"
  BY DEF execute, executable, TimelockInv, OperationsOK, IsOperation, States
<1>3. ApprovalsCurrent(ops, signers, threshold, guardian, governanceEpoch)'
  BY DEF execute, gov, TimelockInv, OperationsOK, IsOperation, ApprovalsCurrent
<1>4. \A i \in Ops : ops'[i].overrideClass = ops[i].overrideClass
  BY DEF execute, TimelockInv, OperationsOK, IsOperation
<1>5. FramesOK'
  <2> DEFINE frame == [id |-> id, previous |-> executingOverride, called |-> Call[id].kind = "external"]
  <2>1. frames' = Append(frames, frame) /\ executingOverride' = ops[id].overrideClass
    BY DEF execute, overrideDuringCall
  <2>2. frame \in Frame
    BY DEF TimelockInv, FramesOK, Frame
  <2>3. frames \in Seq(Frame) /\ ops[id].overrideClass \in BOOLEAN
    BY DEF TimelockInv, FramesOK, OperationsOK, IsOperation
  <2> HIDE DEF frame
  <2>4. QED
    BY <2>1, <2>2, <2>3 DEF FramesOK
<1>6. FlagFollowsFrames'
  <2>1. /\ Len(frames) \in Nat /\ Len(frames') = Len(frames) + 1
        /\ \A i \in 1..Len(frames) : frames'[i] = frames[i] /\ frames[i].id \in Ops
        /\ frames'[Len(frames) + 1].id = id
        /\ frames'[Len(frames) + 1].previous = executingOverride
    <3> DEFINE frame == [id |-> id, previous |-> executingOverride, called |-> Call[id].kind = "external"]
    <3>1. frames' = Append(frames, frame)
      BY DEF execute
    <3>2. frame \in Frame
      BY DEF TimelockInv, FramesOK, Frame
    <3>3. frame.id = id /\ frame.previous = executingOverride
      OBVIOUS
    <3> HIDE DEF frame
    <3>4. frames \in Seq(Frame)
      BY DEF TimelockInv, FramesOK
    <3>5. \A f \in Frame : f.id \in Ops
      BY DEF Frame
    <3>6. QED
      BY <3>1, <3>2, <3>3, <3>4, <3>5
  <2>2. executingOverride' = ops[id].overrideClass
    BY DEF execute, overrideDuringCall
  <2>3. /\ executingOverride <=> ClassAt(Len(frames))
        /\ \A i \in 1..Len(frames) : frames[i].previous <=> ClassAt(i - 1)
    BY DEF TimelockInv, FlagFollowsFrames
  <2>4. \A i \in 0..Len(frames) : ClassAt(i)' <=> ClassAt(i)
    <3>1. TAKE i \in 0..Len(frames)
    <3>2. CASE i = 0
      BY <3>2 DEF ClassAt
    <3>3. CASE i > 0
      <4>1. frames'[i] = frames[i] /\ frames[i].id \in Ops
        BY <2>1, <3>3
      <4>2. ops'[frames'[i].id].overrideClass = ops[frames[i].id].overrideClass
        BY <4>1, <1>4
      <4>3. QED
        BY <4>2, <3>3 DEF ClassAt
    <3>4. QED
      BY <3>2, <3>3, <2>1
  <2>5. ClassAt(Len(frames))' <=> ops[id].overrideClass
    BY <2>1, <1>4 DEF ClassAt
  <2>6. executingOverride' <=> ClassAt(Len(frames))'
    BY <2>1, <2>2, <2>5
  <2>7. ASSUME NEW i \in 1..Len(frames') PROVE frames'[i].previous <=> ClassAt(i - 1)'
    <3>1. CASE i \in 1..Len(frames)
      BY <3>1, <2>1, <2>3, <2>4
    <3>2. CASE i = Len(frames) + 1
      BY <3>2, <2>1, <2>3, <2>4
    <3>3. QED
      BY <3>1, <3>2, <2>1
  <2>8. QED
    BY <2>6, <2>7 DEF FlagFollowsFrames
<1>7. SinceBefore'
  <2>1. CASE Idle
    BY <2>1, <1>2 DEF execute, gov, SinceBefore, TimelockInv, GovernanceOK, OperationsOK, IsOperation, ApprovalsCurrent
  <2>2. CASE ~Idle
    <3>1. before' = before /\ SinceBefore /\ frames # <<>>
      BY <2>2 DEF execute, Idle, TimelockInv
    <3>2. \A i \in Ops : i # id => ops'[i] = ops[i]
      BY DEF execute, TimelockInv, OperationsOK
    <3>3. ops[id] = before[2][id] /\ ops'[id] = [before[2][id] EXCEPT !.state = "executed"]
      BY <3>1, <1>2 DEF SinceBefore, execute, TimelockInv, OperationsOK, IsOperation
    <3>4. QED
      BY <3>1, <3>2, <3>3, <1>2 DEF SinceBefore, GovernanceOK, OperationsOK, IsOperation, ApprovalsCurrent
  <2>3. QED
    BY <2>1, <2>2
<1>8. QED
  BY <1>1, <1>2, <1>3, <1>5, <1>6, <1>7 DEF TimelockInv

(* A call of the timelock to itself changes the governance and moves the epoch, so no approval
   given before counts any more. *)
LEMMA SelfCallStep ==
    ASSUME TimelockInv, NEW kind, selfCall(kind),
           IsFiniteSet(signers'), threshold' \in Nat, validThreshold(threshold', Cardinality(signers'))
    PROVE  TimelockInv'
<1>1. GovernanceOK(signers, threshold, governanceEpoch)' /\ (now \in 0..MaxTime)'
  BY DEF selfCall, TimelockInv, GovernanceOK
<1>2. OperationsOK(ops)' /\ ApprovalsCurrent(ops, signers, threshold, guardian, governanceEpoch)'
  BY DEF selfCall, TimelockInv, OperationsOK, IsOperation, ApprovalsCurrent, GovernanceOK
<1>3. /\ frames \in Seq(Frame) /\ Len(frames) \in Nat /\ Len(frames) > 0
      /\ Len(frames') = Len(frames)
      /\ \A i \in 1..Len(frames) :
            frames'[i].id = frames[i].id /\ frames'[i].previous = frames[i].previous
      /\ frames' \in Seq(Frame)
  <2>1. frames \in Seq(Frame) /\ Len(frames) \in Nat /\ Len(frames) > 0
    BY EmptySeq DEF selfCall, Idle, TimelockInv, FramesOK
  <2> DEFINE frame == [frames[Len(frames)] EXCEPT !.called = TRUE]
  <2>2. frames[Len(frames)] \in Frame
    BY <2>1
  <2>3. frame \in Frame /\ frame.id = frames[Len(frames)].id /\ frame.previous = frames[Len(frames)].previous
    BY <2>2 DEF Frame
  <2>4. frames' = [frames EXCEPT ![Len(frames)] = frame]
    BY DEF selfCall
  <2> HIDE DEF frame
  <2>5. QED
    BY <2>1, <2>2, <2>3, <2>4, ExceptSeq
<1>4. FramesOK'
  BY <1>3 DEF selfCall, TimelockInv, FramesOK
<1>5. FlagFollowsFrames'
  BY <1>3 DEF selfCall, TimelockInv, FlagFollowsFrames, ClassAt
<1>6. SinceBefore'
  BY <1>3 DEF selfCall, Idle, TimelockInv, SinceBefore, GovernanceOK, OperationsOK, IsOperation, ApprovalsCurrent
<1>7. QED
  BY <1>1, <1>2, <1>4, <1>5, <1>6 DEF TimelockInv

(* addSigner, removeSigner, swapSigner, setThreshold and setGuardian leave finitely many signers
   and a threshold that _requireValidThreshold admits of them. *)
LEMMA SelfCallsStep ==
    ASSUME TimelockInv, SelfCalls
    PROVE  TimelockInv'
<1>1. IsFiniteSet(signers) /\ threshold \in Nat /\ validThreshold(threshold, Cardinality(signers))
  BY DEF TimelockInv, GovernanceOK
<1>2. Cardinality(signers) \in Nat
  BY <1>1, FS_CardinalityType
<1>3. CASE addSigner
  <2>1. IsFiniteSet(signers') /\ Cardinality(signers') = Cardinality(signers) + 1
    BY <1>1, <1>3, FS_AddElement DEF addSigner
  <2>2. threshold' \in Nat /\ validThreshold(threshold', Cardinality(signers'))
    BY <1>1, <1>2, <1>3, <2>1 DEF addSigner, Larger
  <2>3. QED
    BY <1>3, <2>1, <2>2, SelfCallStep DEF addSigner
<1>4. CASE removeSigner
  <2>1. IsFiniteSet(signers') /\ Cardinality(signers') = Cardinality(signers) - 1
    BY <1>1, <1>4, FS_RemoveElement DEF removeSigner
  <2>2. threshold' \in Nat /\ validThreshold(threshold', Cardinality(signers'))
    BY <1>1, <1>2, <1>4, <2>1 DEF removeSigner, Larger, validThreshold
  <2>3. QED
    BY <1>4, <2>1, <2>2, SelfCallStep DEF removeSigner
<1>5. CASE swapSigner
  <2>1. PICK out, in : out \in signers /\ in \notin signers /\ signers' = (signers \ {out}) \cup {in}
    BY <1>5 DEF swapSigner
  <2>2. IsFiniteSet(signers \ {out}) /\ Cardinality(signers \ {out}) = Cardinality(signers) - 1
    BY <1>1, <2>1, FS_RemoveElement
  <2>3. IsFiniteSet(signers') /\ Cardinality(signers') = Cardinality(signers \ {out}) + 1
    BY <2>1, <2>2, FS_AddElement
  <2>4. Cardinality(signers') = Cardinality(signers) /\ threshold' = threshold
    BY <1>2, <1>5, <2>2, <2>3 DEF swapSigner
  <2>5. selfCall("swapSigner")
    BY <1>5 DEF swapSigner
  <2>6. QED
    BY <1>1, <2>3, <2>4, <2>5, SelfCallStep
<1>6. CASE setThreshold
  <2>1. Innermost.id \in Ops
    <3>1. frames \in Seq(Frame) /\ frames # <<>>
      BY <1>6 DEF setThreshold, selfCall, Idle, TimelockInv, FramesOK
    <3>2. frames[Len(frames)] \in Frame
      BY <3>1, EmptySeq
    <3>3. QED
      BY <3>2 DEF Frame, Innermost
  <2>2. threshold' \in Nat
    BY <1>6, <2>1, TimelockAssumption DEF setThreshold, selfCall
  <2>3. QED
    BY <1>1, <1>6, <2>2, SelfCallStep DEF setThreshold
<1>7. CASE setGuardian
  BY <1>1, <1>7, SelfCallStep DEF setGuardian
<1>8. QED
  BY <1>3, <1>4, <1>5, <1>6, <1>7 DEF SelfCalls

(* execute returns: the frame's flag is the class of the frame around it. *)
LEMMA ReturnStep ==
    ASSUME TimelockInv, return
    PROVE  TimelockInv'
<1>1. GovernanceOK(signers, threshold, governanceEpoch)' /\ (now \in 0..MaxTime)'
  BY DEF return, gov, TimelockInv, GovernanceOK
<1>2. OperationsOK(ops)' /\ ApprovalsCurrent(ops, signers, threshold, guardian, governanceEpoch)'
  BY DEF return, gov, TimelockInv, OperationsOK, IsOperation, ApprovalsCurrent
<1>3. /\ frames \in Seq(Frame) /\ Len(frames) \in Nat \ {0}
      /\ frames' \in Seq(Frame) /\ Len(frames') = Len(frames) - 1
      /\ \A i \in 1..Len(frames) - 1 : frames'[i] = frames[i]
      /\ frames[Len(frames)] \in Frame
  <2>1. frames \in Seq(Frame) /\ Len(frames) \in Nat \ {0}
    BY EmptySeq DEF return, Idle, TimelockInv, FramesOK
  <2>2. frames' = SubSeq(frames, 1, Len(frames) - 1)
    BY DEF return
  <2>3. \A i \in 1..Len(frames) - 1 : frames[i] \in Frame
    BY <2>1
  <2> DEFINE n == Len(frames) - 1
  <2>4. n \in Int /\ 1 \in Int /\ \A i \in 1..n : frames[i] \in Frame
    BY <2>1, <2>3
  <2>5. /\ SubSeq(frames, 1, n) \in Seq(Frame)
        /\ Len(SubSeq(frames, 1, n)) = IF 1 <= n THEN n - 1 + 1 ELSE 0
        /\ \A i \in 1..n - 1 + 1 : SubSeq(frames, 1, n)[i] = frames[1 + i - 1]
    <3> HIDE DEF n
    <3>1. QED
      BY <2>4, SubSeqProperties
  <2>6. n \in Nat /\ Len(SubSeq(frames, 1, n)) = n
    <3>1. n \in Nat
      BY <2>1
    <3>2. CASE n = 0
      BY <2>5, <3>2
    <3> HIDE DEF n
    <3>3. CASE n # 0
      <4>1. 1 <= n /\ n - 1 + 1 = n
        BY <3>1, <3>3
      <4> QED
        BY <2>5, <4>1, <3>1
    <3>4. QED
      BY <3>1, <3>2, <3>3
  <2>7. \A i \in 1..n : SubSeq(frames, 1, n)[i] = frames[i]
    BY <2>5, <2>6
  <2>8. frames[Len(frames)] \in Frame
    BY <2>1
  <2>9. QED
    BY <2>1, <2>2, <2>5, <2>6, <2>7, <2>8
<1>4. executingOverride' \in BOOLEAN /\ (executingOverride' <=> ClassAt(Len(frames) - 1))
  BY <1>3 DEF return, Innermost, Frame, TimelockInv, FlagFollowsFrames
<1>5. FramesOK'
  BY <1>3, <1>4 DEF FramesOK
<1>6. FlagFollowsFrames'
  <2>1. ASSUME NEW i \in 0..Len(frames) - 1 PROVE ClassAt(i)' <=> ClassAt(i)
    BY <1>3 DEF return, ClassAt
  <2>2. \A i \in 1..Len(frames) - 1 : frames'[i].previous <=> ClassAt(i - 1)
    BY <1>3 DEF TimelockInv, FlagFollowsFrames
  <2>3. \A i \in 1..Len(frames') : frames'[i].previous <=> ClassAt(i - 1)'
    BY <1>3, <2>1, <2>2
  <2>4. executingOverride' <=> ClassAt(Len(frames))'
    BY <1>3, <1>4 DEF return, ClassAt
  <2>5. QED
    BY <2>3, <2>4 DEF FlagFollowsFrames
<1>7. SinceBefore'
  <2>1. frames' # <<>> => Len(frames) # 1
    BY <1>3, EmptySeq
  <2>2. QED
    BY <1>3, <2>1 DEF return, gov, Idle, TimelockInv, SinceBefore, GovernanceOK, OperationsOK, IsOperation,
                      ApprovalsCurrent
<1>8. QED
  BY <1>1, <1>2, <1>5, <1>6, <1>7 DEF TimelockInv

(* A transaction that fails leaves what was before it, and no frame. *)
LEMMA CallFailedStep ==
    ASSUME TimelockInv, callFailed
    PROVE  TimelockInv'
<1>1. SinceBefore /\ frames # <<>>
  BY DEF callFailed, Idle, TimelockInv
<1>2. /\ GovernanceOK(signers, threshold, governanceEpoch)'
      /\ OperationsOK(ops)'
      /\ ApprovalsCurrent(ops, signers, threshold, guardian, governanceEpoch)'
  BY <1>1 DEF callFailed, SinceBefore, GovernanceOK, OperationsOK, IsOperation, ApprovalsCurrent
<1>3. frames' = <<>> /\ executingOverride' = FALSE /\ now' = now
  BY DEF callFailed
<1>4. FramesOK' /\ SinceBefore'
  BY <1>3, EmptySeq, Zenon DEF FramesOK, SinceBefore
<1>5. FlagFollowsFrames'
  BY <1>3 DEF FlagFollowsFrames, ClassAt
<1>6. QED
  BY <1>2, <1>3, <1>4, <1>5 DEF TimelockInv

(* Every step of the timelock keeps the invariant. *)
LEMMA TimelockInvStep == TimelockInv /\ [TimelockNext]_tlVars => TimelockInv'
<1>1. SUFFICES ASSUME TimelockInv, [TimelockNext]_tlVars PROVE TimelockInv'
  OBVIOUS
<1>2. ASSUME NEW s \in Acting, NEW id \in Ops,
             \/ \E override \in BOOLEAN : schedule(s, id, override)
             \/ confirm(s, id) \/ confirmCancel(s, id)
      PROVE  TimelockInv'
  BY <1>1, <1>2, SignerSteps
<1>3. ASSUME NEW id \in Ops, approveSignerRecovery(id) \/ cancel(id) \/ expire(id) \/ execute(id)
      PROVE  TimelockInv'
  BY <1>1, <1>3, SignerSteps, CancelStep, ExecuteStep
<1>4. CASE SelfCalls \/ return \/ callFailed
  BY <1>1, <1>4, SelfCallsStep, ReturnStep, CallFailedStep
<1>5. CASE Tick
  <2>1. (now \in 0..MaxTime)'
    BY <1>1, <1>5, TimelockAssumption DEF Tick, TimelockInv
  <2>2. QED
    BY <1>1, <1>5, <2>1 DEF Tick, gov, TimelockInv, Idle, GovernanceOK, OperationsOK, IsOperation,
                            FramesOK, FlagFollowsFrames, ClassAt, SinceBefore, ApprovalsCurrent
<1>6. CASE UNCHANGED tlVars
  BY <1>1, <1>6 DEF tlVars, TimelockInv, GovernanceOK, OperationsOK, IsOperation, FramesOK,
                    FlagFollowsFrames, ClassAt, SinceBefore, ApprovalsCurrent
<1>7. QED
  BY <1>1, <1>2, <1>3, <1>4, <1>5, <1>6 DEF TimelockNext

(* The invariant holds throughout every behaviour. *)
THEOREM TimelockInvariant == TimelockSpec => []TimelockInv
<1>1. QED
  BY TimelockInvInit, TimelockInvStep, PTL DEF TimelockSpec

(* However signers come and go, nested or not, the threshold stays a strict majority of the
   signers and leaves the override quorum within reach (_requireValidThreshold). *)
THEOREM TimelockTypeCorrect == TimelockSpec => []TimelockTypeOK
<1>1. TimelockInv => TimelockTypeOK
  BY DEF TimelockInv, GovernanceOK, OperationsOK, IsOperation, States, FramesOK, TimelockTypeOK
<1>2. QED
  BY <1>1, TimelockInvariant, PTL

-----------------------------------------------------------------------------
(* What an operation needs to be executed is at least the threshold. *)
LEMMA ExecutableIsMajority ==
    ASSUME TimelockInv, NEW id \in Ops, executable(id)
    PROVE  2 * Cardinality(ops[id].confirmedBy \cap signers) > Cardinality(signers)
<1>1. /\ IsFiniteSet(signers) /\ threshold \in Nat
      /\ validThreshold(threshold, Cardinality(signers)) /\ Cardinality(signers) \in Nat
  BY FS_CardinalityType DEF TimelockInv, GovernanceOK
<1>2. overrideThreshold \in Nat /\ overrideThreshold > threshold
  BY <1>1, ThresholdIsMajority DEF overrideThreshold
<1>3. currentConfirmations(id) \in Nat
  BY <1>1, FS_Intersection, FS_CardinalityType DEF currentConfirmations
<1>4. currentConfirmations(id) >= threshold
  BY <1>1, <1>2, <1>3 DEF executable, enoughConfirmations, overrideExecutionThreshold
<1>5. QED
  BY <1>1, <1>4, EnoughIsMajority DEF currentConfirmations

(* Which steps make an operation executed: execute, and no falling back. *)
LEMMA OnlyExecuteExecutes ==
    ASSUME TimelockInv, [TimelockNext]_tlVars, NEW id \in Ops,
           ops[id].state # "executed", ops'[id].state = "executed"
    PROVE  execute(id)
<1>1. OperationsOK(ops)
  BY DEF TimelockInv
<1>2. ASSUME NEW s, NEW i \in Ops,
             \/ \E override \in BOOLEAN : schedule(s, i, override)
             \/ confirm(s, i) \/ confirmCancel(s, i)
             \/ approveSignerRecovery(i) \/ cancel(i) \/ expire(i)
      PROVE  FALSE
  <2>1. CASE \E override \in BOOLEAN : schedule(s, i, override)
    BY <1>1, <2>1 DEF schedule, OperationsOK, IsOperation, fresh
  <2>2. CASE confirm(s, i) \/ confirmCancel(s, i)
    BY <1>1, <2>2 DEF confirm, confirmCancel, OperationsOK, IsOperation
  <2>3. CASE approveSignerRecovery(i) \/ cancel(i) \/ expire(i)
    BY <1>1, <2>3 DEF approveSignerRecovery, cancel, expire, OperationsOK, IsOperation
  <2>4. QED
    BY <1>2, <2>1, <2>2, <2>3
<1>3. ASSUME NEW i \in Ops, execute(i), i # id PROVE FALSE
  BY <1>1, <1>3 DEF execute, OperationsOK
<1>4. ~(SelfCalls \/ return \/ Tick \/ UNCHANGED tlVars)
  BY DEF SelfCalls, addSigner, removeSigner, swapSigner, setThreshold, setGuardian, selfCall,
         return, Tick, gov, tlVars
<1>5. ~callFailed
  BY <1>1 DEF callFailed, Idle, TimelockInv, SinceBefore, OperationsOK, IsOperation
<1>6. QED
  BY <1>2, <1>3, <1>4, <1>5 DEF TimelockNext

(* Which steps cancel an operation: the guardian's and the signers' cancellation. *)
LEMMA OnlyCancelCancels ==
    ASSUME TimelockInv, [TimelockNext]_tlVars, NEW id \in Ops,
           ops[id].state # "cancelled", ops'[id].state = "cancelled"
    PROVE  cancel(id) \/ \E s \in Acting : confirmCancel(s, id)
<1>1. OperationsOK(ops)
  BY DEF TimelockInv
<1>2. ASSUME NEW s, NEW i \in Ops,
             \/ \E override \in BOOLEAN : schedule(s, i, override)
             \/ confirm(s, i)
             \/ approveSignerRecovery(i) \/ expire(i)
             \/ execute(i)
      PROVE  FALSE
  <2>1. CASE \E override \in BOOLEAN : schedule(s, i, override)
    BY <1>1, <2>1 DEF schedule, OperationsOK, IsOperation, fresh
  <2>2. CASE confirm(s, i) \/ execute(i)
    BY <1>1, <2>2 DEF confirm, execute, OperationsOK, IsOperation
  <2>3. CASE approveSignerRecovery(i) \/ expire(i)
    BY <1>1, <2>3 DEF approveSignerRecovery, expire, OperationsOK, IsOperation
  <2>4. QED
    BY <1>2, <2>1, <2>2, <2>3
<1>3. ASSUME NEW s, NEW i \in Ops, cancel(i) \/ confirmCancel(s, i), i # id PROVE FALSE
  BY <1>1, <1>3 DEF cancel, confirmCancel, OperationsOK
<1>4. ~(SelfCalls \/ return \/ Tick \/ UNCHANGED tlVars)
  BY DEF SelfCalls, addSigner, removeSigner, swapSigner, setThreshold, setGuardian, selfCall,
         return, Tick, gov, tlVars
<1>5. ~callFailed
  BY <1>1 DEF callFailed, Idle, TimelockInv, SinceBefore, OperationsOK, IsOperation
<1>6. QED
  BY <1>2, <1>3, <1>4, <1>5 DEF TimelockNext

(* Nothing is executed, and nothing but the guardian's veto cancelled, without the word of a
   strict majority of the signers of that moment, for any number of signers and operations. *)
THEOREM PresentMajorityAlwaysDecides == TimelockSpec => PresentMajorityDecides
<1> DEFINE Decided(id) ==
        /\ (ops[id].state # "executed" /\ ops'[id].state = "executed")
           => 2 * Cardinality(ops[id].confirmedBy \cap signers) > Cardinality(signers)
        /\ (ops[id].state # "cancelled" /\ ops'[id].state = "cancelled")
           => \/ Family[id] \in cancelledFamilies' \ cancelledFamilies
              \/ 2 * Cardinality(ops'[id].cancelConfirmedBy \cap signers) > Cardinality(signers)
<1>1. TimelockInv /\ [TimelockNext]_tlVars => \A id \in Ops : Decided(id)
  <2>1. SUFFICES ASSUME TimelockInv, [TimelockNext]_tlVars, NEW id \in Ops PROVE Decided(id)
    OBVIOUS
  <2>2. ASSUME ops[id].state # "executed", ops'[id].state = "executed"
        PROVE  2 * Cardinality(ops[id].confirmedBy \cap signers) > Cardinality(signers)
    <3>1. execute(id)
      BY <2>1, <2>2, OnlyExecuteExecutes
    <3>2. QED
      BY <2>1, <3>1, ExecutableIsMajority DEF execute
  <2>3. ASSUME ops[id].state # "cancelled", ops'[id].state = "cancelled"
        PROVE  \/ Family[id] \in cancelledFamilies' \ cancelledFamilies
               \/ 2 * Cardinality(ops'[id].cancelConfirmedBy \cap signers) > Cardinality(signers)
    <3>1. CASE cancel(id)
      BY <3>1 DEF cancel
    <3>2. CASE \E s \in Acting : confirmCancel(s, id)
      <4>1. PICK s \in Acting : confirmCancel(s, id)
        BY <3>2
      <4>2. OperationsOK(ops) /\ GovernanceOK(signers, threshold, governanceEpoch)
        BY <2>1 DEF TimelockInv
      <4> DEFINE given == ops[id].cancelConfirmedBy \cup {s}
      <4>3. ops' = [ops EXCEPT ![id].cancelConfirmedBy = given,
                               ![id].state = IF Cardinality(given \cap signers) >= threshold
                                             THEN "cancelled" ELSE @]
        BY <4>1 DEF confirmCancel
      <4> HIDE DEF given
      <4>4. ops'[id].cancelConfirmedBy = given /\ Cardinality(given \cap signers) >= threshold
        BY <2>3, <4>2, <4>3 DEF OperationsOK, IsOperation
      <4>5. QED
        BY <4>2, <4>4, EnoughIsMajority DEF GovernanceOK
    <3>3. QED
      BY <2>1, <2>3, <3>1, <3>2, OnlyCancelCancels
  <2>4. QED
    BY <2>2, <2>3
<1>2. QED
  BY <1>1, TimelockInvariant, PTL DEF TimelockSpec, PresentMajorityDecides

(* A signer replacement below the override quorum was approved by the guardian of today under the
   signers and the threshold of today, however governance changed in between. *)
THEOREM RecoveryAlwaysApproved == TimelockSpec => RecoveryApprovedUnderPresentGovernance
<1> DEFINE Approved(id) ==
        (/\ ops[id].state # "executed" /\ ops'[id].state = "executed"
         /\ ops[id].overrideClass
         /\ currentConfirmations(id) < overrideThreshold)
        => ops[id].approvedUnder = <<signers, threshold, guardian>>
<1>1. TimelockInv /\ [TimelockNext]_tlVars => \A id \in Ops : Approved(id)
  <2>1. SUFFICES ASSUME TimelockInv, [TimelockNext]_tlVars, NEW id \in Ops,
                        ops[id].state # "executed", ops'[id].state = "executed",
                        ops[id].overrideClass,
                        currentConfirmations(id) < overrideThreshold
                 PROVE  ops[id].approvedUnder = <<signers, threshold, guardian>>
    OBVIOUS
  <2>2. currentConfirmations(id) >= overrideExecutionThreshold(id)
    BY <2>1, OnlyExecuteExecutes DEF execute, executable, enoughConfirmations
  <2>3. currentConfirmations(id) \in Nat /\ overrideThreshold \in Nat
    BY <2>1, FS_Intersection, FS_CardinalityType, ThresholdIsMajority
       DEF TimelockInv, GovernanceOK, currentConfirmations, overrideThreshold
  <2>4. approvalCounts(id)
    BY <2>1, <2>2, <2>3 DEF overrideExecutionThreshold
  <2>5. QED
    BY <2>1, <2>4 DEF approvalCounts, TimelockInv, ApprovalsCurrent
<1>2. QED
  BY <1>1, TimelockInvariant, PTL DEF TimelockSpec, RecoveryApprovedUnderPresentGovernance

(* However deeply execute calls nest, signers, threshold and guardian change only in the call of
   an operation that was itself scheduled as an override. *)
THEOREM AlwaysGovernedByOverride == TimelockSpec => GovernanceByOverride
<1> DEFINE ByOverride ==
        (<<signers, threshold, guardian>> # <<signers', threshold', guardian'>> /\ frames' # <<>>)
        => ops[Innermost.id].overrideClass
<1>1. TimelockInv /\ [TimelockNext]_tlVars => ByOverride
  <2>1. SUFFICES ASSUME TimelockInv, [TimelockNext]_tlVars,
                        <<signers, threshold, guardian>> # <<signers', threshold', guardian'>>,
                        frames' # <<>>
                 PROVE  ops[Innermost.id].overrideClass
    OBVIOUS
  <2>2. SelfCalls
    BY <2>1 DEF TimelockNext, schedule, confirm, confirmCancel, approveSignerRecovery, cancel, expire,
                execute, return, callFailed, Tick, keepAccounts, gov, tlVars
  <2>3. executingOverride
    BY <2>2 DEF SelfCalls, addSigner, removeSigner, swapSigner, setThreshold, setGuardian, selfCall
  <2>4. QED
    BY <2>1, <2>3 DEF TimelockInv, FlagFollowsFrames, ClassAt, Innermost
<1>2. QED
  BY <1>1, TimelockInvariant, PTL DEF TimelockSpec, GovernanceByOverride
=============================================================================
