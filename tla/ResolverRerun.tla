--------------------------- MODULE ResolverRerun ---------------------------
(***************************************************************************)
(* The independent rerun behind one resolver signature:                    *)
(* agent/resolver-signer.mjs (--prepare-rerun and the signing command),    *)
(* agent/resolver-rerun-attestation.mjs (challenge, renewal, receipt),     *)
(* agent/resolver-rerun-dispatcher.mjs (the board's one service slot) and  *)
(* agent/resolver-rerun-executor.mjs (recover, enqueue, attest, results).  *)
(*                                                                         *)
(* One signer, one board.  An attempt is a decision packet together with   *)
(* the nonce of the challenge the signer issued for it.  Every command     *)
(* writes its files one at a time and may die in between; what is on disk  *)
(* is all the next run knows.                                              *)
(***************************************************************************)
EXTENDS Integers, FiniteSets

CONSTANTS
    Packets,        \* decision packets of the board, one per challenge
    Ttl,            \* life of a challenge, in ticks
    MaxNonces,      \* bound on challenges issued for one packet
    MaxTime,        \* bound on the clock
    MaxFaults,      \* bound on crashes and failed executions
    Overlapping,    \* may the signer's two commands run at the same time?
    Crashing,       \* the commands that may die: subset of Commands
    None

Commands == {"prepare", "sign", "dispatch", "unit"}

RerunAssumption ==
    /\ Ttl \in Nat \ {0} /\ {MaxNonces, MaxTime, MaxFaults} \subseteq Nat
    /\ Overlapping \in BOOLEAN /\ Crashing \subseteq Commands

Nonces == 1 .. MaxNonces
Attempts == Packets \X Nonces

VARIABLES
    now,
    chal,          \* packet -> the challenge file
    intent,        \* attempt -> the renewal intent that replaces it
    tomb,          \* attempts with a tombstone
    issued,        \* packet -> nonces drawn so far
    requests,      \* attempts in the signer's spool
    expiry,        \* attempt -> when it expires, once issued
    prep,          \* the --prepare-rerun command: <<packet, step>>
    bound, authorized, signed,   \* the attempt's three marker files
    authz,         \* packet -> the attempt its authorization names
    artifact,      \* packets with a signature artifact
    sgn,           \* the signing command
    journal,       \* attempt -> its dispatch journal
    slot,          \* the attempt of the board's slot file
    installed,     \* the attempt of request.json
    disp,          \* the dispatcher: what is left of a pass, and its step
    unit,          \* the systemd unit: state, attempt and step
    job,           \* attempts the host executor holds: "queued", "attested"
    results,       \* <<attempt, file>> in the result directory
    faults

signerVars == <<chal, intent, tomb, issued, requests, expiry, prep>>
signVars == <<bound, authorized, signed, authz, artifact, sgn>>
dispatchVars == <<journal, slot, installed, disp>>
execVars == <<unit, job, results>>
vars == <<now, signerVars, signVars, dispatchVars, execVars, faults>>

nothing == [todo |-> {}, a |-> None, step |-> "idle"]
idleUnit(state) == [state |-> state, a |-> None, step |-> "idle"]

Init ==
    /\ now = 0 /\ faults = 0
    /\ chal = [p \in Packets |-> None] /\ intent = [a \in Attempts |-> None]
    /\ tomb = {} /\ issued = [p \in Packets |-> 0] /\ requests = {}
    /\ expiry = [a \in Attempts |-> 0] /\ prep = None
    /\ bound = {} /\ authorized = {} /\ signed = {}
    /\ authz = [p \in Packets |-> None] /\ artifact = {} /\ sgn = None
    /\ journal = [a \in Attempts |-> None] /\ slot = None /\ installed = None /\ disp = nothing
    /\ unit = idleUnit("inactive") /\ job = [a \in Attempts |-> "none"] /\ results = {}

----------------------------------------------------------------------------
\* --prepare-rerun: issueResolverRerunChallenge under its lock, then the request

Current(p) == <<p, chal[p].n>>
active(p) == now < chal[p].exp

(* A challenge may be renewed once it has expired without a receipt, an     *)
(* authorization or a signature.                                            *)
mayRenewExpired(p) == TRUE
mayRenew(p) == Current(p) \notin bound \cup authorized \cup signed

freshChallenge(p) == [n |-> issued[p] + 1, iss |-> now, exp |-> now + Ttl]

\* The bounds on nonces and on the clock: every challenge can still expire.
mayIssue(p) == issued[p] < MaxNonces /\ now + Ttl <= MaxTime

(* First challenge, resumption of the active one, or the renewal intent: a  *)
(* left-over intent is used again, with its own times.                      *)
Issue(p) ==
    /\ prep = None /\ (Overlapping \/ sgn = None)
    /\ \/ /\ chal[p] = None /\ mayIssue(p)
          /\ chal' = [chal EXCEPT ![p] = freshChallenge(p)]
          /\ issued' = [issued EXCEPT ![p] = @ + 1]
          /\ expiry' = [expiry EXCEPT ![<<p, issued[p] + 1>>] = now + Ttl]
          /\ prep' = <<p, "request">> /\ UNCHANGED intent
       \/ /\ chal[p] # None /\ active(p) /\ Current(p) \notin requests
          /\ prep' = <<p, "request">> /\ UNCHANGED <<chal, issued, expiry, intent>>
       \/ /\ chal[p] # None /\ ~active(p) /\ mayRenew(p)
          /\ prep' = <<p, "tombstone">> /\ UNCHANGED chal
          /\ IF intent[Current(p)] # None THEN UNCHANGED <<issued, expiry, intent>>
             ELSE /\ mayIssue(p)
                  /\ intent' = [intent EXCEPT ![Current(p)] = freshChallenge(p)]
                  /\ issued' = [issued EXCEPT ![p] = @ + 1]
                  /\ expiry' = [expiry EXCEPT ![<<p, issued[p] + 1>>] = now + Ttl]
    /\ UNCHANGED <<now, tomb, requests, signVars, dispatchVars, execVars, faults>>

WriteTombstone(p) ==
    /\ prep = <<p, "tombstone">> /\ prep' = <<p, "replace">>
    /\ tomb' = tomb \cup {Current(p)}
    /\ UNCHANGED <<now, chal, intent, issued, requests, expiry, signVars, dispatchVars, execVars, faults>>

ReplaceChallenge(p) ==
    /\ prep = <<p, "replace">> /\ prep' = <<p, "request">>
    /\ chal' = [chal EXCEPT ![p] = intent[Current(p)]]
    /\ UNCHANGED <<now, tomb, intent, issued, requests, expiry, signVars, dispatchVars, execVars, faults>>

(* buildResolverRerunRequest signs the packet, nonce and times of the       *)
(* challenge on disk; persistResolverRerunRequest is exclusive, and         *)
(* idempotent for equal bytes.                                              *)
rerunRequest(p) == Current(p)
PersistRequest(p) ==
    /\ prep = <<p, "request">> /\ prep' = None
    /\ requests' = requests \cup {rerunRequest(p)}
    /\ UNCHANGED <<now, chal, tomb, intent, issued, expiry, signVars, dispatchVars, execVars, faults>>

----------------------------------------------------------------------------
\* The signing command

resultReadyTranscript(a) == <<a, "transcript">> \in results
resultReady(a) == {<<a, "transcript">>, <<a, "receipt">>} \subseteq results

(* The command reads the challenge, the two results, and whether this       *)
(* receipt is bound already.                                                *)
ReadResults(p) ==
    /\ sgn = None /\ (Overlapping \/ prep = None)
    /\ chal[p] # None /\ resultReady(Current(p)) /\ Current(p) \notin signed
    /\ sgn' = [a |-> Current(p), step |-> "verify", bound |-> Current(p) \in bound]
    /\ UNCHANGED <<now, signerVars, bound, authorized, signed, authz, artifact, dispatchVars, execVars, faults>>

(* verifyResolverRerunReceipt: not stale, unless the receipt was bound.     *)
verifyResolverRerunReceipt(a, alreadyBound) == now < expiry[a] \/ alreadyBound

signStep(from, to) == sgn # None /\ sgn.step = from /\ sgn' = [sgn EXCEPT !.step = to]
signFrame == UNCHANGED <<now, signerVars, dispatchVars, execVars, faults>>

Verify ==
    /\ sgn # None /\ sgn.step = "verify"
    /\ sgn' = IF verifyResolverRerunReceipt(sgn.a, sgn.bound) THEN [sgn EXCEPT !.step = "bind"] ELSE None
    /\ signFrame /\ UNCHANGED <<bound, authorized, signed, authz, artifact>>

(* bindResolverRerunReceipt.                                                *)
BindReceipt ==
    /\ signStep("bind", "authorize") /\ bound' = bound \cup {sgn.a}
    /\ signFrame /\ UNCHANGED <<authorized, signed, authz, artifact>>

(* persistSignerAuthorization: one per challenge instance, receipt          *)
(* included.                                                                *)
authorizationAgrees(a) == authz[a[1]] \in {None, a}
PersistAuthorization ==
    /\ sgn # None /\ sgn.step = "authorize"
    /\ IF authorizationAgrees(sgn.a)
       THEN /\ authz' = [authz EXCEPT ![sgn.a[1]] = sgn.a] /\ sgn' = [sgn EXCEPT !.step = "mark"]
       ELSE sgn' = None /\ UNCHANGED authz
    /\ signFrame /\ UNCHANGED <<bound, authorized, signed, artifact>>

MarkAuthorization ==
    /\ signStep("mark", "sign") /\ authorized' = authorized \cup {sgn.a}
    /\ signFrame /\ UNCHANGED <<bound, signed, authz, artifact>>

WriteArtifact ==
    /\ signStep("sign", "complete") /\ artifact' = artifact \cup {sgn.a[1]}
    /\ signFrame /\ UNCHANGED <<bound, authorized, signed, authz>>

MarkSignature ==
    /\ sgn # None /\ sgn.step = "complete" /\ sgn' = None
    /\ signed' = signed \cup {sgn.a}
    /\ signFrame /\ UNCHANGED <<bound, authorized, authz, artifact>>

Signing == Verify \/ BindReceipt \/ PersistAuthorization \/ MarkAuthorization \/ WriteArtifact \/ MarkSignature
Preparing(p) == WriteTombstone(p) \/ ReplaceChallenge(p) \/ PersistRequest(p)

----------------------------------------------------------------------------
\* The dispatcher

terminalJournal == {"completed", "terminal-expired"}
inProgress(a) == journal[a] \in {"rotating", "dispatching", "dispatched"}
unitActive == unit.state = "active"

(* A pass, by path unit or recovery timer, over the spool as it is now.     *)
BeginDispatch ==
    /\ disp = nothing /\ requests # {}
    /\ disp' = [todo |-> requests, a |-> None, step |-> "next"]
    /\ UNCHANGED <<now, signerVars, signVars, journal, slot, installed, execVars, faults>>

chosen(a) == a \in disp.todo /\ ((\E b \in disp.todo : inProgress(b)) => inProgress(a))
carryOn(a) == disp' = [disp EXCEPT !.todo = @ \ {a}]
endDispatch == disp' = nothing
dispatchFrame == UNCHANGED <<now, signerVars, signVars, job, results, faults>>

(* The slot rotates only when the request it names is terminal; without a   *)
(* slot the installed bytes must be this request's.                         *)
mayRotate(a) ==
    IF slot # None THEN journal[slot] \in terminalJournal ELSE installed \in {None, a}

(* One request of the pass: done, result ready, running, expired, or to be  *)
(* rotated in or started again; anything inconsistent ends the pass.        *)
Examine(a) ==
    /\ disp.step = "next" /\ chosen(a)
    /\ \/ /\ journal[a] = "completed" /\ carryOn(a) /\ UNCHANGED journal
       \/ /\ journal[a] # "completed" /\ resultReady(a)
          /\ journal' = [journal EXCEPT ![a] = "completed"] /\ carryOn(a)
       \/ /\ journal[a] # "completed" /\ ~resultReady(a) /\ unitActive
          /\ endDispatch
          /\ journal' = IF slot = a /\ journal[a] \in {"dispatching", "dispatched"} /\ installed = a
                        THEN [journal EXCEPT ![a] = "dispatched"] ELSE journal
       \/ /\ journal[a] # "completed" /\ ~resultReady(a) /\ ~unitActive /\ now >= expiry[a]
          /\ journal' = [journal EXCEPT ![a] = "terminal-expired"] /\ carryOn(a)
       \/ /\ journal[a] # "completed" /\ ~resultReady(a) /\ ~unitActive /\ now < expiry[a]
          /\ IF slot = a
             THEN /\ disp' = IF installed = a THEN [disp EXCEPT !.a = a, !.step = "dispatching"] ELSE nothing
                  /\ UNCHANGED journal
             ELSE IF mayRotate(a)
             THEN /\ journal' = [journal EXCEPT ![a] = "rotating"]
                  /\ disp' = [disp EXCEPT !.a = a, !.step = "install"]
             ELSE endDispatch /\ UNCHANGED journal
    /\ dispatchFrame /\ UNCHANGED <<slot, installed, unit>>

FinishPass ==
    /\ disp.step = "next" /\ disp.todo = {} /\ endDispatch
    /\ dispatchFrame /\ UNCHANGED <<journal, slot, installed, unit>>

dispatchStep(from, to) == disp.step = from /\ disp' = [disp EXCEPT !.step = to]

(* installExactRequest, then the slot file, then the dispatching journal.   *)
Install ==
    /\ dispatchStep("install", "slot") /\ installed' = disp.a
    /\ dispatchFrame /\ UNCHANGED <<journal, slot, unit>>
WriteSlot ==
    /\ dispatchStep("slot", "dispatching") /\ slot' = disp.a
    /\ dispatchFrame /\ UNCHANGED <<journal, installed, unit>>
MarkDispatching ==
    /\ dispatchStep("dispatching", "start")
    /\ journal' = [journal EXCEPT ![disp.a] = "dispatching"]
    /\ dispatchFrame /\ UNCHANGED <<slot, installed, unit>>

(* systemctl start: the unit reads request.json.                            *)
StartUnit ==
    /\ dispatchStep("start", "dispatched")
    /\ unit' = IF unitActive THEN unit ELSE [state |-> "active", a |-> installed, step |-> "recover"]
    /\ dispatchFrame /\ UNCHANGED <<journal, slot, installed>>

MarkDispatched ==
    /\ disp.step = "dispatched" /\ endDispatch
    /\ journal' = [journal EXCEPT ![disp.a] = "dispatched"]
    /\ dispatchFrame /\ UNCHANGED <<slot, installed, unit>>

Dispatching == \/ \E a \in Attempts : Examine(a)
               \/ FinishPass \/ Install \/ WriteSlot \/ MarkDispatching \/ StartUnit \/ MarkDispatched

----------------------------------------------------------------------------
\* The executor in its unit, and the host's queue as it calls it

execFrame == UNCHANGED <<now, signerVars, signVars, dispatchVars, faults>>
unitAt(step) == unitActive /\ unit.step = step
unitTo(step) == unit' = [unit EXCEPT !.step = step]

(* rerun-recover first; an expired request is only written out, never run.  *)
requestExpired(a) == now >= expiry[a]
Recover ==
    /\ unitAt("recover")
    /\ unit' = IF job[unit.a] = "attested" THEN [unit EXCEPT !.step = "transcript"]
               ELSE IF requestExpired(unit.a) THEN idleUnit("failed")
               ELSE [unit EXCEPT !.step = "enqueue"]
    /\ execFrame /\ UNCHANGED <<job, results>>

(* rerun-enqueue: the job id and the event hash make it idempotent.         *)
Enqueue ==
    /\ unitAt("enqueue") /\ unitTo("execute")
    /\ job' = [job EXCEPT ![unit.a] = IF @ = "none" THEN "queued" ELSE @]
    /\ execFrame /\ UNCHANGED results

(* rerun-execute and rerun-attest, until attested or out of attempts.       *)
ExecuteAndAttest ==
    /\ unitAt("execute") /\ unitTo("transcript")
    /\ job' = [job EXCEPT ![unit.a] = "attested"]
    /\ execFrame /\ UNCHANGED results

(* writeResolverRerunResult: the transcript, then the receipt.              *)
WriteTranscript ==
    /\ unitAt("transcript") /\ unitTo("receipt")
    /\ results' = results \cup {<<unit.a, "transcript">>}
    /\ execFrame /\ UNCHANGED job
WriteReceipt ==
    /\ unitAt("receipt") /\ unit' = idleUnit("inactive")
    /\ results' = results \cup {<<unit.a, "receipt">>}
    /\ execFrame /\ UNCHANGED job

Executing == Recover \/ Enqueue \/ ExecuteAndAttest \/ WriteTranscript \/ WriteReceipt

----------------------------------------------------------------------------
fault(command) == command \in Crashing /\ faults < MaxFaults /\ faults' = faults + 1

PrepareCrash ==
    /\ fault("prepare") /\ prep # None /\ prep' = None
    /\ UNCHANGED <<now, chal, intent, tomb, issued, requests, expiry, signVars, dispatchVars, execVars>>
SignCrash ==
    /\ fault("sign") /\ sgn # None /\ sgn' = None
    /\ UNCHANGED <<now, signerVars, bound, authorized, signed, authz, artifact, dispatchVars, execVars>>
DispatchCrash ==
    /\ fault("dispatch") /\ disp # nothing /\ disp' = nothing
    /\ UNCHANGED <<now, signerVars, signVars, journal, slot, installed, execVars>>
\* The unit dies, or its verifier does not finish in the allowed attempts.
UnitFails ==
    /\ fault("unit") /\ unitActive /\ unit' = idleUnit("failed")
    /\ UNCHANGED <<now, signerVars, signVars, dispatchVars, job, results>>

Tick ==
    /\ now < MaxTime /\ now' = now + 1
    /\ UNCHANGED <<signerVars, signVars, dispatchVars, execVars, faults>>

Next ==
    \/ \E p \in Packets : Issue(p) \/ Preparing(p) \/ ReadResults(p)
    \/ Signing \/ BeginDispatch \/ Dispatching \/ Executing
    \/ PrepareCrash \/ SignCrash \/ DispatchCrash \/ UnitFails \/ Tick

Spec == Init /\ [][Next]_vars

(* The recovery timer repeats the dispatcher, a started command goes on, a  *)
(* signer repeats its signing command, and time passes.                     *)
FairSpec ==
    /\ Spec
    /\ WF_vars(BeginDispatch) /\ WF_vars(Dispatching) /\ WF_vars(Executing) /\ WF_vars(Tick)
    /\ WF_vars(Signing)
    /\ \A p \in Packets : SF_vars(ReadResults(p)) /\ WF_vars(Preparing(p))

----------------------------------------------------------------------------
(* The shape of the state.                                                  *)
TypeOK ==
    /\ now \in 0 .. MaxTime /\ faults \in 0 .. MaxFaults
    /\ \A p \in Packets : chal[p] # None => chal[p].n \in Nonces /\ chal[p].exp = chal[p].iss + Ttl
    /\ tomb \cup requests \cup bound \cup authorized \cup signed \subseteq Attempts
    /\ \A a \in Attempts : journal[a] \in {None, "rotating", "dispatching", "dispatched"} \cup terminalJournal
    /\ slot \in Attempts \cup {None} /\ installed \in Attempts \cup {None}
    /\ unit.state \in {"inactive", "active", "failed"}

(* README: an expired attempt is renewed only when it has no receipt,       *)
(* authorization or signature, and the tombstone says so for good           *)
(* (resolver-rerun-attestation.mjs:102).                                    *)
TombstonesClean == tomb \cap (bound \cup authorized \cup signed) = {}

(* A signature rests on an authorization that names its attempt, on that    *)
(* attempt's bound receipt, and on results the executor really wrote,       *)
(* however often the commands crashed and were repeated.                    *)
SignatureRests ==
    \A p \in artifact : authz[p] # None /\ authz[p] \in bound /\ {<<authz[p], "transcript">>, <<authz[p], "receipt">>} \subseteq results

(* The unit runs the request the slot names, and the slot stays with it     *)
(* until that request is terminal or its unit has stopped, whatever crash   *)
(* came between journal, bytes, slot and start.                             *)
RunningIsSlotted ==
    unitActive => unit.a = slot /\ unit.a = installed /\ inProgress(unit.a)

(* Every request in the spool ends: its result is recorded, or it expires   *)
(* (README: journals a per-board slot through rotating, dispatching,        *)
(* dispatched and completed; a recovery timer repeats the pass).            *)
RequestsSettle ==
    \A a \in Attempts : (a \in requests) ~> (journal[a] \in terminalJournal)

(* A board whose unit is idle and whose earlier requests are over takes the *)
(* next unexpired request (README: a later request can replace the slot     *)
(* while the unit is inactive and the prior request is durably terminal).   *)
FreshRequestsRotate ==
    ~unitActive /\ disp = nothing /\ (\A b \in Attempts : ~inProgress(b))
        => \A a \in requests : journal[a] = None => slot = a \/ mayRotate(a)

(* README: an identical receipt retry resumes after a crash at any of the   *)
(* boundaries: once a receipt is bound its signature is made, also after    *)
(* the challenge has expired.                                               *)
BoundIsSigned == \A a \in Attempts : (a \in bound) ~> (a \in signed)
=============================================================================
