-------------------------- MODULE RuntimeSupervisor --------------------------
(***************************************************************************)
(* agent/runtime-supervisor.mjs under systemd: one runtime cycle after     *)
(* another, each cut off by a timer, by too much output or by SIGTERM, its *)
(* outcome appended to a journal that survives the supervisor, and a       *)
(* budget of consecutive failures that is read back from that journal.     *)
(***************************************************************************)
EXTENDS Integers, Sequences, FiniteSets

CONSTANTS
    None,
    maxFailures,      \* --max-failures
    DiskFails,        \* whether a write of the journal may fail
    Codes,            \* exit statuses of the runtime
    StartLimitBurst,  \* restarts that systemd makes by itself
    MaxCycles,        \* bound on the length of the journal
    MaxStarts,        \* bound on the starts made by hand
    MaxCrashes        \* bound on the kills of the supervisor

ASSUME SupervisorAssumption ==
    /\ maxFailures \in Nat \ {0}
    /\ Codes \subseteq Nat /\ DiskFails \in BOOLEAN
    /\ StartLimitBurst \in Nat /\ MaxCycles \in Nat /\ MaxStarts \in Nat /\ MaxCrashes \in Nat

VARIABLES
    phase,      \* where the supervisor is: down, loop, cycle, append, sleep
    status,     \* how the last supervisor process ended
    aborted,    \* the signal of the abort controller
    child,      \* the runtime process: absent, running, ended
    ending,     \* how it ended: a status, Signalled or SpawnFailed
    reason, exceeded, killTimer,
    outcome,    \* the classification on its way to the journal
    journal,    \* the file: a sequence of [classification, failures]
    failures,   \* consecutiveFailures, in memory
    restarts, starts, crashes,
    failing, lost   \* history: failed cycles since a success, those the journal missed

cycleVars == <<child, ending, reason, exceeded, killTimer>>
counters == <<restarts, starts, crashes>>
vars == <<phase, status, aborted, cycleVars, outcome, journal, failures, counters, failing, lost>>

\* Endings without an exit status.
Signalled == -1
SpawnFailed == -2
Killed == 137

Classifications ==
    {"success", "spawn-error", "timeout", "output-limit", "signal-failure", "terminal-refusal",
     "retryable-failure", "runtime-failure", "supervisor-terminated"}

TypeOK ==
    /\ phase \in {"down", "loop", "cycle", "append", "sleep"}
    /\ status \in Codes \cup {None, Killed, 64, 70, 143}
    /\ aborted \in BOOLEAN /\ exceeded \in BOOLEAN /\ killTimer \in BOOLEAN
    /\ child \in {"absent", "running", "ended"}
    /\ ending \in Codes \cup {None, Signalled, SpawnFailed}
    /\ reason \in {None, "timeout", "output-limit", "supervisor-terminated"}
    /\ outcome \in Classifications \cup {None}
    /\ journal \in Seq([classification : Classifications, failures : Nat])
    /\ failures \in Nat /\ failing \in Nat /\ lost \in Nat
    /\ restarts \in 0 .. StartLimitBurst /\ starts \in 0 .. MaxStarts /\ crashes \in 0 .. MaxCrashes

----------------------------------------------------------------------------
\* The journal

isFailure(classification) == classification \notin {"success", "supervisor-terminated"}

failuresAfter(before, classification) ==
    IF classification = "success" THEN 0 ELSE before + (IF isFailure(classification) THEN 1 ELSE 0)

persistedIn_previous(records) == IF Len(records) < 2 THEN 0 ELSE records[Len(records) - 1].failures
persistedIn(records) == IF records = <<>> THEN 0 ELSE records[Len(records)].failures

\* The hash chain, the sequence numbers and the cycle numbers are the positions.
parseAndVerifyJournal(records) ==
    \A i \in 1 .. Len(records) :
        records[i].failures =
            failuresAfter(IF i = 1 THEN 0 ELSE records[i - 1].failures, records[i].classification)

----------------------------------------------------------------------------
\* One cycle of the runtime

Spawn ==
    /\ phase = "loop" /\ ~aborted
    /\ Len(journal) < MaxCycles
    /\ phase' = "cycle"
    /\ \/ child' = "running" /\ ending' = None
       \/ child' = "ended" /\ ending' = SpawnFailed
    /\ reason' = None /\ exceeded' = FALSE /\ killTimer' = FALSE
    /\ UNCHANGED <<status, aborted, outcome, journal, failures, counters, failing, lost>>

\* SIGTERM outranks a reason that is already there; the first of the others stays.
reasonAfter(next) == IF reason = None \/ next = "supervisor-terminated" THEN next ELSE reason

requestTermination(next) ==
    /\ reason' = reasonAfter(next)
    /\ killTimer' = (killTimer \/ child = "running")

Timeout ==
    /\ phase = "cycle"
    /\ reason # "timeout"
    /\ requestTermination("timeout")
    /\ UNCHANGED <<phase, status, aborted, child, ending, exceeded, outcome, journal, failures,
                   counters, failing, lost>>

outputCollector ==
    /\ phase = "cycle" /\ ending # SpawnFailed /\ ~exceeded
    /\ exceeded' = TRUE
    /\ requestTermination("output-limit")
    /\ UNCHANGED <<phase, status, aborted, child, ending, outcome, journal, failures, counters,
                   failing, lost>>

\* The runtime ends by itself or on SIGTERM, with a status of its own.
ChildEnds(how) ==
    /\ child = "running"
    /\ child' = "ended" /\ ending' = how
    /\ UNCHANGED <<phase, status, aborted, reason, exceeded, killTimer, outcome, journal,
                   failures, counters, failing, lost>>

KillAfterGrace ==
    /\ phase = "cycle" /\ killTimer
    /\ ChildEnds(Signalled)

classificationOf_code ==
    CASE ending = SpawnFailed -> "spawn-error"
      [] ending = Signalled -> "signal-failure"
      [] ending = 0 -> "success"
      [] ending \in {64, 78} -> "terminal-refusal"
      [] ending = 75 -> "retryable-failure"
      [] OTHER -> "runtime-failure"
classificationOf ==
    IF reason \in {"supervisor-terminated", "timeout"} THEN reason
    ELSE IF exceeded THEN "output-limit" ELSE classificationOf_code

\* What the runtime did, whatever the supervisor calls it.
reallyFailed == ending # 0 \/ exceeded \/ reason = "timeout"

\* finish, on the child's close or error event, then the counter in supervise.
runRuntimeCycle ==
    /\ phase = "cycle" /\ child = "ended"
    /\ phase' = "append" /\ child' = "absent"
    /\ outcome' = classificationOf
    /\ failures' = failuresAfter(failures, classificationOf)
    /\ failing' = IF classificationOf = "success" THEN 0
                  ELSE failing + (IF reallyFailed THEN 1 ELSE 0)
    /\ lost' = IF classificationOf = "success" THEN 0
               ELSE lost + (IF reallyFailed /\ ~isFailure(classificationOf) THEN 1 ELSE 0)
    /\ UNCHANGED <<status, aborted, ending, reason, exceeded, killTimer, journal, counters>>

----------------------------------------------------------------------------
\* The loop

exit(code) == phase' = "down" /\ status' = code

appended == Append(journal, [classification |-> outcome, failures |-> failures])

\* Where supervise goes once the record is on disk.
nextPhase ==
    IF outcome = "supervisor-terminated" \/ aborted THEN exit(143)
    ELSE IF outcome = "terminal-refusal" THEN exit(ending)
    ELSE IF failures >= maxFailures THEN exit(70)
    ELSE phase' = (IF isFailure(outcome) THEN "sleep" ELSE "loop") /\ UNCHANGED status

\* One rename puts the new text in place of the old one.
append ==
    /\ phase = "append"
    /\ parseAndVerifyJournal(appended)
    /\ journal' = appended
    /\ nextPhase
    /\ outcome' = None
    /\ UNCHANGED <<aborted, cycleVars, failures, counters, failing, lost>>

\* A write, a rename or an fsync that fails ends the process with 70; the record
\* may be on disk or not.
appendFails ==
    /\ phase = "append" /\ DiskFails
    /\ \/ journal' = appended /\ UNCHANGED lost
       \/ journal' = journal /\ lost' = lost + (IF isFailure(outcome) THEN 1 ELSE 0)
    /\ exit(70)
    /\ outcome' = None
    /\ UNCHANGED <<aborted, cycleVars, failures, counters, failing>>

\* The sleep ends with the backoff or with the signal.
abortableSleep ==
    /\ phase = "sleep"
    /\ phase' = "loop"
    /\ UNCHANGED <<status, aborted, cycleVars, outcome, journal, failures, counters, failing, lost>>

LoopEnds ==
    /\ phase = "loop" /\ aborted
    /\ exit(143)
    /\ UNCHANGED <<aborted, cycleVars, outcome, journal, failures, counters, failing, lost>>

\* SIGTERM of `systemctl stop', once: the handler is installed with process.once.
Sigterm ==
    /\ phase # "down" /\ ~aborted
    /\ aborted' = TRUE
    /\ IF phase = "cycle" THEN requestTermination("supervisor-terminated")
       ELSE UNCHANGED <<reason, killTimer>>
    /\ UNCHANGED <<phase, status, child, ending, exceeded, outcome, journal, failures, counters,
                   failing, lost>>

----------------------------------------------------------------------------
\* Starts and crashes

\* createJournal and the first lines of supervise.
main ==
    /\ aborted' = FALSE /\ outcome' = None
    /\ parseAndVerifyJournal(journal)
    /\ failures' = persistedIn(journal)
    /\ IF failures' >= maxFailures THEN phase' = "down" /\ status' = 70
                                   ELSE phase' = "loop" /\ status' = None
    /\ UNCHANGED <<cycleVars, journal, crashes, failing, lost>>

\* Restart=on-failure, RestartPreventExitStatus=64 70 78 143.
SystemdRestarts ==
    /\ phase = "down" /\ status \notin {None, 0, 64, 70, 78, 143}
    /\ restarts < StartLimitBurst /\ restarts' = restarts + 1 /\ UNCHANGED starts
    /\ main

OperatorStarts ==
    /\ phase = "down"
    /\ starts < MaxStarts /\ starts' = starts + 1 /\ restarts' = 0
    /\ main

\* The supervisor is killed; systemd kills what is left of its control group.
Crash ==
    /\ phase # "down" /\ crashes < MaxCrashes
    /\ crashes' = crashes + 1
    /\ exit(Killed)
    /\ child' = "absent" /\ reason' = None /\ exceeded' = FALSE /\ killTimer' = FALSE /\ ending' = None
    /\ outcome' = None
    /\ IF phase = "append" THEN lost' = lost + (IF isFailure(outcome) THEN 1 ELSE 0) ELSE UNCHANGED lost
    /\ UNCHANGED <<aborted, journal, failures, restarts, starts, failing>>

Init ==
    /\ phase = "down" /\ status = None /\ aborted = FALSE
    /\ child = "absent" /\ ending = None /\ reason = None /\ exceeded = FALSE /\ killTimer = FALSE
    /\ outcome = None /\ journal = <<>> /\ failures = 0
    /\ restarts = 0 /\ starts = 0 /\ crashes = 0 /\ failing = 0 /\ lost = 0

Next ==
    \/ Spawn \/ Timeout \/ outputCollector \/ KillAfterGrace \/ runRuntimeCycle
    \/ \E how \in Codes \cup {Signalled} : ChildEnds(how)
    \/ append \/ appendFails \/ abortableSleep \/ LoopEnds
    \/ Sigterm \/ SystemdRestarts \/ OperatorStarts \/ Crash

Spec == Init /\ [][Next]_vars

\* The timers of the supervisor fire, the kernel delivers SIGKILL and the close
\* event, and the disk answers.
FairSpec ==
    /\ Spec
    /\ WF_vars(Timeout) /\ WF_vars(KillAfterGrace) /\ WF_vars(runRuntimeCycle)
    /\ WF_vars(append \/ appendFails) /\ WF_vars(LoopEnds) /\ WF_vars(abortableSleep)
----------------------------------------------------------------------------
\* After every crash and every failed write the journal on disk says how often
\* the runtime has failed since the last success, stops not counted (append).
JournalVerifies ==
    \A i \in DOMAIN journal :
        journal[i].failures =
            Cardinality({j \in 1 .. i : /\ isFailure(journal[j].classification)
                                       /\ \A k \in j .. i : journal[k].classification # "success"})

\* The budget holds over restarts: the runtime fails at most maxFailures times
\* in a row, plus the failures that a crash, a failed write or a SIGTERM that
\* arrived in the same cycle kept out of the journal (supervise).
BudgetHolds == failing <= maxFailures + lost

\* When the journal says that the budget is spent, no start, by hand or by
\* systemd, runs the runtime again.
SpentStaysSpent == [][persistedIn(journal) >= maxFailures => child' # "running" \/ child = "running"]_vars

\* A stop asked for by SIGTERM is reported as one, never as a failure that
\* systemd would restart or alert on, as long as the disk works (DiskFails is FALSE).
StopIsNotAFailure ==
    [][aborted /\ phase # "down" /\ phase' = "down" => status' \in {143, Killed}]_vars

\* No cycle lasts for ever: a runtime that ignores its timeout is killed.
CyclesEnd == phase = "cycle" ~> phase # "cycle"

\* SIGTERM stops the service.
StopsOnSigterm == aborted ~> phase = "down"
=============================================================================
